---------------------------- MODULE LowLevel_proofs ----------------------------
(***************************************************************************)
(* The safety of LowLevel for any number of workers, requests and          *)
(* retrieves, any file system and any version of the kernel: every request *)
(* gets one answer, both sides agree on the version they speak, the file   *)
(* system lives from one op.init to one op.destroy, and replies to         *)
(* retrieves find what they answer.                                        *)
(***************************************************************************)
EXTENDS LowLevel, FiniteSetTheorems, WellFoundedInduction, TLAPS

-----------------------------------------------------------------------------
(* The inductive invariant.                                                *)

Message == [unique : Numbers, op : Opcodes, uid : Uids, flags : SUBSET Flags, count : 0..2]

(* The whole state, with what an idle worker has.                          *)
Typed ==
  /\ TypeOK /\ settings \in Settings
  /\ req \in [Workers -> Message \cup {NoMessage}]
  /\ \A w \in Workers : IF Serves(w) THEN req[w] \in Message ELSE req[w] = NoMessage
  /\ fs \in [inits : Nat, destroys : Nat]

(* A message is named by a number that was given out.                      *)
Named(m) ==
  IF m.op = "NOTIFY_REPLY" THEN m.unique \in 1..notifyCtr ELSE m.unique \in sent

(* The conjuncts of OneAnswer, one by one, and what they rest on: numbers  *)
(* are given out once.                                                     *)
InChannel(u) == \E m \in inbox : m.unique = u /\ m.op \notin Unanswered
AtWorker(u) == \E w \in Workers : Serves(w) /\ req[w].unique = u /\ req[w].op \notin Unanswered

Names ==
  /\ \A m \in inbox : Named(m)
  /\ \A w \in Workers : Serves(w) => Named(req[w])
  /\ \A m \in inbox, w \in Workers : Serves(w) => req[w].unique # m.unique
  /\ \A m1, m2 \in inbox : m1.unique = m2.unique => m1 = m2
  /\ \A v, w \in Workers : Serves(v) /\ Serves(w) /\ req[v].unique = req[w].unique => v = w
  /\ sender # "idle" =>
       /\ notifyCtr >= 1
       /\ \A m \in inbox : m.unique # notifyCtr
       /\ \A w \in Workers : Serves(w) => req[w].unique # notifyCtr

Waits ==
  /\ \A u \in waiting : InChannel(u) \/ AtWorker(u)
  /\ \A m \in inbox : m.op \notin Unanswered => m.unique \in waiting
  /\ \A w \in Workers : Serves(w) /\ req[w].op \notin Unanswered => req[w].unique \in waiting

Lists ==
  \A u \in Numbers :
    u \in list <=> \E w \in Workers : Serves(w) /\ pc[w] # "gate" /\ req[w].unique = u

(* The sender's number and those of the replies on their way are listed.   *)
ToCome(u) ==
  \/ \E m \in inbox : m.op = "NOTIFY_REPLY" /\ m.unique = u
  \/ \E w \in Workers : pc[w] \in {"gate", "dispatch"} /\ req[w].op = "NOTIFY_REPLY" /\ req[w].unique = u
  \/ sender # "idle" /\ u = notifyCtr

Retrieves ==
  /\ \A u \in 1..notifyCtr : ToCome(u) => u \in notifyList
  /\ kernel.phase # "gone" => \A u \in notifyList : ToCome(u) \/ settings.oom

(* What a worker does fits the request it serves.                          *)
Stages ==
  \A w \in Workers :
    /\ pc[w] = "call" => Plain(req[w])
    /\ pc[w] = "opinit" => req[w].op = "INIT"
    /\ pc[w] = "opdestroy" => req[w].op = "DESTROY"
    /\ pc[w] = "retrieved" => req[w].op = "NOTIFY_REPLY"

(* What may be on its way in each phase of the kernel.                     *)
Due(m) ==
  \/ kernel.phase = "negotiating" /\ m.op = "INIT"
  \/ kernel.phase = "up" /\ m.op \notin {"INIT", "DESTROY"}
  \/ kernel.phase = "destroying" /\ m.op \in Unanswered \cup {"DESTROY"}

InOpInit == \E w \in Workers : pc[w] = "opinit"
InOpDestroy == \E w \in Workers : pc[w] = "opdestroy"

PhaseOK ==
  /\ \A m \in inbox : Due(m)
  /\ \A w \in Workers : Serves(w) => Due(req[w])
  /\ kernel.phase \in {"up", "destroying"} => gotInit
  /\ kernel.phase = "new" => ~gotInit
  /\ kernel.phase = "negotiating" /\ gotInit => InOpInit
  /\ InOpInit => gotInit /\ kernel.phase = "negotiating"
  /\ gotDestroy => gotInit /\ kernel.phase \in {"destroying", "gone"}

(* One INIT at a time, one DESTROY.                                        *)
Alone(op) ==
  /\ \A m1, m2 \in inbox : m1.op = op /\ m2.op = op => m1 = m2
  /\ \A m \in inbox, w \in Workers : m.op = op => ~(Serves(w) /\ req[w].op = op)
  /\ \A v, w \in Workers : Serves(v) /\ Serves(w) /\ req[v].op = op /\ req[w].op = op => v = w

(* The calls of op.init and op.destroy that have returned.                 *)
Calls ==
  /\ fs.inits = IF gotInit /\ ~InOpInit /\ "INIT" \in settings.ops THEN 1 ELSE 0
  /\ InOpDestroy => gotDestroy
  /\ gotDestroy => /\ \A m \in inbox : m.op # "DESTROY"
                   /\ \A w \in Workers : Serves(w) /\ req[w].op = "DESTROY" => pc[w] = "opdestroy"
  /\ kernel.phase # "gone" =>
       fs.destroys = IF gotDestroy /\ ~InOpDestroy /\ "DESTROY" \in settings.ops THEN 1 ELSE 0
  /\ kernel.phase = "gone" =>
       fs.destroys = IF gotInit /\ "DESTROY" \in settings.ops THEN 1 ELSE 0

(* What the two sides know of each other, while op.init runs and after.    *)
Negotiated ==
  /\ \A w \in Workers : pc[w] = "opinit" =>
       /\ kernel.major = 7 /\ conn.minor = kernel.minor
       /\ settings.bufsize >= 8192 => conn.maxWrite + 4096 <= settings.bufsize
       /\ conn.minor < 14 => conn.want \cap Splice = {}
  /\ kernel.phase = "refused" => kernel.major < 7 \/ settings.oom
  /\ gotInit => kernel.major = 7
  /\ kernel.phase \in {"up", "destroying"} =>
       /\ kernel.major = 7 /\ conn.minor = kernel.minor
       /\ settings.bufsize >= 8192 => conn.maxWrite + 4096 <= settings.bufsize
       /\ conn.minor >= 13 => conn.background < 65536 /\ conn.threshold <= conn.background
       /\ conn.want \cap settings.without \cap Splice = {}
       /\ conn.minor < 14 => conn.want \cap Splice = {} \/ "INIT" \in settings.ops

LInv ==
  /\ Typed /\ Names /\ Waits /\ Lists /\ Retrieves
  /\ Stages /\ PhaseOK /\ Alone("INIT") /\ Alone("DESTROY") /\ Calls /\ Negotiated

-----------------------------------------------------------------------------
(* What a step does to the requests and their numbers: of all that changes *)
(* only this matters to Names, Waits and Lists.                            *)

IsSent(m) ==
  /\ m \in Message /\ m.unique \in Uniques \ sent /\ m.op # "NOTIFY_REPLY"
  /\ sent' = sent \cup {m.unique}
  /\ inbox' = inbox \cup {m}
  /\ waiting' = IF m.op \in Unanswered THEN waiting ELSE waiting \cup {m.unique}
  /\ UNCHANGED <<list, pc, req, sender, notifyCtr, notifyList>>

IsRead(w) ==
  /\ pc[w] = "idle" /\ pc' = [pc EXCEPT ![w] = "gate"]
  /\ \E m \in inbox : inbox' = inbox \ {m} /\ req' = [req EXCEPT ![w] = m]
  /\ UNCHANGED <<waiting, sent, list, sender, notifyCtr, notifyList>>

(* The kernel sends INIT first, and DESTROY when nothing is waiting.       *)
InSeason(m) ==
  IF m.op = "INIT" THEN kernel.phase = "new"
  ELSE kernel.phase = "up" /\ (m.op = "DESTROY" => waiting = {})

(* A worker goes on with its request.                                      *)
Moves(w) ==
  /\ Serves(w)
  /\ pc' \in {[pc EXCEPT ![w] = to] : to \in PCs \ {"idle", "gate"}}
  /\ list' = IF pc[w] = "gate" THEN list \cup {req[w].unique} ELSE list
  /\ UNCHANGED <<inbox, waiting, sent, req, sender, notifyCtr>>
  /\ notifyList' = IF pc[w] = "dispatch" /\ pc'[w] = "retrieved"
                   THEN notifyList \ {req[w].unique} ELSE notifyList
  /\ pc'[w] = "dispatch" <=> pc[w] = "gate"
  /\ pc'[w] = "call" => Plain(req[w])
  /\ pc'[w] = "opinit" => req[w].op = "INIT"
  /\ pc'[w] = "opdestroy" => req[w].op = "DESTROY"
  /\ pc'[w] = "retrieved" <=> pc[w] = "dispatch" /\ req[w].op = "NOTIFY_REPLY"

(* A worker is through with its request.                                   *)
Leaves(w) ==
  /\ Serves(w)
  /\ pc' = [pc EXCEPT ![w] = "idle"] /\ req' = [req EXCEPT ![w] = NoMessage]
  /\ list' = list \ {req[w].unique}
  /\ \/ waiting' = waiting \ {req[w].unique}
     \/ req[w].op \in Unanswered /\ waiting' = waiting
  /\ UNCHANGED <<inbox, sent, sender, notifyCtr, notifyList>>
  /\ pc[w] \in {"gate", "dispatch"} /\ req[w].op = "NOTIFY_REPLY" => settings.oom

Calm == UNCHANGED <<waiting, sent, list, pc, req>>

Notifies ==
  /\ Calm
  /\ \/ UNCHANGED <<inbox, sender, notifyCtr, notifyList>>
     \/ Retrieve \/ SendRetrieve \/ UndoRetrieve

Ends ==
  /\ sender = "idle" /\ \A w \in Workers : pc[w] = "idle"
  /\ inbox' = {} /\ waiting' = {} /\ kernel'.phase = "gone"
  /\ UNCHANGED <<sent, list, pc, req, sender, notifyCtr, notifyList>>

Kinds ==
  \/ \E m \in Message : IsSent(m) /\ InSeason(m)
  \/ \E w \in Workers : IsRead(w) \/ Moves(w) \/ Leaves(w)
  \/ Notifies \/ Ends

USE DEF Serves, PCs

(* A message the kernel sends is one of the kind the invariant speaks of.  *)
LEMMA SendIsSent ==
  ASSUME Typed, NEW o \in Opcodes \ {"NOTIFY_REPLY"}, NEW uid \in Uids,
         NEW flags \in SUBSET Flags, NEW count \in 0..2, Send(o, uid, flags, count)
  PROVE  \E m \in Message :
           /\ IsSent(m) /\ UNCHANGED <<gotInit, gotDestroy, conn, fs, settings, confused>>
           /\ m.op = o /\ m.uid = uid /\ m.count = count
<1>1. PICK u \in Uniques \ sent :
        /\ sent' = sent \cup {u}
        /\ inbox' = inbox \cup {[unique |-> u, op |-> o, uid |-> uid, flags |-> flags, count |-> count]}
        /\ waiting' = IF o \in Unanswered THEN waiting ELSE waiting \cup {u}
  BY DEF Send
<1> DEFINE m == [unique |-> u, op |-> o, uid |-> uid, flags |-> flags, count |-> count]
<1>2. m \in Message
  BY DEF Message, Numbers
<1>3. IsSent(m)
  BY <1>1, <1>2 DEF IsSent, Send, llVars, workerVars
<1>4. QED
  BY <1>2, <1>3 DEF Send, llVars

(* Requests, forgets, INIT and DESTROY are messages of that kind.          *)
LEMMA SentByKernel ==
  ASSUME Typed, KernelStep
  PROVE  \E m \in Message :
           /\ IsSent(m) /\ UNCHANGED <<gotInit, gotDestroy, conn, fs, settings, confused>>
           /\ \/ SendInit /\ m.op = "INIT" /\ m.count = 0
              \/ SendRequest /\ m.op \notin Unanswered \cup {"INIT", "DESTROY"} /\ m.count = 0
              \/ /\ SendForget /\ m.op \in ForgetOps /\ m.uid = "root"
                 /\ forgotten' = [forgotten EXCEPT !.sent = @ + m.count]
              \/ SendDestroy /\ m.op = "DESTROY" /\ m.count = 0
<1>1. CASE SendInit
  <2>1. "INIT" \in Opcodes \ {"NOTIFY_REPLY"} /\ "root" \in Uids
    BY DEF Opcodes, Uids
  <2>2. Send("INIT", "root", {}, 0)
    BY <1>1 DEF SendInit
  <2>3. QED
    BY <1>1, <2>1, <2>2, SendIsSent
<1>2. CASE SendDestroy
  <2>1. "DESTROY" \in Opcodes \ {"NOTIFY_REPLY"} /\ "root" \in Uids
    BY DEF Opcodes, Uids
  <2>2. Send("DESTROY", "root", {}, 0)
    BY <1>2 DEF SendDestroy
  <2>3. QED
    BY <1>2, <2>1, <2>2, SendIsSent
<1>3. CASE SendForget
  <2>1. PICK op \in ForgetOps, count \in {1, 2} :
          /\ Send(op, "root", {}, count)
          /\ forgotten' = [forgotten EXCEPT !.sent = @ + count]
    BY <1>3 DEF SendForget
  <2>2. op \in Opcodes \ {"NOTIFY_REPLY"} /\ "root" \in Uids /\ count \in 0..2
    BY DEF Opcodes, Uids, ForgetOps
  <2>3. QED
    BY <1>3, <2>1, <2>2, SendIsSent
<1>4. CASE SendRequest
  <2>1. PICK op \in Sends(Version) \ (Unanswered \cup {"INIT", "DESTROY"}), uid \in Senders :
          \E flags \in SUBSET MayFlag(op) : Send(op, uid, flags, 0)
    BY <1>4 DEF SendRequest
  <2>7. PICK flags \in SUBSET MayFlag(op) : Send(op, uid, flags, 0)
    BY <2>1
  <2>2. op \in Opcodes \ {"NOTIFY_REPLY"} /\ op \notin Unanswered \cup {"INIT", "DESTROY"}
    BY DEF Sends, Unanswered
  <2>3. uid \in Uids
    BY DEF Senders, Uids
  <2>4. MayFlag(op) \subseteq Flags
    BY DEF MayFlag, Flags
  <2>5. flags \in SUBSET Flags
    BY <2>4
  <2>6. QED
    BY <1>4, <2>7, <2>2, <2>3, <2>5, SendIsSent
<1>5. QED
  BY <1>1, <1>2, <1>3, <1>4 DEF KernelStep

(* What a worker answers with takes the request off its hands.             *)
LEMMA WritesLeaves ==
  ASSUME NEW w \in Workers, NEW a, Serves(w), Writes(w, a), notifyList' = notifyList,
         req[w].op # "NOTIFY_REPLY" \/ settings.oom
  PROVE  Leaves(w)
BY DEF Writes, Done, Leaves

(* So does a request that is not answered.                                 *)
LEMMA NoneLeaves ==
  ASSUME NEW w \in Workers, pc[w] \notin {"idle", "gate"}, ReplyNone(w), notifyList' = notifyList,
         req[w].op \in Unanswered, req[w].op = "NOTIFY_REPLY" => pc[w] = "retrieved"
  PROVE  Leaves(w)
BY DEF ReplyNone, Done, Leaves

(* A reply to a retrieve is never refused at the gate for want of INIT.    *)
LEMMA RefuseLeaves ==
  ASSUME Typed, PhaseOK, NEW w \in Workers, Refuse(w)
  PROVE  Leaves(w)
<1>1. Serves(w) /\ notifyList' = notifyList
  BY DEF Refuse
<1>2. PICK e : ReplyErr(w, e) /\ (settings.oom \/ GateError(req[w]) # "0")
  BY DEF Refuse
<1>3. req[w].op = "NOTIFY_REPLY" => kernel.phase \in {"up", "destroying"}
  BY <1>1 DEF PhaseOK, Due
<1>4. req[w].op = "NOTIFY_REPLY" => GateError(req[w]) = "0"
  BY <1>3 DEF GateError, EveryUser, PhaseOK, Typed, TypeOK
<1>5. QED
  BY <1>1, <1>2, <1>4, WritesLeaves DEF ReplyErr

(* A reply that is dispatched finds its request on notify_list.            *)
LEMMA ReplyFinds ==
  ASSUME Typed, Names, Retrieves, NEW w \in Workers, NotifyReply(w)
  PROVE  req[w].unique \in notifyList /\ Moves(w)
<1>1. pc[w] = "dispatch" /\ req[w].op = "NOTIFY_REPLY"
  BY DEF NotifyReply, Goes
<1>2. req[w].unique \in 1..notifyCtr
  BY <1>1 DEF Names, Named
<1>3. req[w].unique \in notifyList
  BY <1>1, <1>2 DEF Retrieves, ToCome
<1>4. pc' = [pc EXCEPT ![w] = "retrieved"] /\ notifyList' = notifyList \ {req[w].unique}
      /\ UNCHANGED <<inbox, waiting, sent, list, req, sender, notifyCtr>>
  BY <1>3 DEF NotifyReply, Goes, kernelVars
<1>5. QED
  BY <1>1, <1>3, <1>4 DEF Moves, Typed, TypeOK

(* Every step of a worker is of one of these kinds, and the settings stay.  *)
LEMMA WorkerKinds ==
  ASSUME Typed, Names, Retrieves, Stages, PhaseOK, NEW w \in Workers, WorkerStep(w)
  PROVE  (IsRead(w) \/ Moves(w) \/ Leaves(w)) /\ settings' = settings
<1> USE DEF Typed, TypeOK
<1>1. CASE Read(w)
  BY <1>1 DEF Read, IsRead, Goes, llVars
<1>2. CASE Refuse(w)
  BY <1>2, RefuseLeaves DEF Refuse, ReplyErr, Writes, Done
<1>3. CASE Admit(w)
  BY <1>3 DEF Admit, Moves, Goes, kernelVars
<1>4. CASE LeftOut(w)
  <2>1. Serves(w) /\ notifyList' = notifyList /\ req[w].op # "NOTIFY_REPLY"
    BY <1>4 DEF LeftOut, Plain, Unanswered
  <2>2. \E a : Writes(w, a)
    BY <1>4 DEF LeftOut, ReplyErr
  <2>3. QED
    BY <2>1, <2>2, WritesLeaves DEF Writes, Done
<1>5. CASE Call(w)
  BY <1>5 DEF Call, Moves, Goes, kernelVars, llVars, Plain, Unanswered
<1>6. CASE FsReplies(w)
  <2>1. Serves(w) /\ notifyList' = notifyList /\ req[w].op # "NOTIFY_REPLY"
    BY <1>6 DEF FsReplies, Stages, Plain, Unanswered
  <2>2. \E a : Writes(w, a)
    BY <1>6 DEF FsReplies, ReplyErr
  <2>3. QED
    BY <2>1, <2>2, WritesLeaves DEF Writes, Done
<1>7. CASE Forget(w)
  BY <1>7, NoneLeaves DEF Forget, ForgetOps, Unanswered, ReplyNone, Done
<1>8. CASE OtherMajor(w)
  <2>1. Serves(w) /\ notifyList' = notifyList /\ req[w].op # "NOTIFY_REPLY"
    BY <1>8 DEF OtherMajor
  <2>2. \E a : Writes(w, a)
    BY <1>8 DEF OtherMajor, ReplyErr
  <2>3. QED
    BY <2>1, <2>2, WritesLeaves DEF Writes, Done
<1>9. CASE Negotiate(w)
  BY <1>9 DEF Negotiate, Moves, Goes, kernelVars
<1>10. CASE InitReplies(w)
  <2>1. Serves(w) /\ notifyList' = notifyList /\ req[w].op # "NOTIFY_REPLY"
    BY <1>10 DEF InitReplies, Stages
  <2>2. Writes(w, InitAnswer)
    BY <1>10 DEF InitReplies
  <2>3. QED
    BY <2>1, <2>2, WritesLeaves DEF Writes, Done
<1>11. CASE Destroy(w)
  BY <1>11 DEF Destroy, Moves, Goes, kernelVars
<1>12. CASE DestroyReplies(w)
  <2>1. Serves(w) /\ notifyList' = notifyList /\ req[w].op # "NOTIFY_REPLY"
    BY <1>12 DEF DestroyReplies, Stages
  <2>2. Writes(w, Answer("0", 0, FALSE))
    BY <1>12 DEF DestroyReplies
  <2>3. QED
    BY <2>1, <2>2, WritesLeaves DEF Writes, Done
<1>13. CASE NotifyReply(w)
  BY <1>13, ReplyFinds DEF NotifyReply
<1>14. CASE Retrieved(w)
  BY <1>14, NoneLeaves DEF Retrieved, Stages, Unanswered, ReplyNone, Done
<1>15. QED
  BY <1>1, <1>2, <1>3, <1>4, <1>5, <1>6, <1>7, <1>8, <1>9, <1>10, <1>11, <1>12, <1>13, <1>14
  DEF WorkerStep

(* Every step is of one of these kinds, and the settings stay.             *)
LEMMA StepKinds ==
  ASSUME Typed, Names, Retrieves, Stages, PhaseOK, Next
  PROVE  Kinds /\ settings' = settings
<1>1. CASE KernelStep
  BY <1>1, SentByKernel DEF Kinds, InSeason, SendInit, SendRequest, SendForget, SendDestroy, ForgetOps
<1>2. ASSUME NEW w \in Workers, WorkerStep(w)
      PROVE  (IsRead(w) \/ Moves(w) \/ Leaves(w)) /\ settings' = settings
  BY <1>2, WorkerKinds
<1>3. CASE NotifyStep
  <2>1. CASE \E code \in Codes : Notify(code)
    BY <2>1 DEF Notify, Kinds, Notifies, Calm, llVars, workerVars
  <2>2. CASE Retrieve \/ SendRetrieve \/ UndoRetrieve
    BY <2>2 DEF Retrieve, SendRetrieve, UndoRetrieve, Kinds, Notifies, Calm, llVars, workerVars, kernelVars
  <2>3. QED
    BY <1>3, <2>1, <2>2 DEF NotifyStep
<1>4. CASE EndSession
  BY <1>4 DEF EndSession, Kinds, Ends, llVars, workerVars, Typed, TypeOK
<1>5. QED
  BY <1>1, <1>2, <1>3, <1>4 DEF Next, Kinds

-----------------------------------------------------------------------------
(* Every number names one request, and every request that waits is in one  *)
(* place.                                                                  *)

(* Each kind of step keeps numbers apart.                                  *)
LEMMA NamesNext ==
  ASSUME Typed, Names, Kinds
  PROVE  Names'
<1> USE LowLevelAssumption DEF Typed, TypeOK
<1>0. \A m \in inbox : m \in Message
  BY DEF Message
<1>1. ASSUME NEW m \in Message, IsSent(m)
      PROVE  Names'
  <2>1. \A x \in inbox : x.unique # m.unique
    BY <1>0, <1>1 DEF IsSent, Names, Named
  <2>2. \A w \in Workers : Serves(w) => req[w].unique # m.unique
    BY <1>1 DEF IsSent, Names, Named
  <2>3. m.unique # notifyCtr
    BY <1>1 DEF IsSent
  <2>4. QED
    BY <1>1, <2>1, <2>2, <2>3 DEF IsSent, Names, Named
<1>2. ASSUME NEW w \in Workers, IsRead(w)
      PROVE  Names'
  <2>1. PICK m \in inbox : inbox' = inbox \ {m} /\ req' = [req EXCEPT ![w] = m]
    BY <1>2 DEF IsRead
  <2>2. \A v \in Workers : pc'[v] # "idle" <=> (v = w \/ pc[v] # "idle")
    BY <1>2 DEF IsRead
  <2>3. req'[w] = m /\ (\A v \in Workers \ {w} : req'[v] = req[v])
    BY <2>1
  <2>4. QED
    BY <1>2, <2>1, <2>2, <2>3 DEF IsRead, Names, Named
<1>3. ASSUME NEW w \in Workers, Moves(w)
      PROVE  Names'
  BY <1>3 DEF Moves, Names, Named
<1>4. ASSUME NEW w \in Workers, Leaves(w)
      PROVE  Names'
  BY <1>4 DEF Leaves, Names, Named
<1>5. CASE Notifies
  <2>1. CASE UNCHANGED <<inbox, sender, notifyCtr, notifyList>>
    BY <1>5, <2>1 DEF Notifies, Calm, Names, Named
  <2>2. CASE Retrieve
    BY <1>5, <2>2 DEF Notifies, Calm, Retrieve, kernelVars, Names, Named
  <2>3. CASE SendRetrieve
    <3>1. UNCHANGED <<sent, notifyCtr, pc, req>> /\ sender = "listed"
      BY <2>3 DEF SendRetrieve, llVars, workerVars
    <3>2. CASE inbox' = inbox
      BY <3>1, <3>2 DEF Names, Named
    <3>3. ASSUME NEW m, m.op = "NOTIFY_REPLY", m.unique = notifyCtr, inbox' = inbox \cup {m}, sender' = "idle"
          PROVE  Names'
      BY <3>1, <3>3 DEF Names, Named
    <3>4. CASE \E m : m.op = "NOTIFY_REPLY" /\ m.unique = notifyCtr /\ inbox' = inbox \cup {m} /\ sender' = "idle"
      BY <3>3, <3>4
    <3>5. QED
      BY <2>3, <3>2, <3>4 DEF SendRetrieve
  <2>4. CASE UndoRetrieve
    BY <1>5, <2>4 DEF Notifies, Calm, UndoRetrieve, kernelVars, Names, Named
  <2>5. QED
    BY <1>5, <2>1, <2>2, <2>3, <2>4 DEF Notifies
<1>6. CASE Ends
  BY <1>6 DEF Ends, Names, Named
<1>7. QED
  BY <1>1, <1>2, <1>3, <1>4, <1>5, <1>6 DEF Kinds

(* Each kind of step keeps what waits where it is, or answers it.          *)
LEMMA WaitsNext ==
  ASSUME Typed, Names, Waits, Kinds
  PROVE  Waits'
<1> USE LowLevelAssumption DEF Typed, TypeOK
<1>1. ASSUME NEW m \in Message, IsSent(m)
      PROVE  Waits'
  BY <1>1 DEF IsSent, Waits, InChannel, AtWorker
<1>2. ASSUME NEW w \in Workers, IsRead(w)
      PROVE  Waits'
  <2>1. PICK m \in inbox : inbox' = inbox \ {m} /\ req' = [req EXCEPT ![w] = m]
    BY <1>2 DEF IsRead
  <2>2. \A v \in Workers : pc'[v] # "idle" <=> (v = w \/ pc[v] # "idle")
    BY <1>2 DEF IsRead
  <2>3. req'[w] = m /\ (\A v \in Workers \ {w} : req'[v] = req[v])
    BY <2>1
  <2>4. QED
    BY <1>2, <2>1, <2>2, <2>3 DEF IsRead, Waits, InChannel, AtWorker
<1>3. ASSUME NEW w \in Workers, Moves(w)
      PROVE  Waits'
  BY <1>3 DEF Moves, Waits, InChannel, AtWorker
<1>4. ASSUME NEW w \in Workers, Leaves(w)
      PROVE  Waits'
  <2>1. \A v \in Workers : pc'[v] # "idle" <=> (v # w /\ pc[v] # "idle")
    BY <1>4 DEF Leaves
  <2>2. \A v \in Workers \ {w} : req'[v] = req[v]
    BY <1>4 DEF Leaves
  <2>3. \A u \in waiting' : u \in waiting /\ ~(req[w].unique = u /\ req[w].op \notin Unanswered)
    BY <1>4 DEF Leaves
  <2>4. \A u \in waiting : u # req[w].unique => u \in waiting'
    BY <1>4 DEF Leaves
  <2>5. \A v \in Workers \ {w} : Serves(v) => req[v].unique # req[w].unique
    BY <1>4 DEF Leaves, Names
  <2>6. \A m \in inbox : m.unique # req[w].unique
    BY <1>4 DEF Leaves, Names
  <2>7. inbox' = inbox
    BY <1>4 DEF Leaves
  <2>8. QED
    BY <2>1, <2>2, <2>3, <2>4, <2>5, <2>6, <2>7 DEF Waits, InChannel, AtWorker
<1>5. CASE Notifies
  <2>1. CASE inbox' = inbox
    BY <1>5, <2>1 DEF Notifies, Calm, Waits, InChannel, AtWorker
  <2>2. CASE SendRetrieve
    BY <1>5, <2>2 DEF Notifies, Calm, SendRetrieve, llVars, Waits, InChannel, AtWorker, Unanswered
  <2>3. QED
    BY <1>5, <2>1, <2>2 DEF Notifies, Retrieve, UndoRetrieve, kernelVars
<1>6. CASE Ends
  BY <1>6 DEF Ends, Waits, InChannel, AtWorker
<1>7. QED
  BY <1>1, <1>2, <1>3, <1>4, <1>5, <1>6 DEF Kinds

(* f->list has the requests past the gate, and no other.                   *)
LEMMA ListsNext ==
  ASSUME Typed, Names, Lists, Kinds
  PROVE  Lists'
<1> USE LowLevelAssumption DEF Typed, TypeOK
<1>1. ASSUME NEW w \in Workers, IsRead(w)
      PROVE  Lists'
  <2>1. list' = list /\ pc'[w] = "gate" /\ pc[w] = "idle"
    BY <1>1 DEF IsRead
  <2>2. \A v \in Workers \ {w} : pc'[v] = pc[v] /\ req'[v] = req[v]
    BY <1>1 DEF IsRead
  <2>3. QED
    BY <2>1, <2>2 DEF Lists
<1>2. ASSUME NEW w \in Workers, Moves(w)
      PROVE  Lists'
  <2>1. req' = req /\ pc'[w] \notin {"idle", "gate"} /\ pc[w] # "idle"
    BY <1>2 DEF Moves
  <2>2. \A v \in Workers \ {w} : pc'[v] = pc[v]
    BY <1>2 DEF Moves
  <2>3. list' = IF pc[w] = "gate" THEN list \cup {req[w].unique} ELSE list
    BY <1>2 DEF Moves
  <2>4. QED
    BY <2>1, <2>2, <2>3 DEF Lists
<1>3. ASSUME NEW w \in Workers, Leaves(w)
      PROVE  Lists'
  <2>1. \A v \in Workers \ {w} : pc'[v] = pc[v] /\ req'[v] = req[v]
    BY <1>3 DEF Leaves
  <2>2. list' = list \ {req[w].unique} /\ pc'[w] = "idle" /\ pc[w] # "idle"
    BY <1>3 DEF Leaves
  <2>3. \A v \in Workers \ {w} : Serves(v) => req[v].unique # req[w].unique
    BY <1>3 DEF Leaves, Names
  <2>4. QED
    BY <2>1, <2>2, <2>3 DEF Lists
<1>4. QED
  BY <1>1, <1>2, <1>3 DEF Kinds, IsSent, Notifies, Calm, Ends, Lists

-----------------------------------------------------------------------------
(* Retrieves and their replies.                                            *)

(* Nothing happens to the kernel's end once the session is over.           *)
LEMMA GoneStays ==
  ASSUME Typed, PhaseOK, Next, kernel.phase = "gone"
  PROVE  kernel'.phase = "gone"
<1>1. inbox = {} /\ \A w \in Workers : pc[w] = "idle"
  BY DEF PhaseOK, Due
<1>2. CASE KernelStep
  BY <1>2 DEF KernelStep, SendInit, SendRequest, SendForget, SendDestroy
<1>3. ASSUME NEW w \in Workers, WorkerStep(w)
      PROVE  FALSE
  BY <1>1, <1>3 DEF WorkerStep, Read, Refuse, Admit, LeftOut, Call, FsReplies, Forget, OtherMajor,
     Negotiate, InitReplies, Destroy, DestroyReplies, NotifyReply, Retrieved, Goes
<1>4. CASE NotifyStep \/ EndSession
  BY <1>4 DEF NotifyStep, Notify, Retrieve, SendRetrieve, UndoRetrieve, EndSession, kernelVars
<1>5. QED
  BY <1>2, <1>3, <1>4 DEF Next

(* Each kind of step keeps notify_list and what is to come together.       *)
LEMMA RetrievesNext ==
  ASSUME Typed, Names, Retrieves, Kinds, settings' = settings,
         kernel.phase = "gone" => kernel'.phase = "gone"
  PROVE  Retrieves'
<1> USE LowLevelAssumption DEF Typed, TypeOK
<1>1. ASSUME NEW m \in Message, IsSent(m)
      PROVE  Retrieves'
  <2>1. UNCHANGED <<pc, req, sender, notifyCtr, notifyList>> /\ inbox' = inbox \cup {m}
        /\ m.op # "NOTIFY_REPLY"
    BY <1>1 DEF IsSent
  <2>2. \A u \in 1..notifyCtr : ToCome(u)' <=> ToCome(u)
    BY <2>1 DEF ToCome
  <2>3. QED
    BY <2>1, <2>2 DEF Retrieves
<1>2. ASSUME NEW w \in Workers, IsRead(w)
      PROVE  Retrieves'
  <2>1. PICK m \in inbox : inbox' = inbox \ {m} /\ req' = [req EXCEPT ![w] = m]
    BY <1>2 DEF IsRead
  <2>2. pc[w] = "idle" /\ pc'[w] = "gate" /\ req'[w] = m
    BY <1>2, <2>1 DEF IsRead
  <2>3. \A v \in Workers \ {w} : pc'[v] = pc[v] /\ req'[v] = req[v]
    BY <1>2, <2>1 DEF IsRead
  <2>4. UNCHANGED <<sender, notifyCtr, notifyList>>
    BY <1>2 DEF IsRead
  <2>5. \A u \in 1..notifyCtr : ToCome(u)' <=> ToCome(u)
    BY <2>1, <2>2, <2>3, <2>4 DEF ToCome
  <2>6. QED
    BY <2>4, <2>5 DEF Retrieves
<1>3. ASSUME NEW w \in Workers, Moves(w)
      PROVE  Retrieves'
  <2> DEFINE taken == pc[w] = "dispatch" /\ pc'[w] = "retrieved"
  <2>1. UNCHANGED <<inbox, req, sender, notifyCtr>>
    BY <1>3 DEF Moves
  <2>2. \A v \in Workers \ {w} : pc'[v] = pc[v]
    BY <1>3 DEF Moves
  <2>3. CASE taken
    <3>1. req[w].op = "NOTIFY_REPLY" /\ notifyList' = notifyList \ {req[w].unique}
      BY <1>3, <2>3 DEF Moves
    <3>2. req[w].unique \in 1..notifyCtr
      BY <2>3, <3>1 DEF Names, Named
    <3>3. \A u \in 1..notifyCtr : ToCome(u)' <=> ToCome(u) /\ u # req[w].unique
      <4> SUFFICES ASSUME NEW u \in 1..notifyCtr
                   PROVE  ToCome(u)' <=> ToCome(u) /\ u # req[w].unique
        OBVIOUS
      <4>1. CASE u = req[w].unique
        <5>1. \A m \in inbox : m.unique # u
          BY <2>3, <4>1 DEF Names
        <5>2. \A v \in Workers : Serves(v) /\ v # w => req[v].unique # u
          BY <2>3, <4>1 DEF Names
        <5>3. sender # "idle" => u # notifyCtr
          BY <2>3, <4>1 DEF Names
        <5>4. QED
          BY <2>1, <2>2, <2>3, <4>1, <5>1, <5>2, <5>3 DEF ToCome
      <4>2. CASE u # req[w].unique
        BY <2>1, <2>2, <2>3, <4>2 DEF ToCome
      <4>3. QED
        BY <4>1, <4>2
    <3>4. QED
      BY <2>1, <3>1, <3>2, <3>3 DEF Retrieves
  <2>4. CASE ~taken
    <3>1. notifyList' = notifyList
      BY <1>3, <2>4 DEF Moves
    <3>2. req[w].op = "NOTIFY_REPLY" => (pc[w] \in {"gate", "dispatch"} <=> pc'[w] \in {"gate", "dispatch"})
      BY <1>3, <2>4 DEF Moves
    <3>3. \A u \in 1..notifyCtr : ToCome(u)' <=> ToCome(u)
      BY <2>1, <2>2, <3>2 DEF ToCome
    <3>4. QED
      BY <2>1, <3>1, <3>3 DEF Retrieves
  <2>5. QED
    BY <2>3, <2>4
<1>4. ASSUME NEW w \in Workers, Leaves(w)
      PROVE  Retrieves'
  <2>1. UNCHANGED <<inbox, sender, notifyCtr, notifyList>> /\ pc'[w] = "idle"
    BY <1>4 DEF Leaves
  <2>2. \A v \in Workers \ {w} : pc'[v] = pc[v] /\ req'[v] = req[v]
    BY <1>4 DEF Leaves
  <2>3. \A u \in 1..notifyCtr : ToCome(u)' => ToCome(u)
    BY <2>1, <2>2 DEF ToCome
  <2>4. \/ settings.oom
        \/ \A u \in 1..notifyCtr : ToCome(u) => ToCome(u)'
    BY <1>4, <2>1, <2>2 DEF ToCome, Leaves
  <2>5. QED
    BY <2>1, <2>3, <2>4 DEF Retrieves
<1>5. CASE Notifies
  <2>1. CASE UNCHANGED <<inbox, sender, notifyCtr, notifyList>>
    BY <1>5, <2>1 DEF Notifies, Calm, Retrieves, ToCome
  <2>2. CASE Retrieve
    <3>1. UNCHANGED <<inbox, pc, req>> /\ sender = "idle" /\ sender' = "listed"
          /\ notifyCtr' = notifyCtr + 1 /\ notifyList' = notifyList \cup {notifyCtr + 1}
      BY <2>2 DEF Retrieve, kernelVars, workerVars
    <3>2. \A u \in 1..notifyCtr : ToCome(u)' <=> ToCome(u)
      BY <3>1 DEF ToCome
    <3>3. \A u \in {notifyCtr + 1} : ToCome(u)'
      BY <3>1 DEF ToCome
    <3>4. QED
      BY <3>1, <3>2, <3>3 DEF Retrieves
  <2>3. CASE SendRetrieve
    <3>1. UNCHANGED <<pc, req, notifyCtr, notifyList>> /\ sender = "listed"
      BY <2>3 DEF SendRetrieve, llVars, workerVars
    <3>2. CASE inbox' = inbox /\ sender' = "failed"
      BY <3>1, <3>2 DEF Retrieves, ToCome
    <3>3. ASSUME NEW m, m.op = "NOTIFY_REPLY", m.unique = notifyCtr, inbox' = inbox \cup {m}, sender' = "idle"
          PROVE  \A u \in 1..notifyCtr : ToCome(u)' <=> ToCome(u)
      BY <3>1, <3>3 DEF ToCome
    <3>4. CASE \E m : m.op = "NOTIFY_REPLY" /\ m.unique = notifyCtr /\ inbox' = inbox \cup {m} /\ sender' = "idle"
      BY <3>1, <3>3, <3>4 DEF Retrieves
    <3>5. QED
      BY <2>3, <3>2, <3>4 DEF SendRetrieve
  <2>4. CASE UndoRetrieve
    <3>1. UNCHANGED <<inbox, pc, req, notifyCtr>> /\ sender = "failed" /\ sender' = "idle"
          /\ notifyList' = notifyList \ {notifyCtr}
      BY <2>4 DEF UndoRetrieve, kernelVars, workerVars
    <3>2. ~ToCome(notifyCtr)'
      BY <3>1 DEF ToCome, Names
    <3>3. \A u \in 1..notifyCtr : u # notifyCtr => (ToCome(u)' <=> ToCome(u))
      BY <3>1 DEF ToCome
    <3>4. QED
      BY <3>1, <3>2, <3>3 DEF Retrieves
  <2>5. QED
    BY <1>5, <2>1, <2>2, <2>3, <2>4 DEF Notifies
<1>6. CASE Ends
  BY <1>6 DEF Ends, Retrieves, ToCome
<1>7. QED
  BY <1>1, <1>2, <1>3, <1>4, <1>5, <1>6 DEF Kinds

-----------------------------------------------------------------------------
(* The phases of a session.                                                *)

(* Steps that leave both ends of the session in their phase.               *)
Quiet ==
  /\ Kinds /\ UNCHANGED <<kernel, gotInit, gotDestroy, conn, settings>>
  /\ \A w \in Workers : pc'[w] = "opinit" <=> pc[w] = "opinit"
  /\ \/ fs' = fs /\ \A w \in Workers : pc'[w] = "opdestroy" <=> pc[w] = "opdestroy"
     \/ \E w \in Workers : DestroyReplies(w)
  /\ \A m \in Message : IsSent(m) => m.op # "INIT" /\ m.op # "DESTROY"

(* A request is sent once.                                                 *)
LEMMA SentOne ==
  ASSUME Typed, Names, NEW m \in Message, NEW n \in Message, IsSent(m), IsSent(n)
  PROVE  m = n
<1>1. n \in inbox \cup {m} /\ n.unique \notin sent
  BY DEF IsSent
<1>2. n \notin inbox
  BY <1>1, LowLevelAssumption DEF IsSent, Names, Named, Typed, TypeOK
<1>3. QED
  BY <1>1, <1>2

(* Steps of a worker that are not of INIT or DESTROY, but for the last.    *)
QuietStep(w) ==
  \/ Read(w) \/ (Refuse(w) /\ req[w].op # "INIT") \/ Admit(w) \/ LeftOut(w) \/ Call(w) \/ FsReplies(w)
  \/ Forget(w) \/ DestroyReplies(w) \/ NotifyReply(w) \/ Retrieved(w)

(* They leave the phases as they are.                                      *)
LEMMA QuietSteps ==
  ASSUME Typed, Names, Retrieves, Stages, PhaseOK, Next,
         \/ KernelStep /\ ~SendInit /\ ~SendDestroy
         \/ \E w \in Workers : QuietStep(w)
         \/ NotifyStep
  PROVE  Quiet
<1> USE DEF Typed, TypeOK
<1>1. Kinds /\ settings' = settings
  BY StepKinds
<1>2. CASE KernelStep /\ ~SendInit /\ ~SendDestroy
  <2>1. PICK m \in Message :
          /\ IsSent(m) /\ UNCHANGED <<gotInit, gotDestroy, conn, fs>>
          /\ \/ SendRequest /\ m.op \notin Unanswered \cup {"INIT", "DESTROY"}
             \/ SendForget /\ m.op \in ForgetOps
    BY <1>2, SentByKernel
  <2>2. kernel' = kernel /\ pc' = pc
    BY <2>1 DEF SendRequest, SendForget, IsSent
  <2>3. m.op # "INIT" /\ m.op # "DESTROY"
    BY <2>1 DEF ForgetOps
  <2>4. QED
    BY <1>1, <2>1, <2>2, <2>3, SentOne DEF Quiet
<1>3. ASSUME NEW w \in Workers, QuietStep(w)
      PROVE  Quiet
  <2>1. UNCHANGED <<kernel, gotInit, gotDestroy, conn>>
    BY <1>3 DEF QuietStep, Read, Refuse, Admit, LeftOut, Call, FsReplies, Forget, DestroyReplies, NotifyReply,
       Retrieved, Goes, ReplyErr, ReplyNone, Writes, Done, kernelVars, llVars
  <2>2. \E to \in PCs \ {"opinit", "opdestroy"} : pc' = [pc EXCEPT ![w] = to]
    BY <1>3 DEF QuietStep, Read, Refuse, Admit, LeftOut, Call, FsReplies, Forget, DestroyReplies, NotifyReply,
       Retrieved, Goes, ReplyErr, ReplyNone, Writes, Done
  <2>3. pc[w] # "opinit" /\ (pc[w] = "opdestroy" => DestroyReplies(w))
    BY <1>3 DEF QuietStep, Read, Refuse, Admit, LeftOut, Call, FsReplies, Forget, DestroyReplies, NotifyReply,
       Retrieved, Goes
  <2>4. fs' = fs \/ DestroyReplies(w)
    BY <1>3 DEF QuietStep, Read, Refuse, Admit, LeftOut, Call, FsReplies, Forget, NotifyReply, Retrieved
  <2>5. sent' = sent
    BY <1>3 DEF QuietStep, Read, Refuse, Admit, LeftOut, Call, FsReplies, Forget, DestroyReplies, NotifyReply,
       Retrieved, Goes, ReplyErr, ReplyNone, Writes, Done, kernelVars
  <2>6. QED
    BY <1>1, <2>1, <2>2, <2>3, <2>4, <2>5 DEF Quiet, IsSent
<1>4. CASE NotifyStep
  BY <1>1, <1>4 DEF NotifyStep, Notify, Retrieve, SendRetrieve, UndoRetrieve, Quiet, IsSent, kernelVars, llVars, workerVars
<1>5. QED
  BY <1>2, <1>3, <1>4

(* The steps that are not quiet.                                           *)
LEMMA LoudSteps ==
  ASSUME Typed, Names, Retrieves, Stages, PhaseOK, Next
  PROVE  \/ Quiet \/ SendInit \/ SendDestroy \/ EndSession
         \/ \E w \in Workers : \/ Refuse(w) /\ req[w].op = "INIT"
                               \/ OtherMajor(w) \/ Negotiate(w) \/ InitReplies(w) \/ Destroy(w)
BY QuietSteps DEF Next, WorkerStep, QuietStep

(* A request that is there once stays so.                                  *)
LEMMA AloneNext ==
  ASSUME Typed, Waits, Stages, PhaseOK, Kinds, NEW op \in {"INIT", "DESTROY"}, Alone(op)
  PROVE  Alone(op)'
<1> USE DEF Typed, TypeOK
<1>1. ASSUME NEW m \in Message, IsSent(m), InSeason(m)
      PROVE  Alone(op)'
  <2>1. m.op = op => /\ \A x \in inbox : x.op # op
                     /\ \A w \in Workers : Serves(w) => req[w].op # op
    BY <1>1 DEF InSeason, PhaseOK, Due
  <2>2. QED
    BY <1>1, <2>1 DEF Alone, IsSent
<1>2. ASSUME NEW w \in Workers, IsRead(w)
      PROVE  Alone(op)'
  <2>1. PICK m \in inbox : inbox' = inbox \ {m} /\ req' = [req EXCEPT ![w] = m]
    BY <1>2 DEF IsRead
  <2>2. \A v \in Workers : pc'[v] # "idle" <=> (v = w \/ pc[v] # "idle")
    BY <1>2 DEF IsRead
  <2>3. req'[w] = m /\ (\A v \in Workers \ {w} : req'[v] = req[v])
    BY <2>1
  <2>4. QED
    BY <2>1, <2>2, <2>3 DEF Alone
<1>3. ASSUME NEW w \in Workers, Moves(w)
      PROVE  Alone(op)'
  BY <1>3 DEF Moves, Alone
<1>4. ASSUME NEW w \in Workers, Leaves(w)
      PROVE  Alone(op)'
  BY <1>4 DEF Leaves, Alone
<1>5. CASE Notifies
  <2>1. CASE inbox' = inbox
    BY <1>5, <2>1 DEF Notifies, Calm, Alone
  <2>2. CASE SendRetrieve
    BY <1>5, <2>2 DEF Notifies, Calm, SendRetrieve, Alone
  <2>3. QED
    BY <1>5, <2>1, <2>2 DEF Notifies, Retrieve, UndoRetrieve, kernelVars
<1>6. CASE Ends
  BY <1>6 DEF Ends, Alone
<1>7. QED
  BY <1>1, <1>2, <1>3, <1>4, <1>5, <1>6 DEF Kinds

(* A worker goes from stage to stage with the request it has.              *)
LEMMA StagesNext ==
  ASSUME Typed, Stages, Kinds
  PROVE  Stages'
<1> USE DEF Typed, TypeOK
<1>1. ASSUME NEW w \in Workers, IsRead(w)
      PROVE  Stages'
  BY <1>1 DEF IsRead, Stages, Plain
<1>2. ASSUME NEW w \in Workers, Moves(w)
      PROVE  Stages'
  BY <1>2 DEF Moves, Stages, Plain
<1>3. ASSUME NEW w \in Workers, Leaves(w)
      PROVE  Stages'
  BY <1>3 DEF Leaves, Stages, Plain
<1>4. QED
  BY <1>1, <1>2, <1>3 DEF Kinds, IsSent, Notifies, Calm, Ends, Stages, Plain

(* While INIT is there nothing else is.                                    *)
LEMMA OnlyInit ==
  ASSUME Typed, PhaseOK, Alone("INIT"), NEW w \in Workers, Serves(w), req[w].op = "INIT"
  PROVE  /\ kernel.phase = "negotiating" /\ inbox = {}
         /\ \A v \in Workers : Serves(v) => v = w
<1>1. kernel.phase = "negotiating"
  BY DEF PhaseOK, Due, Unanswered, ForgetOps
<1>2. QED
  BY <1>1 DEF PhaseOK, Due, Alone

(* Quiet steps keep what is on its way fit for the phase.                  *)
LEMMA QuietPhase ==
  ASSUME Typed, PhaseOK, Quiet
  PROVE  PhaseOK'
<1> USE DEF Typed, TypeOK
<1>0. /\ \A m : Due(m)' <=> Due(m)
      /\ InOpInit' <=> InOpInit
      /\ UNCHANGED <<kernel, gotInit, gotDestroy>>
  BY DEF Quiet, Due, InOpInit
<1>1. ASSUME NEW m \in Message, IsSent(m), InSeason(m)
      PROVE  PhaseOK'
  <2>1. Due(m)
    BY <1>1 DEF InSeason, Due, Quiet
  <2>2. QED
    BY <1>0, <1>1, <2>1 DEF IsSent, PhaseOK
<1>2. ASSUME NEW w \in Workers, IsRead(w)
      PROVE  PhaseOK'
  BY <1>0, <1>2 DEF IsRead, PhaseOK
<1>3. ASSUME NEW w \in Workers, Moves(w)
      PROVE  PhaseOK'
  BY <1>0, <1>3 DEF Moves, PhaseOK
<1>4. ASSUME NEW w \in Workers, Leaves(w)
      PROVE  PhaseOK'
  BY <1>0, <1>4 DEF Leaves, PhaseOK
<1>5. CASE Notifies
  <2>1. CASE inbox' = inbox
    BY <1>0, <1>5, <2>1 DEF Notifies, Calm, PhaseOK
  <2>2. CASE SendRetrieve
    BY <1>0, <1>5, <2>2 DEF Notifies, Calm, SendRetrieve, PhaseOK, Due
  <2>3. QED
    BY <1>5, <2>1, <2>2 DEF Notifies, Retrieve, UndoRetrieve, kernelVars
<1>6. CASE Ends
  BY <1>0, <1>6 DEF Ends, PhaseOK
<1>7. QED
  BY <1>1, <1>2, <1>3, <1>4, <1>5, <1>6 DEF Kinds, Quiet

(* What the kernel has learnt when INIT is through: it is refused for want *)
(* of memory or for its version, starts again with version 7, or is up.    *)
LEMMA RefusedInit ==
  ASSUME Typed, PhaseOK, Alone("INIT"), NEW w \in Workers, Refuse(w), req[w].op = "INIT"
  PROVE  /\ settings.oom /\ ~InOpInit /\ ~gotInit
         /\ inbox' = {} /\ \A v \in Workers : pc'[v] = "idle" /\ ~(pc[v] = "opdestroy")
         /\ kernel' = [kernel EXCEPT !.phase = "refused"]
         /\ UNCHANGED <<gotInit, gotDestroy, conn, fs, settings>>
<1> USE DEF Typed, TypeOK
<1>1. pc[w] = "gate"
  BY DEF Refuse
<1>2. kernel.phase = "negotiating" /\ inbox = {} /\ \A v \in Workers : Serves(v) => v = w
  BY <1>1, OnlyInit
<1>3. ~InOpInit /\ ~gotInit
  BY <1>1, <1>2 DEF PhaseOK, InOpInit
<1>4. GateError(req[w]) = "0"
  BY <1>3 DEF GateError, EveryUser
<1>5. settings.oom
  BY <1>4 DEF Refuse
<1>6. /\ inbox' = inbox /\ pc' = [pc EXCEPT ![w] = "idle"] /\ UNCHANGED <<gotDestroy, settings>>
  BY DEF Refuse, ReplyErr, Writes, Done
<1>7. QED
  BY <1>1, <1>2, <1>3, <1>5, <1>6 DEF Refuse

(* A version other than 7 ends the attempt: the kernel is refused, or      *)
(* starts again with 7.                                                    *)
LEMMA OtherInit ==
  ASSUME Typed, PhaseOK, Alone("INIT"), NEW w \in Workers, OtherMajor(w)
  PROVE  /\ ~gotInit /\ ~InOpInit
         /\ inbox' = {} /\ \A v \in Workers : pc'[v] = "idle" /\ ~(pc[v] = "opdestroy")
         /\ \/ kernel.major < 7 /\ kernel' = [kernel EXCEPT !.phase = "refused"]
            \/ kernel' \in [phase : {"new"}, major : {7}, minor : settings.kernels, flags : {{}}]
         /\ UNCHANGED <<gotInit, gotDestroy, fs, settings>>
         /\ conn' = [conn EXCEPT !.minor = kernel.minor, !.want = {}]
<1> USE DEF Typed, TypeOK
<1>1. pc[w] = "dispatch" /\ req[w].op = "INIT"
  BY DEF OtherMajor
<1>2. kernel.phase = "negotiating" /\ inbox = {} /\ \A v \in Workers : Serves(v) => v = w
  BY <1>1, OnlyInit
<1>3. ~InOpInit /\ ~gotInit
  BY <1>1, <1>2 DEF PhaseOK, InOpInit
<1>4. InitOut(Minor) = 24
  BY DEF InitOut, Minor
<1>5. \/ kernel.major < 7 /\ kernel' = [kernel EXCEPT !.phase = "refused"]
      \/ kernel' \in [phase : {"new"}, major : {7}, minor : settings.kernels, flags : {{}}]
  BY <1>4 DEF OtherMajor, KernelLearns, Answer
<1>6. /\ inbox' = inbox /\ pc' = [pc EXCEPT ![w] = "idle"] /\ UNCHANGED <<gotDestroy, settings>>
  BY DEF OtherMajor, ReplyErr, Writes, Done
<1>7. QED
  BY <1>1, <1>2, <1>3, <1>5, <1>6 DEF OtherMajor

(* The answer to INIT is accepted: it has the size the kernel expects.     *)
LEMMA AnsweredInit ==
  ASSUME Typed, Stages, PhaseOK, Alone("INIT"), Negotiated, NEW w \in Workers, InitReplies(w)
  PROVE  /\ InOpInit /\ gotInit
         /\ inbox' = {} /\ \A v \in Workers : pc'[v] = "idle" /\ ~(pc[v] = "opdestroy")
         /\ fs' = [fs EXCEPT !.inits = @ + (IF "INIT" \in settings.ops THEN 1 ELSE 0)]
         /\ \E want \in MayWant :
              /\ conn' = [conn EXCEPT !.want = want, !.background = Background(conn.minor),
                                      !.threshold = Threshold(conn.minor)]
              /\ kernel' = [kernel EXCEPT !.phase = "up", !.flags = want \ (Splice \cup {"IOCTL_DIR"})]
         /\ UNCHANGED <<gotInit, gotDestroy, settings>>
<1> USE DEF Typed, TypeOK
<1>1. pc[w] = "opinit" /\ req[w].op = "INIT"
  BY DEF InitReplies, Stages
<1>2. kernel.phase = "negotiating" /\ inbox = {} /\ \A v \in Workers : Serves(v) => v = w
  BY <1>1, OnlyInit
<1>3. InOpInit /\ gotInit
  BY <1>1 DEF PhaseOK, InOpInit
<1>4. kernel.major = 7 /\ conn.minor = kernel.minor
  BY <1>1 DEF Negotiated
<1>5. InitAnswer.error = "0" /\ InitAnswer.size = InitOut(Version)
  BY <1>4 DEF InitAnswer, InitOut, Answer, Version, Minor
<1>6. ASSUME NEW flags, KernelLearns(InitAnswer, flags)
      PROVE  kernel' = [kernel EXCEPT !.phase = "up", !.flags = flags]
  BY <1>4, <1>5, <1>6 DEF KernelLearns
<1>7. /\ inbox' = inbox /\ pc' = [pc EXCEPT ![w] = "idle"] /\ UNCHANGED <<gotDestroy, settings>>
  BY DEF InitReplies, Writes, Done
<1>8. \A v \in Workers : pc'[v] = "idle" /\ ~(pc[v] = "opdestroy")
  BY <1>1, <1>2, <1>7
<1>9. QED
  BY <1>2, <1>3, <1>6, <1>7, <1>8 DEF InitReplies

(* do_init up to the call of op.init.                                      *)
LEMMA StartedInit ==
  ASSUME Typed, PhaseOK, Alone("INIT"), NEW w \in Workers, Negotiate(w)
  PROVE  /\ ~gotInit /\ gotInit' /\ ~InOpInit /\ InOpInit' /\ ~InOpDestroy /\ ~InOpDestroy'
         /\ kernel.phase = "negotiating" /\ kernel.major = 7 /\ inbox' = {}
         /\ \A v \in Workers : Serves(v)' => v = w
         /\ req[w].op = "INIT" /\ UNCHANGED <<kernel, req, gotDestroy, fs, settings>>
<1> USE DEF Typed, TypeOK
<1>1. pc[w] = "dispatch" /\ req[w].op = "INIT" /\ pc' = [pc EXCEPT ![w] = "opinit"]
  BY DEF Negotiate, Goes
<1>2. kernel.phase = "negotiating" /\ inbox = {} /\ \A v \in Workers : Serves(v) => v = w
  BY <1>1, OnlyInit
<1>3. ~InOpInit /\ ~gotInit /\ InOpInit' /\ ~InOpDestroy /\ ~InOpDestroy'
  BY <1>1, <1>2 DEF PhaseOK, InOpInit, InOpDestroy
<1>4. gotInit' = TRUE
  BY DEF Negotiate
<1>5. QED
  BY <1>1, <1>2, <1>3, <1>4 DEF Negotiate, kernelVars

(* The steps of INIT, of DESTROY and of the end go from phase to phase.    *)
LEMMA PhaseNext ==
  ASSUME Typed, Names, Waits, Retrieves, Stages, PhaseOK, Alone("INIT"), Negotiated, Next
  PROVE  PhaseOK'
<1> USE DEF Typed, TypeOK
<1>1. CASE Quiet
  BY <1>1, QuietPhase
<1>2. CASE SendInit
  <2>1. PICK m \in Message : IsSent(m) /\ m.op = "INIT" /\ UNCHANGED <<gotInit, gotDestroy>>
    BY <1>2, SentByKernel DEF KernelStep, SendRequest, SendForget, SendDestroy, SendInit
  <2>2. kernel.phase = "new" /\ kernel'.phase = "negotiating"
    BY <1>2 DEF SendInit
  <2>3. inbox = {} /\ \A w \in Workers : ~Serves(w)
    BY <2>2 DEF PhaseOK, Due
  <2>4. inbox' = {m} /\ pc' = pc /\ Due(m)'
    BY <2>1, <2>2, <2>3 DEF IsSent, Due
  <2>5. QED
    BY <2>1, <2>2, <2>3, <2>4 DEF PhaseOK, InOpInit
<1>3. CASE SendDestroy
  <2>1. PICK m \in Message : IsSent(m) /\ m.op = "DESTROY" /\ UNCHANGED <<gotInit, gotDestroy>>
    BY <1>3, SentByKernel DEF KernelStep, SendRequest, SendForget, SendDestroy, SendInit, ForgetOps
  <2>2. kernel.phase = "up" /\ kernel'.phase = "destroying" /\ waiting = {}
    BY <1>3 DEF SendDestroy
  <2>3. /\ \A x \in inbox : x.op \in Unanswered
        /\ \A w \in Workers : Serves(w) => req[w].op \in Unanswered
    BY <2>2 DEF Waits
  <2>4. inbox' = inbox \cup {m} /\ pc' = pc /\ req' = req
    BY <2>1 DEF IsSent
  <2>5. /\ \A x \in inbox' : Due(x)'
        /\ \A w \in Workers : Serves(w)' => Due(req[w])'
    BY <2>1, <2>2, <2>3, <2>4 DEF Due
  <2>6. gotInit' /\ ~InOpInit'
    BY <2>1, <2>2, <2>4 DEF PhaseOK, InOpInit
  <2>7. QED
    BY <2>1, <2>2, <2>5, <2>6 DEF PhaseOK
<1>4. CASE EndSession
  BY <1>4 DEF EndSession, PhaseOK, InOpInit, workerVars, llVars
<1>5. ASSUME NEW w \in Workers, Refuse(w), req[w].op = "INIT"
      PROVE  PhaseOK'
  BY <1>5, RefusedInit DEF PhaseOK, InOpInit
<1>6. ASSUME NEW w \in Workers, OtherMajor(w)
      PROVE  PhaseOK'
  BY <1>6, OtherInit DEF PhaseOK, InOpInit
<1>7. ASSUME NEW w \in Workers, Negotiate(w)
      PROVE  PhaseOK'
  BY <1>7, StartedInit DEF PhaseOK, Due
<1>8. ASSUME NEW w \in Workers, InitReplies(w)
      PROVE  PhaseOK'
  BY <1>8, AnsweredInit DEF PhaseOK, InOpInit
<1>9. ASSUME NEW w \in Workers, Destroy(w)
      PROVE  PhaseOK'
  <2>1. pc[w] = "dispatch" /\ req[w].op = "DESTROY" /\ pc' = [pc EXCEPT ![w] = "opdestroy"] /\ gotDestroy'
        /\ UNCHANGED <<kernel, inbox, gotInit, req>>
    BY <1>9 DEF Destroy, Goes, kernelVars
  <2>2. kernel.phase = "destroying"
    BY <2>1 DEF PhaseOK, Due
  <2>3. InOpInit' <=> InOpInit
    BY <2>1 DEF InOpInit
  <2>4. QED
    BY <2>1, <2>2, <2>3 DEF PhaseOK, Due
<1>10. QED
  BY <1>1, <1>2, <1>3, <1>4, <1>5, <1>6, <1>7, <1>8, <1>9, LoudSteps

-----------------------------------------------------------------------------
(* The calls of op.init and op.destroy, and what was agreed on.            *)

(* Of the quiet steps only the end of op.destroy counts as a call.         *)
LEMMA QuietCalls ==
  ASSUME Typed, Stages, PhaseOK, Alone("DESTROY"), Calls, Quiet
  PROVE  Calls'
<1> USE DEF Typed, TypeOK
<1>0. /\ InOpInit' <=> InOpInit
      /\ UNCHANGED <<kernel, gotInit, gotDestroy, settings>>
  BY DEF Quiet, InOpInit
<1>1. CASE \E w \in Workers : DestroyReplies(w)
  <2>1. PICK w \in Workers : DestroyReplies(w)
    BY <1>1
  <2>2. pc[w] = "opdestroy" /\ req[w].op = "DESTROY" /\ pc' = [pc EXCEPT ![w] = "idle"]
        /\ inbox' = inbox /\ fs' = DestroyOnce /\ req' = [req EXCEPT ![w] = NoMessage]
    BY <2>1 DEF DestroyReplies, Writes, Done, Stages
  <2>3. InOpDestroy /\ gotDestroy /\ kernel.phase = "destroying"
    BY <2>2 DEF InOpDestroy, Calls, PhaseOK, Due
  <2>4. \A v \in Workers : Serves(v) /\ req[v].op = "DESTROY" => v = w
    BY <2>2 DEF Alone
  <2>5. ~InOpDestroy'
    BY <2>2, <2>4 DEF InOpDestroy, Stages
  <2>6. /\ \A m \in inbox' : m.op # "DESTROY"
        /\ \A v \in Workers : Serves(v)' /\ req'[v].op = "DESTROY" => pc'[v] = "opdestroy"
    BY <2>2, <2>3, <2>4 DEF Calls
  <2>7. fs'.inits = fs.inits
        /\ fs'.destroys = IF "DESTROY" \in settings.ops THEN 1 ELSE 0
    BY <2>2, <2>3 DEF Calls, DestroyOnce
  <2>8. QED
    BY <1>0, <2>3, <2>5, <2>6, <2>7 DEF Calls
<1>2. CASE fs' = fs /\ \A w \in Workers : pc'[w] = "opdestroy" <=> pc[w] = "opdestroy"
  <2>0. InOpDestroy' <=> InOpDestroy
    BY <1>2 DEF InOpDestroy
  <2>1. SUFFICES ASSUME gotDestroy
                 PROVE  /\ \A m \in inbox' : m.op # "DESTROY"
                        /\ \A w \in Workers : Serves(w)' /\ req'[w].op = "DESTROY" => pc'[w] = "opdestroy"
    BY <1>0, <1>2, <2>0 DEF Calls
  <2>2. /\ \A m \in inbox : m.op # "DESTROY"
        /\ \A w \in Workers : Serves(w) /\ req[w].op = "DESTROY" => pc[w] = "opdestroy"
    BY <2>1 DEF Calls
  <2>3. ASSUME NEW m \in Message, IsSent(m)
        PROVE  /\ \A n \in inbox' : n.op # "DESTROY"
               /\ \A w \in Workers : Serves(w)' /\ req'[w].op = "DESTROY" => pc'[w] = "opdestroy"
    BY <2>2, <2>3 DEF IsSent, Quiet
  <2>4. ASSUME NEW w \in Workers, IsRead(w) \/ Leaves(w)
        PROVE  /\ \A n \in inbox' : n.op # "DESTROY"
               /\ \A v \in Workers : Serves(v)' /\ req'[v].op = "DESTROY" => pc'[v] = "opdestroy"
    BY <2>2, <2>4 DEF IsRead, Leaves
  <2>5. ASSUME NEW w \in Workers, Moves(w)
        PROVE  /\ \A n \in inbox' : n.op # "DESTROY"
               /\ \A v \in Workers : Serves(v)' /\ req'[v].op = "DESTROY" => pc'[v] = "opdestroy"
    BY <1>2, <2>2, <2>5 DEF Moves
  <2>6. CASE Notifies
    <3>1. UNCHANGED <<pc, req>> /\ \A n \in inbox' \ inbox : n.op = "NOTIFY_REPLY"
      BY <2>6 DEF Notifies, Calm, Retrieve, UndoRetrieve, SendRetrieve, kernelVars
    <3>2. QED
      BY <2>2, <3>1
  <2>7. CASE Ends
    BY <2>2, <2>7 DEF Ends
  <2>8. QED
    BY <2>3, <2>4, <2>5, <2>6, <2>7 DEF Quiet, Kinds
<1>3. QED
  BY <1>1, <1>2 DEF Quiet

(* op.init is called once, by the INIT that is accepted, and op.destroy    *)
(* once, by DESTROY or at the end.                                         *)
LEMMA CallsNext ==
  ASSUME Typed, Names, Waits, Retrieves, Stages, PhaseOK, Alone("INIT"), Alone("DESTROY"),
         Calls, Negotiated, Next
  PROVE  Calls'
<1> USE DEF Typed, TypeOK
<1>1. CASE Quiet
  BY <1>1, QuietCalls
<1>2. CASE SendInit \/ SendDestroy
  <2>1. PICK m \in Message : IsSent(m) /\ UNCHANGED <<gotInit, gotDestroy, fs, settings>>
    BY <1>2, SentByKernel DEF KernelStep
  <2>2. kernel.phase \in {"new", "up"} /\ kernel'.phase # "gone" /\ kernel.phase # "gone"
    BY <1>2 DEF SendInit, SendDestroy
  <2>3. ~gotDestroy
    BY <2>2 DEF PhaseOK
  <2>4. (InOpInit' <=> InOpInit) /\ (InOpDestroy' <=> InOpDestroy)
    BY <2>1 DEF IsSent, InOpInit, InOpDestroy
  <2>5. QED
    BY <2>1, <2>2, <2>3, <2>4 DEF Calls
<1>3. CASE EndSession
  <2>1. /\ kernel.phase # "gone" /\ kernel'.phase = "gone" /\ inbox' = {}
        /\ fs' = IF DestroyDue THEN DestroyOnce ELSE fs
        /\ UNCHANGED <<gotInit, gotDestroy, pc, req, settings>>
    BY <1>3 DEF EndSession, llVars, workerVars
  <2>2. ~InOpInit /\ ~InOpInit' /\ ~InOpDestroy /\ ~InOpDestroy' /\ \A w \in Workers : pc[w] = "idle"
    BY <1>3, <2>1 DEF EndSession, InOpInit, InOpDestroy
  <2>3. fs'.inits = fs.inits
        /\ fs'.destroys = IF gotInit /\ "DESTROY" \in settings.ops THEN 1 ELSE 0
    BY <2>1, <2>2 DEF DestroyDue, DestroyOnce, Calls, PhaseOK
  <2>4. QED
    BY <2>1, <2>2, <2>3 DEF Calls
<1>4. ASSUME NEW w \in Workers, Refuse(w), req[w].op = "INIT"
      PROVE  Calls'
  BY <1>4, RefusedInit DEF Calls, InOpInit, InOpDestroy, PhaseOK
<1>5. ASSUME NEW w \in Workers, OtherMajor(w)
      PROVE  Calls'
  BY <1>5, OtherInit DEF Calls, InOpInit, InOpDestroy, PhaseOK
<1>6. ASSUME NEW w \in Workers, Negotiate(w)
      PROVE  Calls'
  BY <1>6, StartedInit DEF Calls, PhaseOK
<1>7. ASSUME NEW w \in Workers, InitReplies(w)
      PROVE  Calls'
  <2>1. /\ InOpInit /\ gotInit /\ ~InOpInit' /\ ~InOpDestroy' /\ ~InOpDestroy
        /\ kernel'.phase = "up" /\ kernel.phase = "negotiating"
        /\ UNCHANGED <<gotInit, gotDestroy, settings>>
    BY <1>7, AnsweredInit DEF InOpInit, InOpDestroy, PhaseOK
  <2>2. ~gotDestroy /\ fs.inits = 0 /\ fs.destroys = 0
    BY <2>1 DEF PhaseOK, Calls
  <2>3. fs' = [fs EXCEPT !.inits = @ + (IF "INIT" \in settings.ops THEN 1 ELSE 0)]
    BY <1>7, AnsweredInit
  <2>4. QED
    BY <2>1, <2>2, <2>3 DEF Calls
<1>8. ASSUME NEW w \in Workers, Destroy(w)
      PROVE  Calls'
  <2>1. /\ pc[w] = "dispatch" /\ req[w].op = "DESTROY" /\ pc' = [pc EXCEPT ![w] = "opdestroy"] /\ gotDestroy'
        /\ UNCHANGED <<kernel, inbox, gotInit, req, fs, settings>>
    BY <1>8 DEF Destroy, Goes, kernelVars
  <2>2. kernel.phase = "destroying" /\ gotInit
    BY <2>1 DEF PhaseOK, Due
  <2>3. ~gotDestroy /\ ~InOpDestroy /\ InOpDestroy' /\ ~InOpInit /\ ~InOpInit'
    BY <2>1, <2>2 DEF Calls, InOpDestroy, InOpInit, PhaseOK
  <2>4. /\ \A m \in inbox : m.op # "DESTROY"
        /\ \A v \in Workers : Serves(v) /\ req[v].op = "DESTROY" => v = w
    BY <2>1 DEF Alone
  <2>5. QED
    BY <2>1, <2>2, <2>3, <2>4 DEF Calls
<1>9. QED
  BY <1>1, <1>2, <1>3, <1>4, <1>5, <1>6, <1>7, <1>8, LoudSteps

(* The tunables after INIT.                                                *)
LEMMA Tunables ==
  ASSUME Typed, NEW minor \in Nat
  PROVE  /\ MaxWrite \in Nat /\ Background(minor) \in Nat /\ Threshold(minor) \in Nat
         /\ settings.bufsize >= 8192 => MaxWrite + 4096 <= settings.bufsize
         /\ minor >= 13 => Background(minor) < 65536 /\ Threshold(minor) <= Background(minor)
<1> USE SettingsAssumption DEF Typed, TypeOK
<1>1. conn.maxWrite \in Nat /\ conn.background \in Nat /\ conn.threshold \in Nat /\ settings.bufsize \in Nat
  OBVIOUS
<1>2. 2^16 = 65536
  OBVIOUS
<1>3. MaxWrite \in Nat /\ (settings.bufsize >= 8192 => MaxWrite + 4096 <= settings.bufsize)
  BY <1>1 DEF MaxWrite
<1>4. Background(minor) \in Nat /\ (minor >= 13 => Background(minor) < 65536)
  BY <1>1, <1>2 DEF Background
<1>5. \A b \in Nat : (b * 3) \div 4 \in Nat /\ (b * 3) \div 4 <= b
  OBVIOUS
<1>6. Threshold(minor) \in Nat /\ (minor >= 13 => Threshold(minor) <= Background(minor))
  BY <1>1, <1>4, <1>5 DEF Threshold
<1>7. QED
  BY <1>3, <1>4, <1>6

(* What was agreed on in INIT stays.                                       *)
LEMMA NegotiatedNext ==
  ASSUME Typed, Names, Waits, Retrieves, Stages, PhaseOK, Alone("INIT"), Negotiated, Next
  PROVE  Negotiated'
<1> USE SettingsAssumption DEF Typed, TypeOK
<1>1. CASE Quiet
  BY <1>1 DEF Quiet, Negotiated
<1>2. CASE SendInit
  BY <1>2 DEF SendInit, Send, workerVars, llVars, Negotiated, PhaseOK, InOpInit
<1>3. CASE SendDestroy
  BY <1>3 DEF SendDestroy, Send, workerVars, llVars, Negotiated
<1>4. CASE EndSession
  BY <1>4 DEF EndSession, workerVars, llVars, Negotiated
<1>5. ASSUME NEW w \in Workers, Refuse(w), req[w].op = "INIT"
      PROVE  Negotiated'
  BY <1>5, RefusedInit DEF Negotiated
<1>6. ASSUME NEW w \in Workers, OtherMajor(w)
      PROVE  Negotiated'
  BY <1>6, OtherInit DEF Negotiated
<1>7. ASSUME NEW w \in Workers, Negotiate(w)
      PROVE  Negotiated'
  <2>1. /\ kernel' = kernel /\ kernel.phase = "negotiating" /\ kernel.major = 7 /\ settings' = settings
    BY <1>7, StartedInit
  <2>2. conn' = [minor |-> kernel.minor, want |-> Wanted(kernel.minor), maxWrite |-> MaxWrite,
                 background |-> conn.background, threshold |-> conn.threshold]
    BY <1>7 DEF Negotiate
  <2>3. kernel.minor < 14 => Wanted(kernel.minor) \cap Splice = {}
    BY DEF Wanted, Splice
  <2>4. settings.bufsize >= 8192 => MaxWrite + 4096 <= settings.bufsize
    BY Tunables
  <2>5. QED
    BY <2>1, <2>2, <2>3, <2>4 DEF Negotiated
<1>8. ASSUME NEW w \in Workers, InitReplies(w)
      PROVE  Negotiated'
  <2>1. PICK want \in MayWant :
          /\ conn' = [conn EXCEPT !.want = want, !.background = Background(conn.minor),
                                  !.threshold = Threshold(conn.minor)]
          /\ kernel' = [kernel EXCEPT !.phase = "up", !.flags = want \ (Splice \cup {"IOCTL_DIR"})]
    BY <1>8, AnsweredInit
  <2>2. settings' = settings /\ \A v \in Workers : pc'[v] = "idle"
    BY <1>8, AnsweredInit
  <2>3. /\ kernel.major = 7 /\ conn.minor = kernel.minor
        /\ settings.bufsize >= 8192 => conn.maxWrite + 4096 <= settings.bufsize
        /\ conn.minor < 14 => conn.want \cap Splice = {}
    BY <1>8 DEF InitReplies, Negotiated
  <2>4. /\ want \cap settings.without \cap Splice = {}
        /\ conn.minor < 14 => want \cap Splice = {} \/ "INIT" \in settings.ops
    BY <2>3 DEF MayWant
  <2>5. conn.minor >= 13 => Background(conn.minor) < 65536 /\ Threshold(conn.minor) <= Background(conn.minor)
    BY Tunables
  <2>6. QED
    BY <2>1, <2>2, <2>3, <2>4, <2>5 DEF Negotiated
<1>9. ASSUME NEW w \in Workers, Destroy(w)
      PROVE  Negotiated'
  BY <1>9 DEF Destroy, Goes, kernelVars, Negotiated
<1>10. QED
  BY <1>1, <1>2, <1>3, <1>4, <1>5, <1>6, <1>7, <1>8, <1>9, LoudSteps

-----------------------------------------------------------------------------
(* Types.                                                                  *)

(* The parts of Typed about the requests, and the rest.                    *)
RequestsTyped ==
  /\ inbox \subseteq Message
  /\ waiting \subseteq sent /\ sent \subseteq Uniques
  /\ list \subseteq Numbers /\ notifyCtr \in 0..MaxRetrieves /\ notifyList \subseteq 1..notifyCtr
  /\ pc \in [Workers -> PCs]
  /\ sender \in {"idle", "listed", "failed"}
  /\ req \in [Workers -> Message \cup {NoMessage}]
  /\ \A w \in Workers : IF Serves(w) THEN req[w] \in Message ELSE req[w] = NoMessage

EndsTyped ==
  /\ kernel \in [phase : Phases, major : Nat, minor : Nat, flags : SUBSET Caps]
  /\ conn \in [minor : Nat, want : SUBSET Caps, maxWrite : Nat, background : Nat, threshold : Nat]
  /\ fs \in [inits : Nat, destroys : Nat]
  /\ settings \in Settings

FlagsTyped == gotInit \in BOOLEAN /\ gotDestroy \in BOOLEAN /\ confused \in BOOLEAN

(* Together they are Typed.                                                *)
LEMMA TypedParts == Typed <=> (RequestsTyped /\ EndsTyped /\ FlagsTyped)
<1>1. \A m \in Message : m.unique \in Numbers
  BY DEF Message
<1>2. QED
  BY <1>1 DEF Typed, TypeOK, RequestsTyped, EndsTyped, FlagsTyped, Message

(* Requests, lists and workers keep their types.                           *)
LEMMA RequestsTypedNext ==
  ASSUME RequestsTyped, Names, Kinds
  PROVE  RequestsTyped'
<1> USE LowLevelAssumption DEF RequestsTyped
<1>1. ASSUME NEW m \in Message, IsSent(m)
      PROVE  RequestsTyped'
  BY <1>1 DEF IsSent
<1>2. ASSUME NEW w \in Workers, IsRead(w)
      PROVE  RequestsTyped'
  <2>1. PICK m \in inbox : inbox' = inbox \ {m} /\ req' = [req EXCEPT ![w] = m]
    BY <1>2 DEF IsRead
  <2>2. m \in Message
    OBVIOUS
  <2>3. \A v \in Workers : pc'[v] # "idle" <=> (v = w \/ pc[v] # "idle")
    BY <1>2 DEF IsRead
  <2>4. req'[w] = m /\ (\A v \in Workers \ {w} : req'[v] = req[v]) /\ req' \in [Workers -> Message \cup {NoMessage}]
    BY <2>1, <2>2
  <2>5. QED
    BY <1>2, <2>1, <2>2, <2>3, <2>4 DEF IsRead
<1>3. ASSUME NEW w \in Workers, Moves(w)
      PROVE  RequestsTyped'
  <2>1. req[w] \in Message /\ req[w].unique \in Numbers
    BY <1>3 DEF Moves, Message
  <2>2. list' \subseteq Numbers /\ notifyList' \subseteq 1..notifyCtr
    BY <1>3, <2>1 DEF Moves
  <2>3. pc' \in [Workers -> PCs] /\ \A v \in Workers : pc'[v] # "idle" <=> pc[v] # "idle"
    BY <1>3 DEF Moves
  <2>4. QED
    BY <1>3, <2>2, <2>3 DEF Moves
<1>4. ASSUME NEW w \in Workers, Leaves(w)
      PROVE  RequestsTyped'
  BY <1>4 DEF Leaves
<1>5. CASE Notifies
  <2>1. CASE UNCHANGED <<inbox, sender, notifyCtr, notifyList>>
    BY <1>5, <2>1 DEF Notifies, Calm
  <2>2. CASE Retrieve
    BY <1>5, <2>2 DEF Notifies, Calm, Retrieve, kernelVars
  <2>3. CASE SendRetrieve
    <3>1. UNCHANGED <<waiting, sent, list, pc, req, notifyCtr, notifyList>>
          /\ sender' \in {"idle", "failed"} /\ notifyCtr \in Nat
      BY <2>3 DEF SendRetrieve, llVars, workerVars
    <3>2. CASE inbox' = inbox
      BY <3>1, <3>2
    <3>3. CASE inbox' # inbox
      <4> DEFINE m == [unique |-> notifyCtr, op |-> "NOTIFY_REPLY", uid |-> "root", flags |-> {}, count |-> 0]
      <4>1. inbox' = inbox \cup {m} /\ sender = "listed"
        BY <2>3, <3>3 DEF SendRetrieve
      <4>2. ASSUME notifyCtr \in 1..MaxRetrieves
            PROVE  m \in Message
        BY <4>2 DEF Message, Numbers, Opcodes, Uids
      <4>3. notifyCtr \in 1..MaxRetrieves
        BY <3>1, <4>1 DEF Names
      <4>4. QED
        BY <3>1, <4>1, <4>2, <4>3
    <3>4. QED
      BY <3>2, <3>3
  <2>4. CASE UndoRetrieve
    BY <1>5, <2>4 DEF Notifies, Calm, UndoRetrieve, kernelVars
  <2>5. QED
    BY <1>5, <2>1, <2>2, <2>3, <2>4 DEF Notifies
<1>6. CASE Ends
  BY <1>6 DEF Ends
<1>7. QED
  BY <1>1, <1>2, <1>3, <1>4, <1>5, <1>6 DEF Kinds

(* So do the two ends of the session.                                      *)
LEMMA EndsTypedNext ==
  ASSUME Typed, Names, Waits, Retrieves, Stages, PhaseOK, Alone("INIT"), Negotiated, Next
  PROVE  EndsTyped'
<1> USE SettingsAssumption DEF Typed, TypeOK, EndsTyped, Phases
<1>1. CASE Quiet
  <2>1. fs' = fs \/ fs' = DestroyOnce
    BY <1>1 DEF Quiet, DestroyReplies
  <2>2. fs' \in [inits : Nat, destroys : Nat]
    BY <2>1 DEF DestroyOnce
  <2>3. QED
    BY <1>1, <2>2 DEF Quiet
<1>2. CASE SendInit
  BY <1>2 DEF SendInit, Send, llVars
<1>3. CASE SendDestroy
  BY <1>3 DEF SendDestroy, Send, llVars
<1>4. CASE EndSession
  BY <1>4 DEF EndSession, llVars, DestroyOnce
<1>5. ASSUME NEW w \in Workers, Refuse(w), req[w].op = "INIT"
      PROVE  EndsTyped'
  BY <1>5, RefusedInit
<1>6. ASSUME NEW w \in Workers, OtherMajor(w)
      PROVE  EndsTyped'
  <2>1. UNCHANGED <<fs, settings>> /\ conn' = [conn EXCEPT !.minor = kernel.minor, !.want = {}]
    BY <1>6, OtherInit
  <2>2. CASE kernel' = [kernel EXCEPT !.phase = "refused"]
    BY <2>1, <2>2
  <2>3. CASE kernel' \in [phase : {"new"}, major : {7}, minor : settings.kernels, flags : {{}}]
    <3>1. [phase : {"new"}, major : {7}, minor : settings.kernels, flags : {{}}]
            \subseteq [phase : Phases, major : Nat, minor : Nat, flags : SUBSET Caps]
      OBVIOUS
    <3>2. QED
      BY <2>1, <2>3, <3>1
  <2>4. QED
    BY <1>6, <2>2, <2>3, OtherInit
<1>7. ASSUME NEW w \in Workers, Negotiate(w)
      PROVE  EndsTyped'
  <2>1. UNCHANGED <<kernel, fs, settings>>
    BY <1>7, StartedInit
  <2>2. conn' = [minor |-> kernel.minor, want |-> Wanted(kernel.minor), maxWrite |-> MaxWrite,
                 background |-> conn.background, threshold |-> conn.threshold]
    BY <1>7 DEF Negotiate
  <2>3. Wanted(kernel.minor) \subseteq Caps
    BY DEF Wanted, Caps
  <2>4. MaxWrite \in Nat
    BY Tunables
  <2>5. QED
    BY <2>1, <2>2, <2>3, <2>4
<1>8. ASSUME NEW w \in Workers, InitReplies(w)
      PROVE  EndsTyped'
  <2>1. PICK want \in MayWant :
          /\ conn' = [conn EXCEPT !.want = want, !.background = Background(conn.minor),
                                  !.threshold = Threshold(conn.minor)]
          /\ kernel' = [kernel EXCEPT !.phase = "up", !.flags = want \ (Splice \cup {"IOCTL_DIR"})]
    BY <1>8, AnsweredInit
  <2>2. settings' = settings /\ fs' = [fs EXCEPT !.inits = @ + (IF "INIT" \in settings.ops THEN 1 ELSE 0)]
    BY <1>8, AnsweredInit
  <2>3. want \subseteq Caps
    BY DEF MayWant
  <2>4. Background(conn.minor) \in Nat /\ Threshold(conn.minor) \in Nat
    BY Tunables
  <2>5. fs' \in [inits : Nat, destroys : Nat]
    BY <2>2
  <2>6. QED
    BY <2>1, <2>2, <2>3, <2>4, <2>5
<1>9. ASSUME NEW w \in Workers, Destroy(w)
      PROVE  EndsTyped'
  BY <1>9 DEF Destroy, Goes, kernelVars
<1>10. QED
  BY <1>1, <1>2, <1>3, <1>4, <1>5, <1>6, <1>7, <1>8, <1>9, LoudSteps

(* And the flags.                                                          *)
LEMMA FlagsTypedNext ==
  ASSUME FlagsTyped, Next
  PROVE  FlagsTyped'
<1> USE DEF FlagsTyped
<1>1. CASE KernelStep
  BY <1>1, Zenon DEF KernelStep, SendInit, SendRequest, SendForget, SendDestroy, Send, llVars
<1>2. ASSUME NEW w \in Workers, WorkerStep(w)
      PROVE  FlagsTyped'
  <2>1. ASSUME NEW a, Writes(w, a)
        PROVE  confused' \in BOOLEAN /\ gotDestroy' = gotDestroy
    BY <2>1, Zenon DEF Writes, Done
  <2>2. ASSUME ReplyNone(w)
        PROVE  confused' \in BOOLEAN /\ gotDestroy' = gotDestroy
    BY <2>2, Zenon DEF ReplyNone, Done
  <2>3. CASE Read(w) \/ Admit(w) \/ Call(w) \/ NotifyReply(w)
    BY <2>3, Zenon DEF Read, Admit, Call, NotifyReply, kernelVars, llVars
  <2>4. CASE Refuse(w) \/ LeftOut(w) \/ FsReplies(w)
    BY <2>4, <2>1, Zenon DEF Refuse, LeftOut, FsReplies, ReplyErr
  <2>5. CASE OtherMajor(w) \/ InitReplies(w) \/ DestroyReplies(w)
    BY <2>5, <2>1, Zenon DEF OtherMajor, InitReplies, DestroyReplies, ReplyErr
  <2>6. CASE Forget(w) \/ Retrieved(w)
    BY <2>6, <2>2, Zenon DEF Forget, Retrieved
  <2>7. CASE Negotiate(w)
    BY <2>7, Zenon DEF Negotiate, kernelVars
  <2>8. CASE Destroy(w)
    BY <2>8, Zenon DEF Destroy, kernelVars
  <2>9. QED
    BY <1>2, <2>3, <2>4, <2>5, <2>6, <2>7, <2>8 DEF WorkerStep
<1>3. CASE NotifyStep \/ EndSession
  BY <1>3, Zenon DEF NotifyStep, Notify, Retrieve, SendRetrieve, UndoRetrieve, EndSession, llVars, kernelVars
<1>4. QED
  BY <1>1, <1>2, <1>3 DEF Next

-----------------------------------------------------------------------------
(* The invariant.                                                          *)

(* The invariant holds at first,                                           *)
LEMMA LInvInit == Init => LInv
<1> SUFFICES ASSUME Init
             PROVE  LInv
  OBVIOUS
<1> USE LowLevelAssumption, SettingsAssumption DEF Init
<1>1. RequestsTyped
  BY DEF RequestsTyped
<1>2. EndsTyped
  BY DEF EndsTyped, Phases
<1>3. FlagsTyped
  BY Zenon DEF FlagsTyped
<1>4. Typed
  BY <1>1, <1>2, <1>3, TypedParts
<1>5. Names /\ Waits /\ Lists /\ Retrieves
  BY DEF Names, Waits, Lists, Retrieves
<1>6. Stages /\ PhaseOK /\ Alone("INIT") /\ Alone("DESTROY")
  BY DEF Stages, PhaseOK, Alone, InOpInit
<1>7. Calls /\ Negotiated
  BY DEF Calls, Negotiated, InOpInit, InOpDestroy
<1>8. QED
  BY <1>4, <1>5, <1>6, <1>7 DEF LInv

(* and every step keeps it.                                                *)
LEMMA LInvNext == LInv /\ [Next]_vars => LInv'
<1> SUFFICES ASSUME LInv, [Next]_vars
             PROVE  LInv'
  OBVIOUS
<1> USE DEF LInv
<1>1. CASE Next
  <2>1. Kinds /\ settings' = settings
    BY <1>1, StepKinds
  <2>2. RequestsTyped' /\ EndsTyped' /\ FlagsTyped'
    BY <1>1, <2>1, TypedParts, RequestsTypedNext, EndsTypedNext, FlagsTypedNext
  <2>3. Typed'
    BY <2>2, TypedParts DEF Typed, TypeOK, RequestsTyped, EndsTyped, FlagsTyped, Message
  <2>4. Names' /\ Waits' /\ Lists'
    BY <2>1, NamesNext, WaitsNext, ListsNext
  <2>5. Retrieves'
    BY <1>1, <2>1, RetrievesNext, GoneStays
  <2>6. Stages' /\ PhaseOK' /\ Alone("INIT")' /\ Alone("DESTROY")'
    BY <1>1, <2>1, StagesNext, PhaseNext, AloneNext
  <2>7. Calls' /\ Negotiated'
    BY <1>1, CallsNext, NegotiatedNext
  <2>8. QED
    BY <2>3, <2>4, <2>5, <2>6, <2>7
<1>2. CASE UNCHANGED vars
  BY <1>2 DEF vars, kernelVars, llVars, workerVars, Typed, TypeOK, Names, Named, Waits, InChannel, AtWorker,
     Lists, Retrieves, ToCome, Stages, PhaseOK, Due, Alone, InOpInit, InOpDestroy, Calls, Negotiated
<1>3. QED
  BY <1>1, <1>2

(* The inductive invariant, for any number of workers and requests.        *)
THEOREM Invariance == Spec => []LInv
<1>1. QED
  BY LInvInit, LInvNext, PTL DEF Spec

-----------------------------------------------------------------------------
(* What the runs check, for every value of the constants.                  *)

(* The variables of the session have their types.                          *)
THEOREM TypeCorrect == Spec => []TypeOK
<1>1. LInv => TypeOK
  BY DEF LInv, Typed
<1>2. QED
  BY <1>1, Invariance, PTL

(* Every request that waits for its answer is in the channel or at one     *)
(* worker, and f->list has what the workers serve: no handler of           *)
(* fuse_lowlevel.c drops a request or answers it twice.                    *)
THEOREM EveryRequestAnsweredOnce == Spec => []OneAnswer
<1>1. LInv => OneAnswer
  <2> SUFFICES ASSUME LInv
               PROVE  OneAnswer
    OBVIOUS
  <2> USE DEF LInv, Typed, TypeOK
  <2>1. waiting = UniquesOf(Answerable(inbox \cup Served))
    <3>1. \A u : u \in UniquesOf(Answerable(inbox \cup Served)) <=> InChannel(u) \/ AtWorker(u)
      BY DEF UniquesOf, Answerable, Served, InChannel, AtWorker
    <3>2. \A u : u \in waiting <=> InChannel(u) \/ AtWorker(u)
      BY DEF Waits, InChannel, AtWorker
    <3>3. QED
      BY <3>1, <3>2
  <2>2. UniquesOf(inbox) \cap UniquesOf(Served) = {}
    BY DEF UniquesOf, Served, Names
  <2>3. list = {req[w].unique : w \in {v \in Workers : Serves(v) /\ pc[v] # "gate"}}
    <3>1. \A w \in Workers : Serves(w) => req[w].unique \in Numbers
      BY DEF Message
    <3>2. QED
      BY <3>1 DEF Lists
  <2>4. QED
    BY <2>1, <2>2, <2>3 DEF OneAnswer, Names
<1>2. QED
  BY <1>1, Invariance, PTL

(* do_init refuses a kernel for want of memory or for an older major       *)
(* version only, which never gets a session; after it the library and the  *)
(* kernel use one version, a write fits into the buffer, the tunables into *)
(* 16 bits, and no splice is wanted against options or version.            *)
THEOREM BothSidesAgree == Spec => []Agreed
<1>1. LInv => Agreed
  <2> SUFFICES ASSUME LInv
               PROVE  Agreed
    OBVIOUS
  <2> USE SettingsAssumption DEF LInv, Typed, TypeOK
  <2>1. Version \in Nat /\ Version <= kernel.minor /\ (Version < 14 => kernel.minor < 14)
    BY DEF Version, Minor
  <2>2. InSize("WRITE", Version) <= 40
    BY <2>1 DEF InSize, WordOps, ReadOps, ReleaseOps, FsyncOps, LockOps
  <2>3. InSize("WRITE", Version) \in Nat
    BY <2>1 DEF InSize, WordOps, ReadOps, ReleaseOps, FsyncOps, LockOps
  <2>4. 2^16 = 65536
    OBVIOUS
  <2>5. /\ kernel.phase = "refused" => Older \/ settings.oom
        /\ Older => ~gotInit /\ kernel.phase \notin {"up", "destroying"}
    BY DEF Negotiated, PhaseOK, Older, Major
  <2>6. ASSUME kernel.phase \in {"up", "destroying"}
        PROVE  /\ gotInit /\ kernel.major = Major /\ conn.minor = kernel.minor
               /\ settings.bufsize >= 8192 =>
                    conn.maxWrite + HeaderIn + InSize("WRITE", Version) <= settings.bufsize
               /\ Version >= 13 => conn.background < 2^16 /\ conn.threshold <= conn.background
               /\ conn.want \cap settings.without \cap Splice = {}
               /\ Version < 14 => conn.want \cap Splice = {} \/ "INIT" \in settings.ops
    BY <2>1, <2>2, <2>3, <2>4, <2>6 DEF Negotiated, PhaseOK, HeaderIn, Major
  <2>7. QED
    BY <2>5, <2>6 DEF Agreed
<1>2. QED
  BY <1>1, Invariance, PTL

(* op.init is called once and op.destroy once (fuse_ll_process_buf,        *)
(* fuse_ll_destroy); every operation comes after op.init, and those that   *)
(* are answered come before op.destroy.                                    *)
THEOREM FsLives == Spec => []FsLifetime
<1>1. LInv => FsLifetime
  <2> SUFFICES ASSUME LInv
               PROVE  FsLifetime
    OBVIOUS
  <2> USE DEF LInv, Typed, TypeOK
  <2>1. fs.inits <= 1 /\ fs.destroys <= 1
    BY DEF Calls
  <2>2. ASSUME NEW w \in Workers, pc[w] = "call"
        PROVE  gotInit /\ ~gotDestroy /\ \A v \in Workers : pc[v] # "opinit"
    <3>1. kernel.phase = "up"
      BY <2>2 DEF Stages, Plain, PhaseOK, Due
    <3>2. QED
      BY <3>1 DEF PhaseOK, InOpInit
  <2>3. ASSUME NEW w \in Workers, pc[w] = "opinit"
        PROVE  fs.inits = 0
    BY <2>3 DEF Calls, InOpInit
  <2>4. kernel.phase = "up" /\ "INIT" \in settings.ops => fs.inits = 1
    BY DEF Calls, PhaseOK
  <2>5. ASSUME NEW w \in Workers, CallsUnanswered(w)
        PROVE  gotInit /\ \A v \in Workers : pc[v] # "opinit"
    <3>1. Serves(w) /\ req[w].op \in ForgetOps \cup {"NOTIFY_REPLY"}
      BY <2>5 DEF CallsUnanswered, Stages
    <3>2. kernel.phase \in {"up", "destroying"}
      BY <3>1 DEF PhaseOK, Due, ForgetOps
    <3>3. QED
      BY <3>2 DEF PhaseOK, InOpInit
  <2>6. QED
    BY <2>1, <2>2, <2>3, <2>4, <2>5 DEF FsLifetime, Calls
<1>2. QED
  BY <1>1, Invariance, PTL

(* A reply to fuse_lowlevel_notify_retrieve finds its request on           *)
(* f->notify_list, and the list has no others.                             *)
THEOREM RetrievesMatched == Spec => []RetrieveMatched
<1>1. LInv => RetrieveMatched
  <2> SUFFICES ASSUME LInv, kernel.phase # "gone"
               PROVE  /\ Expected \subseteq notifyList
                      /\ notifyList \subseteq Expected \/ settings.oom
                      /\ sender # "idle" => notifyCtr \notin UniquesOf(Replies)
    BY DEF RetrieveMatched
  <2> USE DEF LInv, Typed, TypeOK
  <2>1. \A u : u \in UniquesOf(Replies) <=>
              \/ \E m \in inbox : m.op = "NOTIFY_REPLY" /\ m.unique = u
              \/ \E w \in Workers : pc[w] \in {"gate", "dispatch"} /\ req[w].op = "NOTIFY_REPLY" /\ req[w].unique = u
    BY DEF UniquesOf, Replies
  <2>2. \A u : u \in Expected <=> ToCome(u)
    BY <2>1 DEF Expected, ToCome
  <2>3. \A u : ToCome(u) => u \in 1..notifyCtr
    BY DEF ToCome, Names, Named
  <2>4. Expected \subseteq notifyList
    BY <2>2, <2>3 DEF Retrieves
  <2>5. notifyList \subseteq Expected \/ settings.oom
    BY <2>2 DEF Retrieves
  <2>6. sender # "idle" => notifyCtr \notin UniquesOf(Replies)
    BY <2>1 DEF Names
  <2>7. QED
    BY <2>4, <2>5, <2>6
<1>2. QED
  BY <1>1, Invariance, PTL

-----------------------------------------------------------------------------
(* Sums over finite sets of messages.                                       *)

(* Induction, about a set of numbers in the place of a property of them.    *)
LEMMA NumbersInduction ==
  ASSUME NEW S, 0 \in S, \A n \in Nat : n \in S => n + 1 \in S
  PROVE  Nat \subseteq S
<1> DEFINE R == OpToRel(<, Nat)
<1> SUFFICES ASSUME Nat \ S # {}
             PROVE  FALSE
  OBVIOUS
<1>1. \E x \in Nat \ S : \A y \in Nat \ S : ~(<<y, x>> \in R)
  BY NatLessThanWellFounded, WFMin
<1>2. PICK x \in Nat \ S : \A y \in Nat \ S : ~(<<y, x>> \in R)
  BY <1>1
<1> HIDE DEF R
<1>3. x # 0 /\ x - 1 \in Nat /\ (x - 1) + 1 = x
  BY <1>2
<1>4. <<x - 1, x>> \in R
  BY <1>2, <1>3 DEF R, OpToRel
<1>5. x - 1 \in S
  BY <1>2, <1>3, <1>4
<1> QED
  BY <1>2, <1>3, <1>5

(* g sums the counts of the subsets of S, as MapThenSumSet does it: some    *)
(* element, and the sum of the others.                                      *)
Some(s) == CHOOSE m \in s : TRUE
Sums(g, S) == \A s \in SUBSET S : g[s] = IF s = {} THEN 0 ELSE Some(s).count + g[s \ {Some(s)}]
AnyOrder(g, S) == \A s \in SUBSET S : \A m \in s : g[s] = m.count + g[s \ {m}]
Counts(S) == IsFiniteSet(S) /\ \A m \in S : m.count \in Nat

(* Taking the element out that is summed first.                             *)
LEMMA SomeElement ==
  ASSUME NEW s, IsFiniteSet(s), s # {}
  PROVE  /\ Some(s) \in s /\ IsFiniteSet(s \ {Some(s)})
         /\ Cardinality(s) \in Nat /\ Cardinality(s \ {Some(s)}) \in Nat
         /\ Cardinality(s) = Cardinality(s \ {Some(s)}) + 1
<1>1. Some(s) \in s
  BY DEF Some
<1>2. IsFiniteSet(s \ {Some(s)}) /\ Cardinality(s \ {Some(s)}) = Cardinality(s) - 1
  BY <1>1, FS_RemoveElement
<1> QED
  BY <1>1, <1>2, FS_CardinalityType

(* Two sums agree on what both are defined for.                             *)
LEMMA SumsUnique ==
  ASSUME NEW S, NEW T, NEW g, NEW h, Sums(g, S), Sums(h, T), IsFiniteSet(S), T \subseteq S
  PROVE  \A s \in SUBSET T : g[s] = h[s]
<1> DEFINE N == {n \in Nat : \A s \in SUBSET T : Cardinality(s) = n => g[s] = h[s]}
<1>1. \A s \in SUBSET T : IsFiniteSet(s) /\ Cardinality(s) \in Nat /\ s \in SUBSET S
  BY FS_Subset, FS_CardinalityType
<1>2. 0 \in N
  BY <1>1, FS_EmptySet DEF Sums
<1>3. ASSUME NEW n \in Nat, n \in N
      PROVE  n + 1 \in N
  <2> SUFFICES ASSUME NEW s \in SUBSET T, Cardinality(s) = n + 1
               PROVE  g[s] = h[s]
    OBVIOUS
  <2>1. s # {}
    BY FS_EmptySet
  <2>2. /\ Some(s) \in s /\ Cardinality(s \ {Some(s)}) \in Nat
        /\ Cardinality(s) = Cardinality(s \ {Some(s)}) + 1
    BY <1>1, <2>1, SomeElement
  <2>3. Cardinality(s \ {Some(s)}) = n
    BY <2>2
  <2>4. g[s \ {Some(s)}] = h[s \ {Some(s)}]
    BY <1>3, <2>3
  <2> QED
    BY <1>1, <2>1, <2>4 DEF Sums
<1>4. Nat \subseteq N
  <2> HIDE DEF N
  <2> QED
    BY <1>2, <1>3, NumbersInduction
<1> QED
  BY <1>1, <1>4

(* The sum of every finite set exists.                                      *)
LEMMA SumsExist ==
  ASSUME NEW S, Counts(S)
  PROVE  \E g \in [SUBSET S -> Nat] : Sums(g, S)
<1> DEFINE Upto(n) == {s \in SUBSET S : Cardinality(s) <= n}
           Good(g, n) == /\ g \in [Upto(n) -> Nat]
                         /\ \A s \in Upto(n) :
                              g[s] = IF s = {} THEN 0 ELSE Some(s).count + g[s \ {Some(s)}]
           N == {n \in Nat : \E g : Good(g, n)}
<1>1. \A s \in SUBSET S : IsFiniteSet(s) /\ Cardinality(s) \in Nat
  BY FS_Subset, FS_CardinalityType DEF Counts
<1>2. 0 \in N
  <2>1. \A s \in Upto(0) : s = {}
    BY <1>1, FS_EmptySet
  <2>2. Good([s \in Upto(0) |-> 0], 0)
    BY <2>1
  <2> QED
    BY <2>2
<1>3. ASSUME NEW n \in Nat, n \in N
      PROVE  n + 1 \in N
  <2>1. PICK g : Good(g, n)
    BY <1>3
  <2> DEFINE h == [s \in Upto(n + 1) |-> IF s = {} THEN 0 ELSE Some(s).count + g[s \ {Some(s)}]]
  <2>2. ASSUME NEW s \in Upto(n + 1), s # {}
        PROVE  /\ s \ {Some(s)} \in Upto(n) /\ s \ {Some(s)} \in Upto(n + 1)
               /\ Some(s).count \in Nat /\ g[s \ {Some(s)}] \in Nat
               /\ g[s \ {Some(s)}] = h[s \ {Some(s)}]
    <3> DEFINE t == s \ {Some(s)}
    <3>1. Some(s) \in s /\ Cardinality(t) \in Nat /\ Cardinality(s) = Cardinality(t) + 1
      BY <1>1, <2>2, SomeElement
    <3>2. t \in Upto(n) /\ t \in Upto(n + 1)
      BY <3>1
    <3>3. g[t] \in Nat
      BY <2>1, <3>2
    <3>4. h[t] = g[t]
      BY <2>1, <3>2
    <3> QED
      BY <3>1, <3>2, <3>3, <3>4 DEF Counts
  <2>3. \A s \in Upto(n + 1) : h[s] = IF s = {} THEN 0 ELSE Some(s).count + h[s \ {Some(s)}]
    BY <2>2
  <2>4. ASSUME NEW s \in Upto(n + 1), s # {}
        PROVE  Some(s).count + g[s \ {Some(s)}] \in Nat
    <3>1. Some(s).count \in Nat /\ g[s \ {Some(s)}] \in Nat
      BY <2>2, <2>4
    <3> QED
      BY <3>1
  <2> HIDE DEF Upto
  <2>5. h \in [Upto(n + 1) -> Nat]
    BY <2>4
  <2> HIDE DEF h
  <2>6. Good(h, n + 1)
    BY <2>3, <2>5
  <2> HIDE DEF Good
  <2> QED
    BY <2>6
<1>4. Nat \subseteq N
  <2> HIDE DEF N
  <2> QED
    BY <1>2, <1>3, NumbersInduction
<1>5. Cardinality(S) \in Nat /\ Upto(Cardinality(S)) = SUBSET S
  <2>1. \A s \in SUBSET S : Cardinality(s) <= Cardinality(S)
    BY FS_Subset DEF Counts
  <2> QED
    BY <1>1, <2>1
<1>6. PICK g : Good(g, Cardinality(S))
  BY <1>4, <1>5
<1> QED
  BY <1>5, <1>6 DEF Sums

(* It does not matter which element is summed first.                        *)
LEMMA SumsAnyOrder ==
  ASSUME NEW S, Counts(S), NEW g, g \in [SUBSET S -> Nat], Sums(g, S)
  PROVE  AnyOrder(g, S)
<1> DEFINE N == {n \in Nat : \A s \in SUBSET S : Cardinality(s) = n =>
                   \A m \in s : g[s] = m.count + g[s \ {m}]}
<1>1. \A s \in SUBSET S : IsFiniteSet(s) /\ Cardinality(s) \in Nat
  BY FS_Subset, FS_CardinalityType DEF Counts
<1>2. 0 \in N
  BY <1>1, FS_EmptySet
<1>3. ASSUME NEW n \in Nat, n \in N
      PROVE  n + 1 \in N
  <2> SUFFICES ASSUME NEW s \in SUBSET S, Cardinality(s) = n + 1, NEW m \in s
               PROVE  g[s] = m.count + g[s \ {m}]
    OBVIOUS
  <2> DEFINE f == Some(s)
             sf == s \ {f}
             sm == s \ {m}
             smf == s \ {m, f}
  <2>1. f \in s /\ g[s] = f.count + g[sf]
    BY DEF Some, Sums
  <2>2. CASE m = f
    BY <2>1, <2>2
  <2>3. CASE m # f
    <3>1. Cardinality(sf) = n /\ Cardinality(sm) = n
      <4>1. Cardinality(sf) = Cardinality(s) - 1
        BY <1>1, <2>1, FS_RemoveElement
      <4>2. Cardinality(sm) = Cardinality(s) - 1
        BY <1>1, FS_RemoveElement
      <4> QED
        BY <4>1, <4>2
    <3>2. sf \in SUBSET S /\ sm \in SUBSET S /\ smf \in SUBSET S /\ m \in sf /\ f \in sm
          /\ sf \ {m} = smf /\ sm \ {f} = smf
      BY <2>1, <2>3
    <3>3. m.count \in Nat /\ f.count \in Nat /\ g[smf] \in Nat
      BY <2>1, <3>2 DEF Counts
    <3> HIDE DEF f, sf, sm, smf
    <3>4. g[sf] = m.count + g[smf]
      BY <1>3, <3>1, <3>2
    <3>5. g[sm] = f.count + g[smf]
      BY <1>3, <3>1, <3>2
    <3>6. g[s] = m.count + g[sm]
      BY <2>1, <3>3, <3>4, <3>5
    <3> QED
      BY <3>6 DEF sm
  <2> QED
    BY <2>2, <2>3
<1>4. Nat \subseteq N
  <2> HIDE DEF N
  <2> QED
    BY <1>2, <1>3, NumbersInduction
<1> QED
  BY <1>1, <1>4 DEF AnyOrder

(* MapThenSumSet of the library is such a sum.                              *)
LEMMA CountedIsSum ==
  ASSUME NEW S, Counts(S)
  PROVE  \E g \in [SUBSET S -> Nat] :
           /\ Sums(g, S) /\ Counted(S) = g[S]
           /\ \A m \in S : g[S] = m.count + g[S \ {m}]
<1> DEFINE Eqn(g) == g = [s \in SUBSET S |-> IF s = {} THEN 0
                            ELSE (CHOOSE m \in s : TRUE).count + g[s \ {CHOOSE m \in s : TRUE}]]
           h == CHOOSE g : Eqn(g)
<1>1. PICK g \in [SUBSET S -> Nat] : Sums(g, S)
  BY SumsExist
<1>2. Eqn(g)
  BY <1>1 DEF Sums, Some
<1>3. Eqn(h)
  <2> HIDE DEF Eqn
  <2> QED
    BY <1>2
<1>4. Counted(S) = h[S]
  BY DEF Counted, MapThenSumSet, MapThenFoldSet
<1> HIDE DEF h
<1>5. Sums(h, S)
  BY <1>3 DEF Sums, Some
<1>6. h[S] = g[S]
  <2>1. \A s \in SUBSET S : g[s] = h[s]
    BY <1>1, <1>5, SumsUnique DEF Counts
  <2> QED
    BY <2>1
<1>7. \A m \in S : g[S] = m.count + g[S \ {m}]
  <2>1. AnyOrder(g, S)
    BY <1>1, SumsAnyOrder
  <2>2. S \in SUBSET S
    OBVIOUS
  <2> QED
    BY <2>1, <2>2 DEF AnyOrder
<1> QED
  BY <1>1, <1>4, <1>6, <1>7

(* One message less takes its count away.                                   *)
LEMMA CountedRemove ==
  ASSUME NEW S, Counts(S), NEW m \in S
  PROVE  /\ Counted(S) \in Nat /\ Counts(S \ {m}) /\ Counted(S \ {m}) \in Nat
         /\ Counted(S) = Counted(S \ {m}) + m.count
<1> DEFINE T == S \ {m}
<1>1. Counts(T) /\ T \in SUBSET S /\ m.count \in Nat
  BY FS_RemoveElement DEF Counts
<1>2. PICK g \in [SUBSET S -> Nat] :
        Sums(g, S) /\ Counted(S) = g[S] /\ g[S] = m.count + g[T]
  BY CountedIsSum
<1> HIDE DEF T
<1>3. PICK h \in [SUBSET T -> Nat] : Sums(h, T) /\ Counted(T) = h[T]
  BY <1>1, CountedIsSum
<1>4. g[T] = h[T]
  <2>1. \A s \in SUBSET T : g[s] = h[s]
    BY <1>1, <1>2, <1>3, SumsUnique DEF Counts
  <2> QED
    BY <2>1
<1>5. g[S] \in Nat /\ h[T] \in Nat
  OBVIOUS
<1> QED
  BY <1>1, <1>2, <1>3, <1>4, <1>5 DEF T

(* One more adds it.                                                        *)
LEMMA CountedAdd ==
  ASSUME NEW S, Counts(S), NEW m, m \notin S, m.count \in Nat
  PROVE  Counted(S) \in Nat /\ Counts(S \cup {m}) /\ Counted(S \cup {m}) = Counted(S) + m.count
<1> DEFINE U == S \cup {m}
<1>1. Counts(U) /\ m \in U /\ U \ {m} = S
  BY FS_AddElement DEF Counts
<1> HIDE DEF U
<1>2. Counted(U \ {m}) \in Nat /\ Counted(U) = Counted(U \ {m}) + m.count
  BY <1>1, CountedRemove
<1> QED
  BY <1>1, <1>2 DEF U

(* Nothing adds up to nothing.                                              *)
LEMMA CountedEmpty == Counted({}) = 0
<1>1. Counts({})
  BY FS_EmptySet DEF Counts
<1>2. PICK g \in [SUBSET {} -> Nat] : Sums(g, {}) /\ Counted({}) = g[{}]
  BY <1>1, CountedIsSum
<1> QED
  BY <1>2 DEF Sums

-----------------------------------------------------------------------------
(* The references on their way to the file system.                          *)

Pending == inbox \cup Served

(* Only forgets give back references, and the kernel sends them as root.    *)
ForgetsOK ==
  /\ forgotten \in [sent : Nat, done : Nat]
  /\ IsFiniteSet(inbox)
  /\ \A m \in Pending : IF m.op \in ForgetOps THEN m.uid = "root" ELSE m.count = 0

Adds(m) == m \notin Pending /\ Pending' = Pending \cup {m}

(* The messages on their way are as many as can be counted.                 *)
LEMMA PendingCounts ==
  ASSUME Typed, ForgetsOK
  PROVE  Counts(Pending) /\ Pending \subseteq Message
<1>1. Pending \subseteq Message
  BY DEF Pending, Served, Typed, TypeOK, Message
<1>2. IsFiniteSet(Served)
  <2>1. IsFiniteSet({v \in Workers : Serves(v)})
    BY LowLevelAssumption, FS_Subset
  <2> DEFINE busy == {v \in Workers : Serves(v)}
  <2>2. Served = {req[w] : w \in busy} /\ IsFiniteSet(busy)
    BY <2>1 DEF Served
  <2> HIDE DEF busy
  <2> DEFINE f == [w \in busy |-> req[w]]
  <2>3. f \in Surjection(busy, Served)
    <3>1. f \in [busy -> Served] /\ \A m \in Served : \E w \in busy : f[w] = m
      BY <2>2
    <3> QED
      BY <3>1 DEF Surjection
  <2> HIDE DEF f
  <2> QED
    BY <2>2, <2>3, FS_Surjection
<1>3. IsFiniteSet(Pending)
  BY <1>2, FS_Union DEF ForgetsOK, Pending
<1>4. \A m \in Message : m.count \in Nat
  BY DEF Message
<1> QED
  BY <1>1, <1>3, <1>4 DEF Counts

(* What each kind of step does to them.                                     *)
LEMMA PendingSteps ==
  ASSUME Typed, Names
  PROVE  /\ \A m \in Message : IsSent(m) => Adds(m) /\ inbox' = inbox \cup {m}
         /\ \A w \in Workers : IsRead(w) => Pending' = Pending /\ \E m \in inbox : inbox' = inbox \ {m}
         /\ \A w \in Workers : Moves(w) => Pending' = Pending /\ inbox' = inbox
         /\ \A w \in Workers : Leaves(w) =>
              Pending' = Pending \ {req[w]} /\ req[w] \in Pending /\ inbox' = inbox
         /\ Calm /\ inbox' = inbox => Pending' = Pending
         /\ SendRetrieve => \/ Pending' = Pending /\ inbox' = inbox
                            \/ \E m : Adds(m) /\ m \in Message /\ inbox' = inbox \cup {m}
                                      /\ m.op = "NOTIFY_REPLY" /\ m.count = 0
<1> USE DEF Typed, TypeOK
<1>0. \A x : x \in Pending <=> x \in inbox \/ \E v \in Workers : Serves(v) /\ x = req[v]
  BY DEF Pending, Served
<1>00. \A x : x \in Pending' <=> x \in inbox' \/ \E v \in Workers : pc'[v] # "idle" /\ x = req'[v]
  BY DEF Pending, Served
<1>1. ASSUME NEW m \in Message, IsSent(m)
      PROVE  Adds(m) /\ inbox' = inbox \cup {m}
  <2>1. inbox' = inbox \cup {m} /\ pc' = pc /\ req' = req /\ m.unique \in Uniques \ sent
        /\ m.op # "NOTIFY_REPLY"
    BY <1>1 DEF IsSent
  <2>2. m \notin inbox /\ \A v \in Workers : Serves(v) => req[v] # m
    BY <2>1 DEF Names, Named
  <2> QED
    BY <1>0, <1>00, <2>1, <2>2 DEF Adds
<1>2. ASSUME NEW w \in Workers, IsRead(w)
      PROVE  Pending' = Pending /\ \E m \in inbox : inbox' = inbox \ {m}
  <2>1. PICK m \in inbox : inbox' = inbox \ {m} /\ req' = [req EXCEPT ![w] = m]
    BY <1>2 DEF IsRead
  <2>2. \A v \in Workers : pc'[v] # "idle" <=> (v = w \/ pc[v] # "idle")
    BY <1>2 DEF IsRead
  <2>3. req'[w] = m /\ (\A v \in Workers \ {w} : req'[v] = req[v]) /\ pc[w] = "idle"
    BY <1>2, <2>1 DEF IsRead
  <2>4. \A x : x \in Pending' <=> x \in Pending
    BY <1>0, <1>00, <2>1, <2>2, <2>3
  <2> QED
    BY <2>1, <2>4
<1>3. ASSUME NEW w \in Workers, Moves(w)
      PROVE  Pending' = Pending /\ inbox' = inbox
  <2>1. inbox' = inbox /\ req' = req /\ \A v \in Workers : pc'[v] # "idle" <=> pc[v] # "idle"
    BY <1>3 DEF Moves
  <2>2. \A x : x \in Pending' <=> x \in Pending
    BY <1>0, <1>00, <2>1
  <2> QED
    BY <2>1, <2>2
<1>4. ASSUME NEW w \in Workers, Leaves(w)
      PROVE  Pending' = Pending \ {req[w]} /\ req[w] \in Pending /\ inbox' = inbox
  <2>1. \A v \in Workers : pc'[v] # "idle" <=> (v # w /\ pc[v] # "idle")
    BY <1>4 DEF Leaves
  <2>2. (\A v \in Workers \ {w} : req'[v] = req[v]) /\ inbox' = inbox /\ Serves(w)
    BY <1>4 DEF Leaves
  <2>3. req[w] \notin inbox /\ \A v \in Workers \ {w} : Serves(v) => req[v] # req[w]
    BY <2>2 DEF Names
  <2> QED
    BY <1>0, <1>00, <2>1, <2>2, <2>3
<1>5. ASSUME Calm, inbox' = inbox
      PROVE  Pending' = Pending
  <2>1. \A x : x \in Pending' <=> x \in Pending
    BY <1>5, <1>0, <1>00 DEF Calm
  <2> QED
    BY <2>1
<1>6. ASSUME SendRetrieve
      PROVE  \/ Pending' = Pending /\ inbox' = inbox
             \/ \E m : Adds(m) /\ m \in Message /\ inbox' = inbox \cup {m}
                       /\ m.op = "NOTIFY_REPLY" /\ m.count = 0
  <2> DEFINE m == [unique |-> notifyCtr, op |-> "NOTIFY_REPLY", uid |-> "root",
                   flags |-> {}, count |-> 0]
  <2>1. UNCHANGED <<pc, req>> /\ sender = "listed"
    BY <1>6 DEF SendRetrieve, llVars, workerVars
  <2>2. CASE inbox' = inbox
    <3>1. \A x : x \in Pending' <=> x \in Pending
      BY <1>0, <1>00, <2>1, <2>2
    <3> QED
      BY <2>2, <3>1
  <2>3. CASE inbox' = inbox \cup {m}
    <3>1. m \in Message
      BY <2>1 DEF Message, Numbers, Opcodes, Uids, Names
    <3>2. m.unique = notifyCtr /\ m.op = "NOTIFY_REPLY" /\ m.count = 0
      OBVIOUS
    <3> HIDE DEF m
    <3>3. m \notin inbox /\ \A v \in Workers : Serves(v) => req[v] # m
      BY <2>1, <3>2 DEF Names
    <3>4. Adds(m)
      BY <1>0, <1>00, <2>1, <2>3, <3>3 DEF Adds
    <3> QED
      BY <2>3, <3>1, <3>2, <3>4
  <2> QED
    BY <1>6, <2>2, <2>3 DEF SendRetrieve
<1> QED
  BY <1>1, <1>2, <1>3, <1>4, <1>5, <1>6

(* A worker that is through with a request has passed on what it gives      *)
(* back: no forget is refused at the gate, and none has an answer.          *)
LEMMA WorkerForgets ==
  ASSUME Typed, Names, Retrieves, Stages, PhaseOK, ForgetsOK, NEW w \in Workers, WorkerStep(w)
  PROVE  \/ (IsRead(w) \/ Moves(w)) /\ forgotten' = forgotten
         \/ /\ Leaves(w)
            /\ \E done \in 0..req[w].count :
                 /\ forgotten' = [forgotten EXCEPT !.done = @ + done]
                 /\ ~settings.oom /\ "FORGET" \in settings.ops => done = req[w].count
<1>0. \A m \in Pending : m.op \notin ForgetOps => m.count = 0
  BY DEF ForgetsOK
<1>1. ASSUME Serves(w), req[w].op \notin ForgetOps, forgotten' = forgotten
      PROVE  \E done \in 0..req[w].count :
                 /\ forgotten' = [forgotten EXCEPT !.done = @ + done]
                 /\ ~settings.oom /\ "FORGET" \in settings.ops => done = req[w].count
  <2>1. req[w] \in Pending
    BY <1>1 DEF Pending, Served
  <2>2. req[w].count = 0
    BY <1>0, <1>1, <2>1
  <2>3. forgotten' = [forgotten EXCEPT !.done = @ + 0]
    BY <1>1 DEF ForgetsOK
  <2> QED
    BY <2>2, <2>3
<1>2. IsRead(w) \/ Moves(w) \/ Leaves(w)
  BY WorkerKinds
<1>3. CASE Refuse(w)
  <2>1. Leaves(w) /\ forgotten' = forgotten /\ Serves(w) /\ pc[w] = "gate"
    BY <1>3, RefuseLeaves DEF Refuse
  <2>2. req[w] \in Pending /\ req[w].count \in Nat
    BY <2>1 DEF Pending, Served, Typed, Message
  <2>3. CASE req[w].op \in ForgetOps
    <3>1. gotInit = TRUE /\ req[w].op # "INIT" /\ req[w].uid = "root"
      BY <2>1, <2>2, <2>3 DEF PhaseOK, Due, ForgetsOK, ForgetOps, Typed, TypeOK
    <3>2. GateError(req[w]) = "0"
      BY <3>1 DEF GateError
    <3>3. settings.oom
      BY <1>3, <3>2 DEF Refuse
    <3>4. forgotten' = [forgotten EXCEPT !.done = @ + 0]
      BY <2>1 DEF ForgetsOK
    <3>5. 0 \in 0..req[w].count
      BY <2>2
    <3> QED
      BY <2>1, <3>3, <3>4, <3>5
  <2> QED
    BY <1>1, <2>1, <2>3
<1>4. CASE Forget(w)
  <2> DEFINE m == req[w]
             all == IF Callee(m) \in settings.ops THEN m.count ELSE 0
  <2>1. /\ m.op \in ForgetOps /\ Serves(w) /\ pc[w] = "dispatch"
        /\ ReplyNone(w) /\ notifyList' = notifyList
    BY <1>4 DEF Forget
  <2>2. Leaves(w)
    BY <2>1, NoneLeaves DEF ForgetOps, Unanswered
  <2>3. m.count \in Nat
    BY <2>1 DEF Typed, Message
  <2>4. PICK done \in 0..all :
          /\ done < all => settings.oom
          /\ forgotten' = [forgotten EXCEPT !.done = @ + done]
    BY <1>4 DEF Forget
  <2>5. "FORGET" \in settings.ops => all = m.count
    BY <2>1 DEF Callee, ForgetOps
  <2> HIDE DEF m
  <2>6. done \in 0..m.count /\ (~settings.oom /\ "FORGET" \in settings.ops => done = m.count)
    BY <2>3, <2>4, <2>5
  <2> HIDE DEF all
  <2> QED
    BY <2>2, <2>4, <2>6 DEF m
<1>5. CASE Read(w) \/ Admit(w) \/ Call(w) \/ Negotiate(w) \/ Destroy(w) \/ NotifyReply(w)
  <2>1. forgotten' = forgotten
    BY <1>5 DEF Read, Admit, Call, Negotiate, Destroy, NotifyReply
  <2>2. pc'[w] # "idle"
    BY <1>5, ReplyFinds DEF Read, Admit, Call, Negotiate, Destroy, Goes, Moves, Typed, TypeOK
  <2>3. ~Leaves(w)
    BY <2>2 DEF Leaves, Typed, TypeOK
  <2> QED
    BY <1>2, <2>1, <2>3
<1>6. CASE LeftOut(w) \/ FsReplies(w) \/ OtherMajor(w) \/ InitReplies(w) \/ DestroyReplies(w) \/ Retrieved(w)
  <2>1. forgotten' = forgotten /\ Serves(w)
    BY <1>6 DEF LeftOut, FsReplies, OtherMajor, InitReplies, DestroyReplies, Retrieved
  <2>2. req[w].op \notin ForgetOps
    BY <1>6 DEF LeftOut, FsReplies, OtherMajor, InitReplies, DestroyReplies, Retrieved, Stages, Plain,
       Unanswered, ForgetOps
  <2>3. pc'[w] = "idle"
    BY <1>6 DEF LeftOut, FsReplies, OtherMajor, InitReplies, DestroyReplies, Retrieved, ReplyErr, Writes,
       ReplyNone, Done, Typed, TypeOK
  <2>4. ~IsRead(w) /\ ~Moves(w)
    BY <2>1, <2>3 DEF IsRead, Moves, Typed, TypeOK
  <2> QED
    BY <1>1, <1>2, <2>1, <2>2, <2>4
<1> QED
  BY <1>3, <1>4, <1>5, <1>6 DEF WorkerStep

(* Every step keeps the account of the references.                          *)
LEMMA ForgetsNext ==
  ASSUME LInv, ForgetsOK, ForgetsArrive, [Next]_vars
  PROVE  ForgetsOK' /\ ForgetsArrive'
<1> DEFINE Owed == ~settings.oom /\ "FORGET" \in settings.ops
<1>1. /\ Typed /\ Names /\ Retrieves /\ Stages /\ PhaseOK
      /\ Counts(Pending) /\ Pending \subseteq Message
      /\ forgotten.sent \in Nat /\ forgotten.done \in Nat
  BY PendingCounts DEF LInv, ForgetsOK
<1>2. /\ ForgetsArrive <=> (kernel.phase # "gone" /\ Owed => forgotten.sent = forgotten.done + Counted(Pending))
      /\ ForgetsArrive' <=> (kernel'.phase # "gone" /\ Owed' =>
                               forgotten'.sent = forgotten'.done + Counted(Pending'))
  BY DEF ForgetsArrive, Pending
<1>3. CASE UNCHANGED vars
  <2>1. Pending' = Pending /\ UNCHANGED <<forgotten, inbox, kernel, settings>>
    BY <1>3 DEF vars, kernelVars, workerVars, Pending, Served
  <2> QED
    BY <1>2, <2>1 DEF ForgetsOK
<1>4. CASE Next
  <2>1. settings' = settings /\ (kernel.phase = "gone" => kernel'.phase = "gone")
    BY <1>1, <1>4, StepKinds, GoneStays
  <2>2. Owed' <=> Owed
    BY <2>1
  <2> HIDE DEF Owed
  (* A message is sent that gives back as many references.                  *)
  <2>3. ASSUME NEW m \in Message, NEW back \in Nat, Adds(m), inbox' = inbox \cup {m}, back = m.count,
               IF m.op \in ForgetOps THEN m.uid = "root" ELSE m.count = 0,
               forgotten' = [forgotten EXCEPT !.sent = @ + back]
        PROVE  ForgetsOK' /\ ForgetsArrive'
    <3>1. Counted(Pending) \in Nat /\ Counted(Pending') = Counted(Pending) + back
      BY <1>1, <2>3, CountedAdd DEF Adds
    <3>2. forgotten' = [sent |-> forgotten.sent + back, done |-> forgotten.done]
      BY <2>3 DEF ForgetsOK
    <3>3. forgotten'.sent = forgotten.sent + back /\ forgotten'.done = forgotten.done
      BY <3>2
    <3>4. ForgetsArrive'
      BY <1>1, <1>2, <2>1, <2>2, <3>1, <3>3
    <3>5. IsFiniteSet(inbox')
      BY <2>3, FS_AddElement DEF ForgetsOK
    <3> QED
      BY <1>1, <2>3, <3>2, <3>4, <3>5 DEF ForgetsOK, Adds
  (* None is sent, and none leaves.                                         *)
  <2>4. ASSUME Pending' = Pending, IsFiniteSet(inbox'), forgotten' = forgotten
        PROVE  ForgetsOK' /\ ForgetsArrive'
    BY <1>2, <2>1, <2>2, <2>4 DEF ForgetsOK
  <2>5. CASE KernelStep
    <3>1. PICK m \in Message :
            /\ IsSent(m) /\ (IF m.op \in ForgetOps THEN m.uid = "root" ELSE m.count = 0)
            /\ \/ m.count = 0 /\ forgotten' = forgotten
               \/ forgotten' = [forgotten EXCEPT !.sent = @ + m.count]
      BY <1>1, <2>5, SentByKernel DEF SendInit, SendRequest, SendDestroy, Unanswered, ForgetOps
    <3>2. m.count \in Nat
      BY DEF Message
    <3>3. Adds(m) /\ inbox' = inbox \cup {m}
      BY <1>1, <3>1, PendingSteps
    <3>4. forgotten' = [forgotten EXCEPT !.sent = @ + m.count]
      <4>1. m.count = 0 => forgotten = [forgotten EXCEPT !.sent = @ + m.count]
        BY DEF ForgetsOK
      <4> QED
        BY <3>1, <4>1
    <3> QED
      BY <2>3, <3>1, <3>2, <3>3, <3>4
  <2>6. ASSUME NEW w \in Workers, WorkerStep(w)
        PROVE  ForgetsOK' /\ ForgetsArrive'
    <3>1. CASE (IsRead(w) \/ Moves(w)) /\ forgotten' = forgotten
      <4>1. Pending' = Pending /\ (inbox' = inbox \/ \E m \in inbox : inbox' = inbox \ {m})
        BY <1>1, <3>1, PendingSteps
      <4>2. IsFiniteSet(inbox')
        BY <4>1, FS_RemoveElement DEF ForgetsOK
      <4> QED
        BY <2>4, <3>1, <4>1, <4>2
    <3>2. ASSUME Leaves(w), NEW done \in 0..req[w].count,
                 forgotten' = [forgotten EXCEPT !.done = @ + done],
                 ~settings.oom /\ "FORGET" \in settings.ops => done = req[w].count
          PROVE  ForgetsOK' /\ ForgetsArrive'
      <4>1. Pending' = Pending \ {req[w]} /\ req[w] \in Pending /\ inbox' = inbox
        BY <1>1, <3>2, PendingSteps
      <4>2. req[w].count \in Nat /\ done \in Nat
        BY <1>1, <4>1 DEF Message
      <4>3. Counted(Pending') \in Nat /\ Counted(Pending) = Counted(Pending') + req[w].count
        BY <1>1, <4>1, CountedRemove
      <4>4. forgotten' = [sent |-> forgotten.sent, done |-> forgotten.done + done]
        BY <3>2 DEF ForgetsOK
      <4>5. forgotten'.sent = forgotten.sent /\ forgotten'.done = forgotten.done + done
        BY <4>4
      <4>6. Owed => done = req[w].count
        BY <3>2 DEF Owed
      <4>7. ForgetsArrive'
        BY <1>1, <1>2, <2>1, <2>2, <4>2, <4>3, <4>5, <4>6
      <4> QED
        BY <1>1, <4>1, <4>2, <4>4, <4>7 DEF ForgetsOK
    <3> QED
      BY <1>1, <2>6, <3>1, <3>2, WorkerForgets
  <2>7. CASE NotifyStep
    <3>1. forgotten' = forgotten
      BY <2>7 DEF NotifyStep, Notify, Retrieve, SendRetrieve, UndoRetrieve
    <3>2. CASE SendRetrieve
      <4>1. CASE Pending' = Pending /\ inbox' = inbox
        BY <2>4, <3>1, <4>1 DEF ForgetsOK
      <4>2. ASSUME NEW m, Adds(m), m \in Message, inbox' = inbox \cup {m}, m.op = "NOTIFY_REPLY", m.count = 0
            PROVE  ForgetsOK' /\ ForgetsArrive'
        <5>1. forgotten' = [forgotten EXCEPT !.sent = @ + 0]
          BY <3>1 DEF ForgetsOK
        <5> QED
          BY <2>3, <4>2, <5>1 DEF ForgetOps
      <4> QED
        BY <1>1, <3>2, <4>1, <4>2, PendingSteps
    <3>3. CASE ~SendRetrieve
      <4>1. Calm /\ inbox' = inbox
        BY <2>7, <3>3 DEF NotifyStep, Notify, Retrieve, UndoRetrieve, Calm, kernelVars, llVars, workerVars
      <4>2. Pending' = Pending
        BY <1>1, <4>1, PendingSteps
      <4> QED
        BY <2>4, <3>1, <4>1, <4>2 DEF ForgetsOK
    <3> QED
      BY <3>2, <3>3
  <2>8. CASE EndSession
    <3>1. kernel'.phase = "gone" /\ forgotten' = forgotten /\ inbox' = {}
          /\ pc' = pc /\ req' = req /\ \A w \in Workers : pc[w] = "idle"
      BY <1>1, <2>8 DEF EndSession, workerVars, Typed, TypeOK
    <3>2. Pending' = {}
      BY <3>1 DEF Pending, Served
    <3> QED
      BY <1>2, <3>1, <3>2, FS_EmptySet DEF ForgetsOK
  <2> QED
    BY <1>4, <2>5, <2>6, <2>7, <2>8 DEF Next
<1> QED
  BY <1>3, <1>4

(* Every reference the kernel gives back reaches forget or forget_multi     *)
(* once, whether it came in a single forget or in a batch, if do_forget and *)
(* do_batch_forget have the memory they need.                               *)
THEOREM ForgetsDoArrive == Spec => []ForgetsArrive
<1>1. Init => ForgetsOK /\ ForgetsArrive
  <2> SUFFICES ASSUME Init
               PROVE  ForgetsOK /\ ForgetsArrive
    OBVIOUS
  <2>1. Pending = {} /\ forgotten = [sent |-> 0, done |-> 0] /\ inbox = {}
    BY DEF Init, Pending, Served
  <2>2. Counted({}) = 0
    BY CountedEmpty
  <2> QED
    BY <2>1, <2>2, FS_EmptySet DEF ForgetsOK, ForgetsArrive, Pending
<1>2. LInv /\ ForgetsOK /\ ForgetsArrive /\ [Next]_vars => (ForgetsOK /\ ForgetsArrive)'
  BY ForgetsNext
<1> QED
  BY <1>1, <1>2, Invariance, PTL DEF Spec

-----------------------------------------------------------------------------
(* Versions.  Once the two sides have the same minor version the sizes of  *)
(* both are the same, though the kernel speaks no version above ours.      *)

SameVersion == kernel.minor \in Nat /\ conn.minor = kernel.minor

(* The sizes the library computes are those of the kernel.                 *)
LEMMA SizesAgree ==
  ASSUME SameVersion
  PROVE  /\ EntrySize = EntryOut(Version) /\ AttrSize = AttrOut(Version)
         /\ StatfsSize = KStatfs(Version)
BY DEF SameVersion, Version, Minor, EntrySize, AttrSize, StatfsSize, EntryOut, AttrOut, KStatfs, Attr

(* An error number alone fits.                                             *)
LEMMA ErrorFits ==
  ASSUME NEW op, NEW e, e \notin {"0", "bad"}
  PROVE  Fits(op, Answer(e, 0, FALSE))
BY DEF Fits, Answer

(* Success with the structure of the version fits, with data if op has     *)
(* any.                                                                    *)
LEMMA SuccessFits ==
  ASSUME NEW op, NEW data \in BOOLEAN, data => op \in DataOps
  PROVE  Fits(op, Answer("0", OutSize(op, Version), data))
BY Zenon DEF Fits, Answer

(* OutSize, operation by operation.                                        *)
LEMMA OutSizes ==
  ASSUME NEW minor \in Nat
  PROVE  /\ \A op \in EntryOps : OutSize(op, minor) = EntryOut(minor)
         /\ OutSize("CREATE", minor) = EntryOut(minor) + OpenOut
         /\ \A op \in {"GETATTR", "SETATTR"} : OutSize(op, minor) = AttrOut(minor)
         /\ \A op \in {"OPEN", "OPENDIR"} : OutSize(op, minor) = OpenOut
         /\ \A op \in {"WRITE", "BMAP", "POLL"} : OutSize(op, minor) = 8
         /\ OutSize("STATFS", minor) = KStatfs(minor)
         /\ OutSize("GETLK", minor) = 24
         /\ OutSize("IOCTL", minor) = 16
         /\ \A op \in Opcodes : op \notin EntryOps \cup {"CREATE", "GETATTR", "SETATTR", "OPEN", "OPENDIR",
                                   "WRITE", "BMAP", "POLL", "STATFS", "GETLK", "IOCTL", "INIT"}
              => OutSize(op, minor) = 0
<1> USE DEF EntryOps
<1>1. \A op \in EntryOps : OutSize(op, minor) = EntryOut(minor)
  BY DEF OutSize
<1>2. OutSize("CREATE", minor) = EntryOut(minor) + OpenOut
  BY DEF OutSize
<1>3. \A op \in {"GETATTR", "SETATTR"} : OutSize(op, minor) = AttrOut(minor)
  BY DEF OutSize
<1>4. \A op \in {"OPEN", "OPENDIR"} : OutSize(op, minor) = OpenOut
  BY DEF OutSize
<1>5. \A op \in {"WRITE", "BMAP", "POLL"} : OutSize(op, minor) = 8
  BY DEF OutSize
<1>6. OutSize("STATFS", minor) = KStatfs(minor)
  BY DEF OutSize
<1>7. OutSize("GETLK", minor) = 24 /\ OutSize("IOCTL", minor) = 16
  BY DEF OutSize
<1>8. \A op \in Opcodes : op \notin EntryOps \cup {"CREATE", "GETATTR", "SETATTR", "OPEN", "OPENDIR",
                             "WRITE", "BMAP", "POLL", "STATFS", "GETLK", "IOCTL", "INIT"}
        => OutSize(op, minor) = 0
  BY DEF OutSize
<1>9. QED
  BY <1>1, <1>2, <1>3, <1>4, <1>5, <1>6, <1>7, <1>8

(* The answers of a file system fit.                                       *)
LEMMA AnswersFit ==
  ASSUME SameVersion, NEW m \in Message, Plain(m), NEW a \in FsAnswers(m)
  PROVE  Fits(m.op, a)
<1> DEFINE op == m.op
<1>0. Version \in Nat /\ op \in Opcodes
  BY DEF SameVersion, Version, Minor, Message
<1> HIDE DEF op
<1>1. CASE op = "IOCTL"
  <2>1. a \in {Answer("0", 16, FALSE), Answer("0", 16, TRUE), Answer("EINVAL", 0, FALSE),
               Answer("ENOMEM", 0, FALSE)}
    BY <1>1 DEF FsAnswers, IoctlAnswers, op
  <2>2. OutSize(op, Version) = 16 /\ op \in DataOps
    BY <1>0, <1>1, OutSizes DEF DataOps
  <2>3. QED
    BY <2>1, <2>2, ErrorFits, SuccessFits DEF op
<1>2. CASE op # "IOCTL"
  <2>0. a \in Successes(op)
    BY <1>2 DEF FsAnswers, op
  <2>1. CASE op \in EntryOps
    <3>1. a \in {Answer("0", EntrySize, FALSE), Answer("ENOENT", 0, FALSE)}
      BY <2>0, <2>1 DEF Successes, EntryOps
    <3>2. OutSize(op, Version) = EntrySize
      BY <1>0, <2>1, OutSizes, SizesAgree
    <3>3. QED
      BY <3>1, <3>2, ErrorFits, SuccessFits DEF op
  <2>2. CASE op = "CREATE"
    <3>1. a = Answer("0", EntrySize + OpenOut, FALSE)
      BY <2>0, <2>2 DEF Successes, EntryOps
    <3>2. OutSize(op, Version) = EntrySize + OpenOut
      BY <1>0, <2>2, OutSizes, SizesAgree
    <3>3. QED
      BY <3>1, <3>2, SuccessFits DEF op
  <2>3. CASE op \in {"GETATTR", "SETATTR"}
    <3>1. a = Answer("0", AttrSize, FALSE)
      BY <2>0, <2>3 DEF Successes, EntryOps
    <3>2. OutSize(op, Version) = AttrSize
      BY <1>0, <2>3, OutSizes, SizesAgree
    <3>3. QED
      BY <3>1, <3>2, SuccessFits DEF op
  <2>4. CASE op \in {"OPEN", "OPENDIR"}
    <3>1. a = Answer("0", OpenOut, FALSE)
      BY <2>0, <2>4 DEF Successes, EntryOps
    <3>2. OutSize(op, Version) = OpenOut
      BY <1>0, <2>4, OutSizes
    <3>3. QED
      BY <3>1, <3>2, SuccessFits DEF op
  <2>5. CASE op \in {"READ", "READDIR", "READLINK"}
    <3>1. a = Answer("0", 0, TRUE)
      BY <2>0, <2>5 DEF Successes, EntryOps
    <3>2. OutSize(op, Version) = 0 /\ op \in DataOps
      BY <1>0, <2>5, OutSizes DEF EntryOps, DataOps
    <3>3. QED
      BY <3>1, <3>2, SuccessFits DEF op
  <2>6. CASE op \in {"GETXATTR", "LISTXATTR"}
    <3>1. a \in {Answer("0", 8, FALSE), Answer("0", 0, TRUE)}
      BY <2>0, <2>6 DEF Successes, EntryOps, XattrSize
    <3>2. OutSize(op, Version) = 0 /\ op \in DataOps
      BY <1>0, <2>6, OutSizes DEF EntryOps, DataOps
    <3>3. Fits(op, Answer("0", 8, FALSE))
      BY <2>6 DEF Fits, Answer
    <3>4. QED
      BY <3>1, <3>2, <3>3, SuccessFits DEF op
  <2>7. CASE op \in {"WRITE", "BMAP", "POLL"}
    <3>1. a = Answer("0", 8, FALSE)
      BY <2>0, <2>7 DEF Successes, EntryOps
    <3>2. OutSize(op, Version) = 8
      BY <1>0, <2>7, OutSizes
    <3>3. QED
      BY <3>1, <3>2, SuccessFits DEF op
  <2>8. CASE op = "STATFS"
    <3>1. a = Answer("0", StatfsSize, FALSE)
      BY <2>0, <2>8 DEF Successes, EntryOps
    <3>2. OutSize(op, Version) = StatfsSize
      BY <1>0, <2>8, OutSizes, SizesAgree
    <3>3. QED
      BY <3>1, <3>2, SuccessFits DEF op
  <2>9. CASE op = "GETLK"
    <3>1. a = Answer("0", 24, FALSE)
      BY <2>0, <2>9 DEF Successes, EntryOps, LockSize
    <3>2. OutSize(op, Version) = 24
      BY <1>0, <2>9, OutSizes
    <3>3. QED
      BY <3>1, <3>2, SuccessFits DEF op
  <2>10. CASE op \notin EntryOps \cup {"CREATE", "GETATTR", "SETATTR", "OPEN", "OPENDIR", "READ", "READDIR",
                         "READLINK", "GETXATTR", "LISTXATTR", "WRITE", "BMAP", "POLL", "STATFS", "GETLK"}
    <3>1. a = Answer("0", 0, FALSE)
      BY <2>0, <2>10 DEF Successes
    <3>2. OutSize(op, Version) = 0
      BY <1>0, <1>2, <2>10, OutSizes DEF Plain, op
    <3>3. QED
      BY <3>1, <3>2, SuccessFits DEF op
  <2>11. QED
    BY <2>1, <2>2, <2>3, <2>4, <2>5, <2>6, <2>7, <2>8, <2>9, <2>10
<1>3. QED
  BY <1>1, <1>2

(* So do those the library gives for operations the file system leaves out.*)
LEMMA MissingFits ==
  ASSUME SameVersion, NEW op \in Opcodes
  PROVE  Fits(op, Missing(op))
<1>0. Version \in Nat
  BY DEF SameVersion, Version, Minor
<1>1. CASE op \in {"OPEN", "OPENDIR"}
  <2>1. Missing(op) = Answer("0", OpenOut, FALSE) /\ OutSize(op, Version) = OpenOut
    BY <1>0, <1>1, OutSizes DEF Missing
  <2>2. QED
    BY <2>1, SuccessFits
<1>2. CASE op \in {"RELEASE", "RELEASEDIR"}
  <2>1. Missing(op) = Answer("0", 0, FALSE) /\ OutSize(op, Version) = 0
    BY <1>0, <1>2, OutSizes DEF Missing, EntryOps
  <2>2. QED
    BY <2>1, SuccessFits
<1>3. CASE op = "STATFS"
  <2>1. Missing(op) = Answer("0", StatfsSize, FALSE) /\ OutSize(op, Version) = StatfsSize
    BY <1>0, <1>3, OutSizes, SizesAgree DEF Missing
  <2>2. QED
    BY <2>1, SuccessFits
<1>4. CASE op \notin {"OPEN", "OPENDIR", "RELEASE", "RELEASEDIR", "STATFS"}
  <2>1. Missing(op) = Answer("ENOSYS", 0, FALSE)
    BY <1>4 DEF Missing
  <2>2. QED
    BY <2>1, ErrorFits
<1>5. QED
  BY <1>1, <1>2, <1>3, <1>4

(* Requests are laid out the same way.                                     *)
LEMMA DataWhereItIs ==
  ASSUME SameVersion, NEW op \in Opcodes, HasData(op)
  PROVE  DataAt(op) = InSize(op, Version)
<1>1. Version \in Nat /\ (Version < 9 <=> conn.minor < 9) /\ (Version < 12 <=> conn.minor < 12)
      /\ conn.minor \in Nat
  BY DEF SameVersion, Version, Minor
<1> USE <1>1 DEF DataAt, InSize
<1>2. CASE op \in NameOps
  BY <1>2 DEF NameOps, WordOps, LockOps, ReadOps, ReleaseOps, FsyncOps
<1>3. CASE op \in {"MKNOD", "CREATE"}
  BY <1>3 DEF NameOps, WordOps, LockOps, ReadOps, ReleaseOps, FsyncOps
<1>4. CASE op = "WRITE"
  BY <1>4 DEF NameOps, WordOps, LockOps, ReadOps, ReleaseOps, FsyncOps
<1>5. CASE op \in {"MKDIR", "RENAME", "LINK", "SETXATTR", "GETXATTR", "BATCH_FORGET"}
  BY <1>5 DEF NameOps, WordOps, LockOps, ReadOps, ReleaseOps, FsyncOps
<1>6. CASE op = "IOCTL"
  BY <1>6 DEF NameOps, WordOps, LockOps, ReadOps, ReleaseOps, FsyncOps
<1>7. CASE op = "NOTIFY_REPLY"
  BY <1>7 DEF NameOps, WordOps, LockOps, ReadOps, ReleaseOps, FsyncOps
<1>8. QED
  BY <1>2, <1>3, <1>4, <1>5, <1>6, <1>7 DEF HasData

(* The handlers read no further, but for the lock flags.                   *)
LEMMA ReadsWithin ==
  ASSUME SameVersion, NEW op \in Opcodes, op # "INIT"
  PROVE  ReadsTo(op) <= InSize(op, Version) \/ ReadsBeyond(op)
<1>1. /\ Version \in Nat /\ conn.minor \in Nat
      /\ \A n \in {7, 8, 9, 12} : Version < n <=> conn.minor < n
  BY DEF SameVersion, Version, Minor
<1> USE <1>1 DEF ReadsTo, ReadsOfNode, ReadsOfFile, ReadsOfDirectory, ReadsOfLock, ReadsOfOther, InSize
<1>2. CASE op \in WordOps
  BY <1>2 DEF NameOps, WordOps, LockOps, ReadOps, ReleaseOps, FsyncOps
<1>3. CASE op \in {"GETATTR", "SETATTR", "MKNOD", "CREATE"}
  BY <1>3 DEF NameOps, WordOps, LockOps, ReadOps, ReleaseOps, FsyncOps
<1>4. CASE op \in ReadOps \cup {"WRITE"}
  BY <1>4 DEF NameOps, WordOps, LockOps, ReadOps, ReleaseOps, FsyncOps
<1>5. CASE op \in ReleaseOps \cup {"FLUSH"}
  BY <1>5 DEF NameOps, WordOps, LockOps, ReadOps, ReleaseOps, FsyncOps
<1>6. CASE op \in FsyncOps \cup {"IOCTL", "POLL", "FALLOCATE", "NOTIFY_REPLY"}
  BY <1>6 DEF NameOps, WordOps, LockOps, ReadOps, ReleaseOps, FsyncOps
<1>7. CASE op \in LockOps
  BY <1>7 DEF NameOps, WordOps, LockOps, ReadOps, ReleaseOps, FsyncOps, ReadsBeyond
<1>8. CASE op \in NameOps \cup {"READLINK", "STATFS", "DESTROY"}
  BY <1>8 DEF NameOps, WordOps, LockOps, ReadOps, ReleaseOps, FsyncOps
<1>9. QED
  BY <1>2, <1>3, <1>4, <1>5, <1>6, <1>7, <1>8
  DEF Opcodes, NameOps, WordOps, LockOps, ReadOps, ReleaseOps, FsyncOps, ForgetOps

(* Nothing the session writes confuses the kernel.                         *)
LEMMA UnconfusedNext ==
  ASSUME LInv, Next, ~confused
  PROVE  ~confused'
<1> USE DEF LInv, Typed, TypeOK
<1>1. CASE KernelStep
  BY <1>1 DEF KernelStep, SendInit, SendRequest, SendForget, SendDestroy, Send
<1>2. ASSUME NEW w \in Workers, WorkerStep(w)
      PROVE  ~confused'
  <2>1. ASSUME NEW a, Writes(w, a), Fits(req[w].op, a)
        PROVE  ~confused'
    BY <2>1 DEF Writes
  <2>2. ASSUME NEW e, ReplyErr(w, e), e # "0"
        PROVE  ~confused'
    <3>1. Writes(w, Answer(IF e = "bad" THEN "ERANGE" ELSE e, 0, FALSE))
      BY <2>2 DEF ReplyErr
    <3>2. QED
      BY <2>1, <2>2, <3>1, ErrorFits
  <2>3. ASSUME Serves(w), Plain(req[w])
        PROVE  SameVersion
    BY <2>3 DEF Plain, PhaseOK, Due, Negotiated, SameVersion
  <2>4. CASE Refuse(w)
    BY <2>2, <2>4 DEF Refuse
  <2>5. CASE LeftOut(w)
    <3>1. SameVersion /\ req[w].op \in Opcodes
      BY <2>3, <2>5 DEF LeftOut, Message
    <3>2. CASE \E e \in {"ENOTTY", "ENOMEM"} : ReplyErr(w, e)
      BY <2>2, <3>2
    <3>3. CASE Writes(w, Missing(req[w].op))
      BY <2>1, <3>1, <3>3, MissingFits
    <3>4. QED
      BY <2>5, <3>2, <3>3 DEF LeftOut
  <2>6. CASE FsReplies(w)
    <3>1. Serves(w) /\ Plain(req[w])
      BY <2>6 DEF FsReplies, Stages
    <3>2. SameVersion /\ req[w] \in Message
      BY <2>3, <3>1
    <3>3. CASE \E e \in {"bad", "ENOENT"} : ReplyErr(w, e)
      BY <2>2, <3>3
    <3>4. CASE \E a \in FsAnswers(req[w]) : Writes(w, a)
      BY <2>1, <3>1, <3>2, <3>4, AnswersFit
    <3>5. QED
      BY <2>6, <3>3, <3>4 DEF FsReplies
  <2>7. CASE OtherMajor(w)
    <3>1. CASE ReplyErr(w, "EPROTO")
      BY <2>2, <3>1
    <3>2. CASE Writes(w, Answer("0", 24, FALSE))
      BY <2>1, <2>7, <3>2 DEF OtherMajor, Fits, Answer
    <3>3. QED
      BY <2>7, <3>1, <3>2 DEF OtherMajor
  <2>8. CASE InitReplies(w)
    <3>1. req[w].op = "INIT" /\ Writes(w, InitAnswer)
      BY <2>8 DEF InitReplies, Stages
    <3>2. Fits("INIT", InitAnswer)
      BY DEF Fits, InitAnswer, Answer
    <3>3. QED
      BY <2>1, <3>1, <3>2
  <2>9. CASE DestroyReplies(w)
    <3>1. req[w].op = "DESTROY" /\ Writes(w, Answer("0", 0, FALSE))
      BY <2>9 DEF DestroyReplies, Stages
    <3>2. OutSize("DESTROY", Version) = 0
      BY OutSizes DEF Version, Minor, Opcodes, EntryOps
    <3>3. Fits("DESTROY", Answer("0", 0, FALSE))
      BY <3>2, SuccessFits
    <3>4. QED
      BY <2>1, <3>1, <3>3
  <2>10. CASE Forget(w) \/ Retrieved(w)
    BY <2>10 DEF Forget, Retrieved, ReplyNone
  <2>11. CASE Read(w) \/ Admit(w) \/ Call(w) \/ Negotiate(w) \/ Destroy(w) \/ NotifyReply(w)
    BY <2>11 DEF Read, Admit, Call, Negotiate, Destroy, NotifyReply, kernelVars
  <2>12. QED
    BY <1>2, <2>4, <2>5, <2>6, <2>7, <2>8, <2>9, <2>10, <2>11 DEF WorkerStep
<1>3. CASE NotifyStep
  <2>1. ASSUME NEW code \in Codes, Notify(code)
        PROVE  ~confused'
    <3>1. Understands(code)
      BY <2>1 DEF Notify, NotifySince, Understands, KnownSince, Unchecked, Codes, Version,
         Minor, Negotiated
    <3>2. QED
      BY <2>1, <3>1 DEF Notify
  <2>2. QED
    BY <1>3, <2>1 DEF NotifyStep, Retrieve, SendRetrieve, UndoRetrieve, kernelVars
<1>4. CASE EndSession
  BY <1>4 DEF EndSession
<1>5. QED
  BY <1>1, <1>2, <1>3, <1>4 DEF Next

(* The kernel is never confused: every answer and notification of the      *)
(* library has the layout of the version agreed on, and so has what its    *)
(* handlers read.                                                          *)
THEOREM VersionSpoken == Spec => []SpeaksVersion
<1>1. Init => ~confused
  BY DEF Init
<1>2. LInv /\ ~confused /\ [Next]_vars => ~confused'
  BY UnconfusedNext DEF vars, kernelVars
<1>3. LInv /\ ~confused => SpeaksVersion
  <2> SUFFICES ASSUME LInv, NEW w \in Workers, pc[w] = "dispatch", req[w].op # "INIT"
               PROVE  LET op == req[w].op
                      IN  /\ HasData(op) => DataAt(op) = InSize(op, Version)
                          /\ ReadsTo(op) <= InSize(op, Version) \/ ReadsBeyond(op)
    BY DEF SpeaksVersion
  <2> USE DEF LInv, Typed, TypeOK
  <2>1. req[w].op \in Opcodes
    BY DEF Message
  <2>2. SameVersion
    BY DEF PhaseOK, Due, Negotiated, SameVersion
  <2>3. QED
    BY <2>1, <2>2, DataWhereItIs, ReadsWithin
<1>4. QED
  BY <1>1, <1>2, <1>3, Invariance, PTL DEF Spec
=============================================================================
