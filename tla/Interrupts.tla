------------------------------ MODULE Interrupts ------------------------------
(***************************************************************************)
(* Requests and INTERRUPTs of lib/fuse_lowlevel.c, and what lib/fuse.c     *)
(* makes of them with -o intr: an INTERRUPT finds its request on the list, *)
(* or is parked until the request comes, or is sent back to the kernel;    *)
(* the thread that serves it keeps signalling the thread that serves the   *)
(* request until that one has finished its call to the file system.        *)
(* An action is a critical section of f->lock (with req->lock around it    *)
(* where the code takes both), one of fuse->lock, or a message.            *)
(***************************************************************************)
EXTENDS Integers, FiniteSets, SequencesExt

CONSTANTS
  Uniques,   (* the numbers of the requests the kernel sends               *)
  Threads,   (* worker threads                                             *)
  Nobody     (* no thread: an unlocked mutex, a callback not registered    *)

ASSUME InterruptsAssumption ==
  IsFiniteSet(Uniques) /\ IsFiniteSet(Threads) /\ Nobody \notin Threads

VARIABLES
  sent,        (* requests the kernel has sent                             *)
  answered,    (* those whose answer it has                                *)
  asked,       (* those whose caller was interrupted                       *)
  outbox,      (* those with an INTERRUPT not read yet                     *)
  list,        (* f->list: the requests being served                       *)
  interrupts,  (* f->interrupts: the requests parked INTERRUPTs name       *)
  ctr,         (* req->ctr, 0 when there is no such object                 *)
  interrupted, (* req->interrupted                                         *)
  func,        (* the thread whose data is registered in req->u.ni         *)
  lock,        (* the thread that holds req->lock                          *)
  finished,    (* d->finished of a thread's fuse_intr_data                 *)
  pc,          (* what each thread is doing                                *)
  on,          (* the request it serves, or its INTERRUPT names            *)
  bounced,     (* the request of the parked INTERRUPT it sends back        *)
  callee       (* the thread it interrupts                                 *)

kernelVars == <<sent, answered, asked, outbox>>
reqVars == <<list, interrupts, ctr, interrupted, func, lock, finished>>
vars == <<kernelVars, reqVars, pc, on, bounced, callee>>

(* A request: begin, again, prepare, before, blocked, finish, unregister,  *)
(* reply, free.  An INTERRUPT: find, flag, calling, drop.                  *)
ServingPCs == {"again", "prepare", "before", "blocked", "finish", "unregister", "reply", "free"}
InterruptingPCs == {"flag", "calling", "unlock", "drop"}
PCs == {"idle", "begin", "find"} \cup ServingPCs \cup InterruptingPCs

TypeOK ==
  /\ sent \subseteq Uniques /\ answered \subseteq sent
  /\ asked \subseteq sent /\ outbox \subseteq asked
  /\ list \subseteq Uniques /\ interrupts \in Seq(Uniques)
  /\ ctr \in [Uniques -> Nat] /\ interrupted \in [Uniques -> BOOLEAN]
  /\ func \in [Uniques -> Threads \cup {Nobody}] /\ lock \in [Uniques -> Threads \cup {Nobody}]
  /\ finished \in [Threads -> BOOLEAN] /\ pc \in [Threads -> PCs]
  /\ on \in [Threads -> Uniques] /\ bounced \in [Threads -> Uniques]
  /\ callee \in [Threads -> Threads \cup {Nobody}]

Init ==
  /\ sent = {} /\ answered = {} /\ asked = {} /\ outbox = {}
  /\ list = {} /\ interrupts = << >>
  /\ ctr = [u \in Uniques |-> 0] /\ interrupted = [u \in Uniques |-> FALSE]
  /\ func = [u \in Uniques |-> Nobody] /\ lock = [u \in Uniques |-> Nobody]
  /\ finished = [t \in Threads |-> TRUE] /\ pc = [t \in Threads |-> "idle"]
  /\ on \in {[t \in Threads |-> u] : u \in Uniques} /\ bounced = on
  /\ callee = [t \in Threads |-> Nobody]

Goes(t, from, to) == pc[t] = from /\ pc' = [pc EXCEPT ![t] = to]

Parked(u) == \E i \in DOMAIN interrupts : interrupts[i] = u

-----------------------------------------------------------------------------
(* The kernel.                                                             *)

(* A worker reads a new request.                                           *)
SendRequest(t) ==
  /\ Goes(t, "idle", "begin")
  /\ \E u \in Uniques \ sent : /\ sent' = sent \cup {u}
                               /\ on' = [on EXCEPT ![t] = u]
  /\ UNCHANGED <<answered, asked, outbox, reqVars, bounced, callee>>

(* The caller of a request without an answer is interrupted, once.         *)
AskInterrupt ==
  /\ \E u \in sent \ (answered \cup asked) :
       asked' = asked \cup {u} /\ outbox' = outbox \cup {u}
  /\ UNCHANGED <<sent, answered, reqVars, pc, on, bounced, callee>>

(* A worker reads an INTERRUPT.                                            *)
SendInterrupt(t) ==
  /\ Goes(t, "idle", "find")
  /\ \E u \in outbox : /\ outbox' = outbox \ {u}
                       /\ on' = [on EXCEPT ![t] = u]
  /\ UNCHANGED <<sent, answered, asked, reqVars, bounced, callee>>

-----------------------------------------------------------------------------
(* The request: fuse_ll_process_buf and a handler of fuse.c.               *)

(* check_interrupt and list_add_req.  A parked INTERRUPT for this request  *)
(* is used up; if there is none, the oldest of the others goes back.       *)
BeginListing(t) ==
  LET u == on[t]
  IN  /\ Goes(t, "begin", "prepare")
      /\ ctr' = [ctr EXCEPT ![u] = 1]
      /\ list' = list \cup {u}
      /\ UNCHANGED <<kernelVars, interrupts, interrupted, func, lock, finished, on, bounced, callee>>

Begin(t) ==
  LET u == on[t]
  IN  /\ ctr' = [ctr EXCEPT ![u] = 1]
      /\ list' = list \cup {u}
      /\ \/ /\ \E i \in DOMAIN interrupts :
                 interrupts[i] = u /\ interrupts' = RemoveAt(interrupts, i)
            /\ Goes(t, "begin", "prepare")
            /\ interrupted' = [interrupted EXCEPT ![u] = TRUE]
            /\ UNCHANGED bounced
         \/ /\ interrupts # << >> /\ ~Parked(u)
            /\ Goes(t, "begin", "again")
            /\ interrupts' = Tail(interrupts)
            /\ bounced' = [bounced EXCEPT ![t] = Head(interrupts)]
            /\ UNCHANGED interrupted
         \/ /\ interrupts = << >>
            /\ Goes(t, "begin", "prepare")
            /\ UNCHANGED <<interrupts, interrupted, bounced>>
      /\ UNCHANGED <<kernelVars, func, lock, finished, on, callee>>

BounceNothing(t) ==
  /\ Goes(t, "again", "prepare")
  /\ UNCHANGED <<kernelVars, reqVars, on, bounced, callee>>

(* fuse_reply_err(intr, EAGAIN): the kernel sends the INTERRUPT again if   *)
(* its request is still without an answer.                                 *)
Bounce(t) ==
  /\ Goes(t, "again", "prepare")
  /\ outbox' = IF bounced[t] \in answered THEN outbox ELSE outbox \cup {bounced[t]}
  /\ UNCHANGED <<sent, answered, asked, reqVars, on, bounced, callee>>

(* The path cannot be had: the handler answers with an error.              *)
Refuse(t) == Goes(t, "prepare", "reply") /\ UNCHANGED <<kernelVars, reqVars, on, bounced, callee>>

(* fuse_do_prepare_interrupt.  If the request is interrupted already,      *)
(* fuse_interrupt is called here, by the thread it should signal, and does *)
(* nothing.                                                                *)
Prepare(t) ==
  /\ lock[on[t]] = Nobody
  /\ Goes(t, "prepare", "before")
  /\ finished' = [finished EXCEPT ![t] = FALSE]
  /\ func' = [func EXCEPT ![on[t]] = t]
  /\ UNCHANGED <<kernelVars, list, interrupts, ctr, interrupted, lock, on, bounced, callee>>

(* The file system is called: it returns by itself or blocks, until it is  *)
(* ready or a signal comes.                                                *)
CallBlocks(t) == Goes(t, "before", "blocked") /\ UNCHANGED <<kernelVars, reqVars, on, bounced, callee>>

CallReturns(t) ==
  /\ Goes(t, "before", "finish") \/ Goes(t, "blocked", "finish")
  /\ UNCHANGED <<kernelVars, reqVars, on, bounced, callee>>

SetNothing(t) == Goes(t, "finish", "unregister") /\ UNCHANGED <<kernelVars, reqVars, on, bounced, callee>>

(* fuse_do_finish_interrupt, the part under fuse->lock.                    *)
SetFinished(t) ==
  /\ Goes(t, "finish", "unregister")
  /\ finished' = [finished EXCEPT ![t] = TRUE]
  /\ UNCHANGED <<kernelVars, list, interrupts, ctr, interrupted, func, lock, on, bounced, callee>>

(* ... and the part under req->lock: nobody uses d any more.               *)
UnregisterAtOnce(t) ==
  /\ Goes(t, "unregister", "reply")
  /\ func' = [func EXCEPT ![on[t]] = Nobody]
  /\ UNCHANGED <<kernelVars, list, interrupts, ctr, interrupted, lock, finished, on, bounced, callee>>

Unregister(t) ==
  /\ lock[on[t]] = Nobody
  /\ Goes(t, "unregister", "reply")
  /\ func' = [func EXCEPT ![on[t]] = Nobody]
  /\ UNCHANGED <<kernelVars, list, interrupts, ctr, interrupted, lock, finished, on, bounced, callee>>

(* send_reply: the kernel drops an INTERRUPT of the request not read yet.  *)
Reply(t) ==
  /\ Goes(t, "reply", "free")
  /\ answered' = answered \cup {on[t]}
  /\ outbox' = outbox \ {on[t]}
  /\ UNCHANGED <<sent, asked, reqVars, on, bounced, callee>>

(* fuse_free_req.                                                          *)
FreeReq(t) ==
  /\ Goes(t, "free", "idle")
  /\ func' = [func EXCEPT ![on[t]] = Nobody]
  /\ list' = list \ {on[t]}
  /\ ctr' = [ctr EXCEPT ![on[t]] = @ - 1]
  /\ UNCHANGED <<kernelVars, interrupts, interrupted, lock, finished, on, bounced, callee>>

-----------------------------------------------------------------------------
(* The INTERRUPT: do_interrupt, find_interrupted and fuse_interrupt.       *)

FindUncounted(t) ==
  /\ on[t] \in list
  /\ Goes(t, "find", "flag")
  /\ UNCHANGED <<kernelVars, reqVars, on, bounced, callee>>

(* The request is on the list and gets a reference, or an INTERRUPT for it *)
(* is parked already, or this one is parked.                               *)
Find(t) ==
  LET u == on[t]
  IN  /\ \/ /\ u \in list
            /\ Goes(t, "find", "flag")
            /\ ctr' = [ctr EXCEPT ![u] = @ + 1]
            /\ UNCHANGED interrupts
         \/ /\ u \notin list
            /\ Goes(t, "find", "idle")
            /\ interrupts' = IF Parked(u) THEN interrupts ELSE Append(interrupts, u)
            /\ UNCHANGED ctr
      /\ UNCHANGED <<kernelVars, list, interrupted, func, lock, finished, on, bounced, callee>>

(* Under req->lock, which is kept, and f->lock.                            *)
Flag(t) ==
  LET u == on[t]
  IN  /\ lock[u] = Nobody
      /\ Goes(t, "flag", IF func[u] = Nobody THEN "unlock" ELSE "calling")
      /\ lock' = [lock EXCEPT ![u] = t]
      /\ interrupted' = [interrupted EXCEPT ![u] = TRUE]
      /\ callee' = [callee EXCEPT ![t] = func[u]]
      /\ UNCHANGED <<kernelVars, list, interrupts, ctr, func, finished, on, bounced>>

(* fuse_interrupt: a signal every second until d->finished.  A signal that *)
(* finds the callee outside a blocking call has no effect.                 *)
Signal(t) ==
  /\ pc[t] = "calling" /\ ~finished[callee[t]]
  /\ pc[callee[t]] = "blocked"
  /\ pc' = [pc EXCEPT ![callee[t]] = "finish"]
  /\ UNCHANGED <<kernelVars, reqVars, on, bounced, callee>>

SignalEnds(t) ==
  /\ pc[t] = "calling" /\ finished[callee[t]]
  /\ Goes(t, "calling", "unlock")
  /\ callee' = [callee EXCEPT ![t] = Nobody]
  /\ UNCHANGED <<kernelVars, reqVars, on, bounced>>

UnlockReq(t) ==
  /\ Goes(t, "unlock", "drop")
  /\ lock' = [lock EXCEPT ![on[t]] = Nobody]
  /\ UNCHANGED <<kernelVars, list, interrupts, ctr, interrupted, func, finished, on, bounced, callee>>

(* The reference is given back.                                            *)
DropRef(t) ==
  /\ Goes(t, "drop", "idle")
  /\ ctr' = [ctr EXCEPT ![on[t]] = @ - 1]
  /\ UNCHANGED <<kernelVars, list, interrupts, interrupted, func, lock, finished, on, bounced, callee>>

-----------------------------------------------------------------------------
KernelStep(t) == SendRequest(t) \/ SendInterrupt(t)

ServeStep(t) ==
  \/ Begin(t) \/ Bounce(t) \/ Refuse(t) \/ Prepare(t) \/ CallBlocks(t) \/ CallReturns(t)
  \/ SetFinished(t) \/ Unregister(t) \/ Reply(t) \/ FreeReq(t)

InterruptStep(t) ==
  Find(t) \/ Flag(t) \/ Signal(t) \/ SignalEnds(t) \/ UnlockReq(t) \/ DropRef(t)

Next ==
  \/ AskInterrupt
  \/ \E t \in Threads : KernelStep(t) \/ ServeStep(t) \/ InterruptStep(t)

Spec == Init /\ [][Next]_vars

(* Threads are scheduled.  A call to the file system that blocks may stay  *)
(* blocked: CallReturns is not fair, but a signal that finds it blocked    *)
(* ends it, and the signals are repeated.                                  *)
ServeMoves(t) ==
  \/ Begin(t) \/ Bounce(t) \/ Refuse(t) \/ Prepare(t) \/ CallBlocks(t)
  \/ SetFinished(t) \/ Unregister(t) \/ Reply(t) \/ FreeReq(t)

Fairness == \A t \in Threads : WF_vars(ServeMoves(t)) /\ WF_vars(InterruptStep(t))

FairSpec == Spec /\ Fairness

-----------------------------------------------------------------------------
Users(u) == {t \in Threads : on[t] = u /\ pc[t] \in ServingPCs \cup InterruptingPCs}

(* The counter of a request is the number of threads that still hold a     *)
(* pointer to it: the one that serves it and those that interrupt it.  So  *)
(* it is destroyed by the last of them, and not before.                    *)
CounterIsUsers == \A u \in Uniques : ctr[u] = Cardinality(Users(u))

(* A thread that is being interrupted is still inside the handler whose    *)
(* stack holds the fuse_intr_data, serving the request the interrupter     *)
(* means, so that no signal hits a later request of the same thread.       *)
InsidePCs == {"before", "blocked", "finish", "unregister"}

CalleeIsThere ==
  \A t \in Threads : pc[t] = "calling" =>
    callee[t] \in Threads /\ on[callee[t]] = on[t] /\ pc[callee[t]] \in InsidePCs

(* An INTERRUPT is never parked while its request is on the list, where    *)
(* nothing would find it again, nor is it parked twice.                    *)
ParkedNotListed ==
  /\ \A u \in list : ~Parked(u)
  /\ \A i, j \in DOMAIN interrupts : interrupts[i] = interrupts[j] => i = j

(* As long as a request has no answer, the wish to interrupt it is         *)
(* somewhere: with the kernel, parked, in the hands of a thread, or marked *)
(* in the request.                                                         *)
InterruptKept ==
  \A u \in asked \ answered :
    \/ u \in outbox \/ Parked(u) \/ interrupted[u]
    \/ \E t \in Threads : \/ on[t] = u /\ pc[t] \in {"find", "flag"}
                          \/ bounced[t] = u /\ pc[t] = "again"

(* A thread that interrupts another is done with it in the end: its        *)
(* signals end the other's call, and neither waits for the other's mutex   *)
(* for ever.                                                               *)
InterrupterReturns == \A t \in Threads : pc[t] = "calling" ~> pc[t] = "idle"

(* fuse_lowlevel.h: it is not possible for interrupts to be lost.  A       *)
(* request that was interrupted before its call ends blocks no longer.     *)
InterruptedEnds ==
  \A u \in Uniques : (interrupted[u] /\ u \in list) ~> u \in answered
=============================================================================
