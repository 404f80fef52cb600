-------------------------- MODULE Interrupts_proofs --------------------------
(* The safety of Interrupts for any number of requests and threads: request *)
(* objects live as long as a thread holds a pointer to them, interrupters   *)
(* reach into stacks that are there, parked INTERRUPTs are where they are   *)
(* looked for, and no wish to interrupt gets lost on its way.               *)
(* Then, apart from that, the safety of NodeTable for tables, ids and names *)
(* of any number: every node is found, none that the kernel holds goes, the *)
(* list has what may go, and ids that come back have a new generation. The  *)
(* two modules share no variable.                                           *)
EXTENDS Interrupts, NodeTable, TLAPS, FiniteSetTheorems, SequenceTheorems,
        WellFoundedInduction, NaturalsInduction

-----------------------------------------------------------------------------
(* The inductive invariant.                                                 *)

(* A request is served by one thread.                                       *)
OneServer ==
  \A s, t \in Threads :
    /\ s # t /\ pc[s] \in {"begin"} \cup ServingPCs /\ pc[t] \in {"begin"} \cup ServingPCs
    => on[s] # on[t]

SentOnly == \A t \in Threads : pc[t] # "idle" => on[t] \in sent

(* Nobody interrupts a request that is not on the list yet.                 *)
NotTooEarly ==
  \A s, t \in Threads : pc[s] = "begin" /\ pc[t] \in InterruptingPCs => on[s] # on[t]

Listed ==
  \A u \in Uniques : u \in list <=> \E t \in Threads : pc[t] \in ServingPCs /\ on[t] = u

LockOwner ==
  \A u \in Uniques, t \in Threads :
    lock[u] = t <=> pc[t] \in {"calling", "unlock"} /\ on[t] = u

FuncOwner ==
  \A u \in Uniques : func[u] # Nobody => on[func[u]] = u /\ pc[func[u]] \in InsidePCs

(* What a parked INTERRUPT or one on its way back names was asked for.      *)
BouncedAsked ==
  /\ \A i \in DOMAIN interrupts : interrupts[i] \in asked
  /\ \A t \in Threads : /\ pc[t] = "again" => bounced[t] \in asked
                        /\ pc[t] = "find" => on[t] \in asked

ThreadInv == TypeOK /\ OneServer /\ SentOnly /\ NotTooEarly /\ Listed /\ LockOwner /\ FuncOwner
             /\ BouncedAsked /\ CalleeIsThere

USE DEF PCs, ServingPCs, InterruptingPCs, InsidePCs

-----------------------------------------------------------------------------
(* Removing one element of a queue.                                         *)

LEMMA RemoveAtLemma ==
  ASSUME NEW S, NEW q \in Seq(S), NEW i \in 1..Len(q)
  PROVE  /\ RemoveAt(q, i) \in Seq(S)
         /\ Len(RemoveAt(q, i)) = Len(q) - 1
         /\ \A k \in 1..(Len(q) - 1) : RemoveAt(q, i)[k] = q[IF k < i THEN k ELSE k + 1]
<1> DEFINE a == SubSeq(q, 1, i - 1)
           b == SubSeq(q, i + 1, Len(q))
<1>0. Len(q) \in Nat /\ i \in Int
  OBVIOUS
<1>1. a \in Seq(S) /\ Len(a) = i - 1 /\ \A k \in 1..(i - 1) : a[k] = q[k]
  OBVIOUS
<1>2. b \in Seq(S) /\ Len(b) = Len(q) - i /\ \A k \in 1..(Len(q) - i) : b[k] = q[k + i]
  OBVIOUS
<1>3. RemoveAt(q, i) = a \o b
  BY DEF RemoveAt
<1> HIDE DEF a, b
<1>4. PICK n \in Nat : n = Len(q)
  BY <1>0
<1>5. a \o b \in Seq(S) /\ Len(a \o b) = n - 1
  <2>1. a \in Seq(S) /\ b \in Seq(S)
    BY <1>1, <1>2
  <2>2. a \o b \in Seq(S) /\ Len(a \o b) = Len(a) + Len(b)
    BY <2>1
  <2> QED
    BY <1>0, <1>1, <1>2, <1>4, <2>2
<1>6. ASSUME NEW k \in 1..(n - 1)
      PROVE  (a \o b)[k] = q[IF k < i THEN k ELSE k + 1]
  <2>1. k \in Int /\ (k < i \/ k >= i)
    BY <1>0
  <2>2. (a \o b)[k] = IF k <= i - 1 THEN a[k] ELSE b[k - (i - 1)]
    BY <1>0, <1>1, <1>2, <1>4, <2>1, ConcatProperties
  <2>3. CASE k < i
    <3>1. (a \o b)[k] = a[k] /\ k \in 1..(i - 1)
      BY <1>0, <2>1, <2>2, <2>3
    <3> QED
      BY <1>1, <2>3, <3>1
  <2>4. CASE k >= i
    <3>1. (a \o b)[k] = b[k - (i - 1)] /\ k - (i - 1) \in 1..(n - i)
      BY <1>0, <2>1, <2>2, <2>4
    <3>2. b[k - (i - 1)] = q[k + 1]
      BY <1>0, <1>2, <1>4, <2>1, <3>1
    <3> QED
      BY <1>0, <2>1, <2>4, <3>1, <3>2
  <2> QED
    BY <2>1, <2>3, <2>4
<1> QED
  BY <1>3, <1>4, <1>5, <1>6

-----------------------------------------------------------------------------
(* The threads and the objects they hold.                                   *)

LEMMA ThreadInvInit == Init => ThreadInv
BY InterruptsAssumption
   DEF Init, ThreadInv, TypeOK, OneServer, SentOnly, NotTooEarly, Listed, LockOwner, FuncOwner, BouncedAsked, CalleeIsThere

LEMMA KernelInv ==
  ASSUME ThreadInv, NEW t \in Threads, KernelStep(t) \/ AskInterrupt
  PROVE  ThreadInv'
<1> USE InterruptsAssumption DEF ThreadInv
<1>1. CASE AskInterrupt
  BY <1>1 DEF AskInterrupt, reqVars, TypeOK, OneServer, SentOnly, NotTooEarly, Listed, LockOwner, FuncOwner, BouncedAsked, CalleeIsThere
<1>2. CASE SendRequest(t)
  <2>1. PICK u \in Uniques \ sent : sent' = sent \cup {u} /\ on' = [on EXCEPT ![t] = u]
    BY <1>2 DEF SendRequest
  <2>2. /\ pc[t] = "idle" /\ pc' = [pc EXCEPT ![t] = "begin"]
        /\ UNCHANGED <<answered, asked, outbox, list, interrupts, ctr, interrupted, func, lock, finished, bounced, callee>>
    BY <1>2 DEF SendRequest, Goes, reqVars
  <2>3. TypeOK'
    BY <2>1, <2>2 DEF TypeOK
  <2>4. OneServer' /\ SentOnly' /\ NotTooEarly'
    BY <2>1, <2>2 DEF OneServer, SentOnly, NotTooEarly, TypeOK
  <2>5. pc'[t] \notin ServingPCs /\ \A s \in Threads \ {t} : pc'[s] = pc[s] /\ on'[s] = on[s]
    BY <2>1, <2>2 DEF TypeOK
  <2>6. Listed'
    BY <2>2, <2>5 DEF Listed
  <2>7. LockOwner'
    BY <2>1, <2>2 DEF LockOwner, TypeOK
  <2>8. FuncOwner'
    <3> SUFFICES ASSUME NEW v \in Uniques, func[v] # Nobody
                 PROVE  on'[func[v]] = v /\ pc'[func[v]] \in InsidePCs
      BY <2>2 DEF FuncOwner
    <3>1. func[v] \in Threads /\ on[func[v]] = v /\ pc[func[v]] \in InsidePCs
      BY DEF FuncOwner, TypeOK
    <3> QED
      BY <2>2, <2>5, <3>1
  <2>9. BouncedAsked'
    BY <2>1, <2>2 DEF BouncedAsked, TypeOK
  <2>10. CalleeIsThere'
    <3> SUFFICES ASSUME NEW s \in Threads, pc'[s] = "calling"
                 PROVE  /\ callee[s] \in Threads /\ on'[callee[s]] = on'[s]
                        /\ pc'[callee[s]] \in InsidePCs
      BY <2>2 DEF CalleeIsThere
    <3>1. s # t /\ pc[s] = "calling"
      BY <2>2, <2>5 DEF TypeOK
    <3>2. callee[s] \in Threads \ {t} /\ on[callee[s]] = on[s] /\ pc[callee[s]] \in InsidePCs
      BY <2>2, <3>1 DEF CalleeIsThere
    <3> QED
      BY <2>5, <3>1, <3>2
  <2> QED
    BY <2>3, <2>4, <2>6, <2>7, <2>8, <2>9, <2>10
<1>3. CASE SendInterrupt(t)
  <2>1. PICK u \in outbox : outbox' = outbox \ {u} /\ on' = [on EXCEPT ![t] = u]
    BY <1>3 DEF SendInterrupt
  <2>2. /\ pc[t] = "idle" /\ pc' = [pc EXCEPT ![t] = "find"]
        /\ UNCHANGED <<sent, answered, asked, list, interrupts, ctr, interrupted, func, lock, finished, bounced, callee>>
    BY <1>3 DEF SendInterrupt, Goes, reqVars
  <2>3. TypeOK'
    BY <2>1, <2>2 DEF TypeOK
  <2>4. OneServer' /\ SentOnly' /\ NotTooEarly'
    BY <2>1, <2>2 DEF OneServer, SentOnly, NotTooEarly, TypeOK
  <2>5. pc'[t] \notin ServingPCs /\ \A s \in Threads \ {t} : pc'[s] = pc[s] /\ on'[s] = on[s]
    BY <2>1, <2>2 DEF TypeOK
  <2>6. Listed'
    BY <2>2, <2>5 DEF Listed
  <2>7. LockOwner'
    BY <2>1, <2>2 DEF LockOwner, TypeOK
  <2>8. FuncOwner'
    <3> SUFFICES ASSUME NEW v \in Uniques, func[v] # Nobody
                 PROVE  on'[func[v]] = v /\ pc'[func[v]] \in InsidePCs
      BY <2>2 DEF FuncOwner
    <3>1. func[v] \in Threads /\ on[func[v]] = v /\ pc[func[v]] \in InsidePCs
      BY DEF FuncOwner, TypeOK
    <3> QED
      BY <2>2, <2>5, <3>1
  <2>9. BouncedAsked'
    BY <2>1, <2>2 DEF BouncedAsked, TypeOK
  <2>10. CalleeIsThere'
    <3> SUFFICES ASSUME NEW s \in Threads, pc'[s] = "calling"
                 PROVE  /\ callee[s] \in Threads /\ on'[callee[s]] = on'[s]
                        /\ pc'[callee[s]] \in InsidePCs
      BY <2>2 DEF CalleeIsThere
    <3>1. s # t /\ pc[s] = "calling"
      BY <2>2, <2>5 DEF TypeOK
    <3>2. callee[s] \in Threads \ {t} /\ on[callee[s]] = on[s] /\ pc[callee[s]] \in InsidePCs
      BY <2>2, <3>1 DEF CalleeIsThere
    <3> QED
      BY <2>5, <3>1, <3>2
  <2> QED
    BY <2>3, <2>4, <2>6, <2>7, <2>8, <2>9, <2>10
<1> QED
  BY <1>1, <1>2, <1>3 DEF KernelStep

(* A step of the thread that serves a request, between listing and freeing. *)
LEMMA ServeMoveInv ==
  ASSUME ThreadInv, NEW t \in Threads,
         Bounce(t) \/ Refuse(t) \/ Prepare(t) \/ CallBlocks(t) \/ CallReturns(t) \/ SetFinished(t)
           \/ Unregister(t) \/ Reply(t)
  PROVE  ThreadInv'
<1> USE InterruptsAssumption DEF ThreadInv
<1>1. /\ pc[t] \in ServingPCs /\ on[t] \in Uniques
      /\ \E p \in ServingPCs : pc' = [pc EXCEPT ![t] = p]
      /\ UNCHANGED <<sent, asked, list, interrupts, ctr, interrupted, lock, on, bounced, callee>>
  BY DEF Bounce, Refuse, Prepare, CallBlocks, CallReturns, SetFinished, Unregister, Reply, Goes,
         kernelVars, reqVars, TypeOK
<1>2. PICK p \in ServingPCs : pc' = [pc EXCEPT ![t] = p]
  BY <1>1
<1>3. TypeOK'
  <2>1. func' \in [Uniques -> Threads \cup {Nobody}] /\ finished' \in [Threads -> BOOLEAN]
    <3>1. CASE Prepare(t)
      BY <1>1, <3>1 DEF Prepare, TypeOK
    <3>2. CASE SetFinished(t)
      BY <1>1, <3>2 DEF SetFinished, TypeOK
    <3>3. CASE Unregister(t)
      BY <1>1, <3>3 DEF Unregister, TypeOK
    <3>4. CASE UNCHANGED <<func, finished>>
      BY <3>4 DEF TypeOK
    <3> QED
      BY <3>1, <3>2, <3>3, <3>4 DEF Bounce, Refuse, CallBlocks, CallReturns, Reply, reqVars
  <2>2. answered' \subseteq sent' /\ outbox' \subseteq asked'
    <3>1. CASE Bounce(t)
      <4>1. bounced[t] \in asked
        BY <3>1 DEF Bounce, Goes, BouncedAsked
      <4> QED
        BY <1>1, <3>1, <4>1 DEF Bounce, TypeOK
    <3>2. CASE Reply(t)
      BY <1>1, <3>2 DEF Reply, TypeOK, SentOnly
    <3>3. CASE UNCHANGED <<answered, outbox>>
      BY <1>1, <3>3 DEF TypeOK
    <3> QED
      BY <3>1, <3>2, <3>3
         DEF Refuse, Prepare, CallBlocks, CallReturns, SetFinished, Unregister, kernelVars
  <2> QED
    BY <1>1, <1>2, <2>1, <2>2 DEF TypeOK
<1>4. OneServer' /\ SentOnly' /\ NotTooEarly'
  BY <1>1, <1>2 DEF OneServer, SentOnly, NotTooEarly, TypeOK
<1>5. Listed' /\ LockOwner'
  BY <1>1, <1>2 DEF Listed, LockOwner, TypeOK
<1>6. FuncOwner'
  <2>1. CASE Prepare(t)
    BY <1>1, <2>1 DEF Prepare, Goes, FuncOwner, TypeOK
  <2>2. CASE Unregister(t)
    <3>1. pc[t] = "unregister" /\ pc' = [pc EXCEPT ![t] = "reply"]
          /\ func' = [func EXCEPT ![on[t]] = Nobody]
      BY <2>2 DEF Unregister, Goes
    <3> SUFFICES ASSUME NEW v \in Uniques, func'[v] # Nobody
                 PROVE  on[func'[v]] = v /\ pc'[func'[v]] \in InsidePCs
      BY <1>1 DEF FuncOwner
    <3>2. v # on[t] /\ func'[v] = func[v]
      BY <1>1, <3>1 DEF TypeOK
    <3>3. func[v] \in Threads /\ on[func[v]] = v /\ pc[func[v]] \in InsidePCs
      BY <3>2 DEF FuncOwner, TypeOK
    <3> QED
      BY <3>1, <3>2, <3>3 DEF TypeOK
  <2>3. CASE CallBlocks(t) \/ CallReturns(t) \/ SetFinished(t)
    <3>1. pc'[t] \in InsidePCs /\ func' = func
      BY <1>1, <2>3 DEF CallBlocks, CallReturns, SetFinished, Goes, reqVars, TypeOK
    <3> QED
      BY <1>1, <1>2, <3>1 DEF FuncOwner, TypeOK
  <2>4. CASE Bounce(t) \/ Refuse(t) \/ Reply(t)
    <3>1. pc[t] \notin InsidePCs /\ func' = func
      BY <2>4 DEF Bounce, Refuse, Reply, Goes, reqVars
    <3> QED
      BY <1>1, <1>2, <3>1 DEF FuncOwner, TypeOK
  <2> QED
    BY <2>1, <2>2, <2>3, <2>4
<1>7. BouncedAsked'
  BY <1>1, <1>2 DEF BouncedAsked, TypeOK, Goes,
     Bounce, Refuse, Prepare, CallBlocks, CallReturns, SetFinished, Unregister, Reply
<1>8. CalleeIsThere'
  <2> SUFFICES ASSUME NEW s \in Threads, pc'[s] = "calling"
               PROVE  /\ callee[s] \in Threads /\ on[callee[s]] = on[s]
                      /\ pc'[callee[s]] \in InsidePCs
    BY <1>1 DEF CalleeIsThere
  <2>1. /\ s # t /\ pc[s] = "calling"
        /\ callee[s] \in Threads /\ on[callee[s]] = on[s] /\ pc[callee[s]] \in InsidePCs
    BY <1>1, <1>2 DEF CalleeIsThere, TypeOK
  <2>2. CASE callee[s] = t
    <3>1. lock[on[t]] = s
      BY <1>1, <2>1, <2>2 DEF LockOwner
    <3>2. ~Unregister(t)
      BY <3>1 DEF Unregister
    <3>3. ~Bounce(t) /\ ~Refuse(t) /\ ~Prepare(t) /\ ~Reply(t)
      BY <2>1, <2>2 DEF Bounce, Refuse, Prepare, Reply, Goes
    <3> QED
      BY <2>1, <2>2, <3>2, <3>3 DEF CallBlocks, CallReturns, SetFinished, Goes, TypeOK
  <2>3. CASE callee[s] # t
    BY <1>2, <2>1, <2>3 DEF TypeOK
  <2> QED
    BY <2>1, <2>2, <2>3
<1> QED
  BY <1>3, <1>4, <1>5, <1>6, <1>7, <1>8

(* Listing a request: nobody serves or interrupts it yet.                   *)
LEMMA BeginInv ==
  ASSUME ThreadInv, NEW t \in Threads, Begin(t)
  PROVE  ThreadInv'
<1> USE InterruptsAssumption DEF ThreadInv
<1> DEFINE u == on[t]
<1>1. /\ pc[t] = "begin" /\ u \in Uniques
      /\ list' = list \cup {u} /\ ctr' = [ctr EXCEPT ![u] = 1]
      /\ UNCHANGED <<sent, answered, asked, outbox, func, lock, finished, on, callee>>
  BY DEF Begin, Goes, kernelVars, TypeOK
<1>2. PICK p \in {"prepare", "again"} : pc' = [pc EXCEPT ![t] = p]
  BY DEF Begin, Goes
<1>3. /\ interrupts' \in Seq(Uniques) /\ interrupted' \in [Uniques -> BOOLEAN]
      /\ bounced' \in [Threads -> Uniques]
      /\ \A k \in DOMAIN interrupts' : interrupts'[k] \in asked
      /\ \A s \in Threads : pc'[s] = "again" => bounced'[s] \in asked
  <2>1. CASE /\ \E i \in DOMAIN interrupts :
                  interrupts[i] = u /\ interrupts' = RemoveAt(interrupts, i)
             /\ Goes(t, "begin", "prepare")
             /\ interrupted' = [interrupted EXCEPT ![u] = TRUE]
             /\ UNCHANGED bounced
    <3>0. PICK n \in Nat : n = Len(interrupts) /\ DOMAIN interrupts = 1..n
      BY DEF TypeOK
    <3>1. PICK i \in DOMAIN interrupts : interrupts' = RemoveAt(interrupts, i)
      BY <2>1
    <3>2. /\ interrupts' \in Seq(Uniques) /\ Len(interrupts') = n - 1
          /\ \A k \in 1..(n - 1) : interrupts'[k] = interrupts[IF k < i THEN k ELSE k + 1]
      <4>1. i \in 1..Len(interrupts) /\ interrupts \in Seq(Uniques)
        BY <3>0 DEF TypeOK
      <4>2. /\ RemoveAt(interrupts, i) \in Seq(Uniques)
            /\ Len(RemoveAt(interrupts, i)) = Len(interrupts) - 1
            /\ \A k \in 1..(Len(interrupts) - 1) :
                 RemoveAt(interrupts, i)[k] = interrupts[IF k < i THEN k ELSE k + 1]
        BY <4>1, RemoveAtLemma
      <4> QED
        BY <3>0, <3>1, <4>2
    <3>3. \A k \in DOMAIN interrupts' : interrupts'[k] \in asked
      <4> SUFFICES ASSUME NEW k \in DOMAIN interrupts'
                   PROVE  interrupts'[k] \in asked
        OBVIOUS
      <4>1. k \in 1..(n - 1)
        BY <3>2
      <4>2. (IF k < i THEN k ELSE k + 1) \in DOMAIN interrupts
        BY <3>0, <4>1
      <4> QED
        BY <3>2, <4>1, <4>2 DEF BouncedAsked
    <3> QED
      BY <1>1, <2>1, <3>2, <3>3 DEF TypeOK, BouncedAsked, Goes
  <2>2. CASE /\ interrupts # << >>
             /\ Goes(t, "begin", "again")
             /\ interrupts' = Tail(interrupts)
             /\ bounced' = [bounced EXCEPT ![t] = Head(interrupts)]
             /\ UNCHANGED interrupted
    <3>1. /\ Tail(interrupts) \in Seq(Uniques) /\ Head(interrupts) = interrupts[1]
          /\ 1 \in DOMAIN interrupts /\ interrupts[1] \in Uniques
          /\ \A k \in DOMAIN Tail(interrupts) :
               k + 1 \in DOMAIN interrupts /\ Tail(interrupts)[k] = interrupts[k + 1]
      BY <2>2 DEF TypeOK
    <3> QED
      BY <1>1, <2>2, <3>1 DEF TypeOK, BouncedAsked, Goes
  <2>3. CASE Goes(t, "begin", "prepare") /\ UNCHANGED <<interrupts, interrupted, bounced>>
    BY <1>1, <2>3 DEF TypeOK, BouncedAsked, Goes
  <2> QED
    BY <2>1, <2>2, <2>3 DEF Begin
<1>4. TypeOK'
  BY <1>1, <1>2, <1>3 DEF TypeOK
<1>5. OneServer' /\ SentOnly' /\ NotTooEarly'
  BY <1>1, <1>2 DEF OneServer, SentOnly, NotTooEarly, TypeOK
<1>6. Listed' /\ LockOwner'
  BY <1>1, <1>2 DEF Listed, LockOwner, TypeOK
<1>7. FuncOwner' /\ CalleeIsThere'
  BY <1>1, <1>2 DEF FuncOwner, CalleeIsThere, TypeOK
<1>8. BouncedAsked'
  BY <1>1, <1>2, <1>3 DEF BouncedAsked, TypeOK
<1> QED
  BY <1>4, <1>5, <1>6, <1>7, <1>8

(* The request leaves the list with its only server; others may still hold  *)
(* it.                                                                      *)
LEMMA FreeReqInv ==
  ASSUME ThreadInv, NEW t \in Threads, FreeReq(t), ctr[on[t]] > 0
  PROVE  ThreadInv'
<1> USE InterruptsAssumption DEF ThreadInv
<1>1. /\ pc[t] = "free" /\ pc' = [pc EXCEPT ![t] = "idle"]
      /\ on[t] \in Uniques
      /\ func' = [func EXCEPT ![on[t]] = Nobody]
      /\ list' = list \ {on[t]} /\ ctr' = [ctr EXCEPT ![on[t]] = @ - 1]
      /\ UNCHANGED <<sent, answered, asked, outbox, interrupts, interrupted, lock, finished, on,
                     bounced, callee>>
  BY DEF FreeReq, Goes, kernelVars, TypeOK
<1>2. TypeOK'
  BY <1>1 DEF TypeOK
<1>3. OneServer' /\ SentOnly' /\ NotTooEarly'
  BY <1>1 DEF OneServer, SentOnly, NotTooEarly, TypeOK
<1>4. Listed'
  BY <1>1 DEF Listed, OneServer, TypeOK
<1>5. LockOwner' /\ BouncedAsked'
  BY <1>1 DEF LockOwner, BouncedAsked, TypeOK
<1>6. FuncOwner' /\ CalleeIsThere'
  BY <1>1 DEF FuncOwner, CalleeIsThere, TypeOK
<1> QED
  BY <1>2, <1>3, <1>4, <1>5, <1>6

LEMMA InterruptStepInv ==
  ASSUME ThreadInv, NEW t \in Threads, InterruptStep(t), DropRef(t) => ctr[on[t]] > 0
  PROVE  ThreadInv'
<1> USE InterruptsAssumption DEF ThreadInv
<1>1. CASE Find(t)
  <2>1. /\ pc[t] = "find" /\ on[t] \in Uniques
        /\ UNCHANGED <<sent, answered, asked, outbox, list, interrupted, func, lock, finished, on,
                       bounced, callee>>
    BY <1>1 DEF Find, Goes, kernelVars, TypeOK
  <2>2. PICK p \in {"idle", "flag"} : pc' = [pc EXCEPT ![t] = p] /\ (p = "flag" => on[t] \in list)
    BY <1>1 DEF Find, Goes
  <2>3. /\ interrupts' \in Seq(Uniques) /\ ctr' \in [Uniques -> Nat]
        /\ \A i \in DOMAIN interrupts' : interrupts'[i] \in asked
    <3>1. CASE interrupts' = interrupts
      <4>1. ctr' = ctr \/ ctr' = [ctr EXCEPT ![on[t]] = @ + 1]
        BY <1>1 DEF Find
      <4> QED
        <5>1. ctr' \in [Uniques -> Nat]
          BY <2>1, <4>1 DEF TypeOK
        <5>2. interrupts' \in Seq(Uniques) /\ \A i \in DOMAIN interrupts' : interrupts'[i] \in asked
          BY <3>1, Zenon DEF TypeOK, BouncedAsked
        <5> QED
          BY <5>1, <5>2
    <3>2. CASE interrupts' = Append(interrupts, on[t]) /\ UNCHANGED ctr
      <4>1. \A i \in DOMAIN interrupts' :
              \/ i \in DOMAIN interrupts /\ interrupts'[i] = interrupts[i]
              \/ interrupts'[i] = on[t]
        BY <2>1, <3>2 DEF TypeOK
      <4> QED
        BY <2>1, <3>2, <4>1 DEF TypeOK, BouncedAsked
    <3> QED
      BY <1>1, <3>1, <3>2 DEF Find
  <2>4. TypeOK'
    BY <2>1, <2>2, <2>3 DEF TypeOK
  <2>5. OneServer' /\ SentOnly'
    BY <2>1, <2>2 DEF OneServer, SentOnly, TypeOK
  <2>6. NotTooEarly'
    <3> SUFFICES ASSUME NEW s \in Threads, pc'[s] = "begin", p = "flag"
                 PROVE  on[s] # on[t]
      BY <2>1, <2>2 DEF NotTooEarly, TypeOK
    <3>1. PICK z \in Threads : pc[z] \in ServingPCs /\ on[z] = on[t]
      BY <2>1, <2>2 DEF Listed
    <3>2. s # t /\ pc[s] = "begin" /\ s # z
      BY <2>2, <3>1 DEF TypeOK
    <3> QED
      BY <3>1, <3>2 DEF OneServer
  <2>7a. Listed'
    BY <2>1, <2>2 DEF Listed, TypeOK
  <2>7b. LockOwner'
    BY <2>1, <2>2 DEF LockOwner, TypeOK
  <2>8. FuncOwner' /\ CalleeIsThere' /\ BouncedAsked'
    BY <2>1, <2>2, <2>3 DEF FuncOwner, CalleeIsThere, BouncedAsked, TypeOK
  <2> QED
    BY <2>4, <2>5, <2>6, <2>7a, <2>7b, <2>8
<1>2. CASE Flag(t)
  <2>1. /\ pc[t] = "flag" /\ on[t] \in Uniques /\ lock[on[t]] = Nobody
        /\ lock' = [lock EXCEPT ![on[t]] = t]
        /\ interrupted' = [interrupted EXCEPT ![on[t]] = TRUE]
        /\ callee' = [callee EXCEPT ![t] = func[on[t]]]
        /\ UNCHANGED <<sent, answered, asked, outbox, list, interrupts, ctr, func, finished, on, bounced>>
    BY <1>2 DEF Flag, Goes, kernelVars, TypeOK
  <2>2. PICK p \in {"unlock", "calling"} : pc' = [pc EXCEPT ![t] = p] /\ (p = "calling" => func[on[t]] # Nobody)
    BY <1>2 DEF Flag, Goes
  <2>3. TypeOK'
    BY <2>1, <2>2 DEF TypeOK
  <2>4a. OneServer' /\ SentOnly'
    BY <2>1, <2>2 DEF OneServer, SentOnly, TypeOK
  <2>4b. NotTooEarly'
    BY <2>1, <2>2 DEF NotTooEarly, TypeOK
  <2>4c. Listed'
    BY <2>1, <2>2 DEF Listed, TypeOK
  <2>5. LockOwner'
    BY <2>1, <2>2 DEF LockOwner, TypeOK
  <2>6. FuncOwner' /\ BouncedAsked'
    BY <2>1, <2>2 DEF FuncOwner, BouncedAsked, TypeOK
  <2>7. CalleeIsThere'
    <3> SUFFICES ASSUME NEW s \in Threads, pc'[s] = "calling"
                 PROVE  /\ callee'[s] \in Threads /\ on[callee'[s]] = on[s]
                        /\ pc'[callee'[s]] \in InsidePCs
      BY <2>1 DEF CalleeIsThere
    <3>1. CASE s = t
      <4>1. func[on[t]] \in Threads /\ callee'[t] = func[on[t]] /\ on[func[on[t]]] = on[t]
            /\ pc[func[on[t]]] \in InsidePCs
        BY <2>1, <2>2, <3>1 DEF FuncOwner, TypeOK
      <4> QED
        BY <2>1, <2>2, <3>1, <4>1 DEF TypeOK
    <3>2. CASE s # t
      BY <2>1, <2>2, <3>2 DEF CalleeIsThere, TypeOK
    <3> QED
      BY <3>1, <3>2
  <2> QED
    BY <2>3, <2>4a, <2>4b, <2>4c, <2>5, <2>6, <2>7
<1>3. CASE Signal(t)
  <2>1. PICK c \in Threads : c = callee[t]
    BY <1>3 DEF Signal, CalleeIsThere
  <2>2. /\ pc[c] = "blocked" /\ pc' = [pc EXCEPT ![c] = "finish"]
        /\ UNCHANGED <<sent, answered, asked, outbox, list, interrupts, ctr, interrupted, func, lock,
                       finished, on, bounced, callee>>
    BY <1>3, <2>1 DEF Signal, kernelVars, reqVars
  <2>3. TypeOK'
    BY <2>2 DEF TypeOK
  <2>4. OneServer' /\ SentOnly' /\ NotTooEarly' /\ Listed'
    BY <2>2 DEF OneServer, SentOnly, NotTooEarly, Listed, TypeOK
  <2>5. LockOwner' /\ FuncOwner' /\ BouncedAsked' /\ CalleeIsThere'
    BY <2>2 DEF LockOwner, FuncOwner, BouncedAsked, CalleeIsThere, TypeOK
  <2> QED
    BY <2>3, <2>4, <2>5
<1>4. CASE SignalEnds(t) \/ UnlockReq(t) \/ DropRef(t)
  <2>1. /\ pc[t] \in InterruptingPCs /\ on[t] \in Uniques
        /\ UNCHANGED <<sent, answered, asked, outbox, list, interrupts, interrupted, func, finished,
                       on, bounced>>
    BY <1>4 DEF SignalEnds, UnlockReq, DropRef, Goes, kernelVars, reqVars, TypeOK
  <2>2. \E p \in {"unlock", "drop", "idle"} :
          /\ pc' = [pc EXCEPT ![t] = p]
          /\ p = "unlock" => (pc[t] = "calling" /\ lock' = lock)
          /\ p = "drop" => pc[t] = "unlock" /\ lock' = [lock EXCEPT ![on[t]] = Nobody]
          /\ p = "idle" => pc[t] = "drop" /\ lock' = lock
    BY <1>4 DEF SignalEnds, UnlockReq, DropRef, Goes, reqVars
  <2>3. callee' = callee \/ callee' = [callee EXCEPT ![t] = Nobody]
    BY <1>4 DEF SignalEnds, UnlockReq, DropRef
  <2>4. ctr' \in [Uniques -> Nat]
    BY <1>4, <2>1 DEF SignalEnds, UnlockReq, DropRef, reqVars, TypeOK
  <2>5. TypeOK'
    BY <2>1, <2>2, <2>3, <2>4 DEF TypeOK
  <2>6. OneServer' /\ SentOnly' /\ NotTooEarly'
    BY <2>1, <2>2 DEF OneServer, SentOnly, NotTooEarly, TypeOK
  <2>7a. Listed'
    BY <2>1, <2>2 DEF Listed, TypeOK
  <2>7b. FuncOwner'
    BY <2>1, <2>2 DEF FuncOwner, TypeOK
  <2>7c. BouncedAsked'
    BY <2>1, <2>2 DEF BouncedAsked, TypeOK
  <2>8. LockOwner'
    BY <2>1, <2>2 DEF LockOwner, TypeOK
  <2>9. CalleeIsThere'
    BY <2>1, <2>2, <2>3 DEF CalleeIsThere, TypeOK
  <2> QED
    BY <2>5, <2>6, <2>7a, <2>7b, <2>7c, <2>8, <2>9
<1> QED
  BY <1>1, <1>2, <1>3, <1>4 DEF InterruptStep
-----------------------------------------------------------------------------
(* What the changes of the queue do to its elements.                        *)
Distinct(q) == \A i, j \in DOMAIN q : q[i] = q[j] => i = j

Elements(q) == {q[i] : i \in DOMAIN q}

LEMMA RemoveAtElements ==
  ASSUME NEW S, NEW q \in Seq(S), NEW i \in DOMAIN q, Distinct(q)
  PROVE  Elements(RemoveAt(q, i)) = Elements(q) \ {q[i]} /\ Distinct(RemoveAt(q, i))
<1>0. PICK n \in Nat : n = Len(q) /\ DOMAIN q = 1..n
  OBVIOUS
<1>1. i \in 1..Len(q)
  BY <1>0
<1> DEFINE r == RemoveAt(q, i)
           m(k) == IF k < i THEN k ELSE k + 1
<1>2. /\ r \in Seq(S) /\ Len(r) = Len(q) - 1
      /\ \A k \in 1..(Len(q) - 1) : r[k] = q[IF k < i THEN k ELSE k + 1]
  BY <1>1, RemoveAtLemma
<1> HIDE DEF r
<1>3. DOMAIN r = 1..(n - 1) /\ \A k \in 1..(n - 1) : r[k] = q[m(k)]
  BY <1>0, <1>2
<1>4. \A k \in 1..(n - 1) : m(k) \in 1..n /\ m(k) # i
  BY <1>0
<1>5. \A k, l \in 1..(n - 1) : m(k) = m(l) => k = l
  BY <1>0
<1>6. ASSUME NEW j \in 1..n, j # i
      PROVE  \E k \in 1..(n - 1) : m(k) = j
  <2>1. CASE j < i
    <3>1. j \in 1..(n - 1) /\ m(j) = j
      BY <1>0, <2>1
    <3> QED
      BY <3>1
  <2>2. CASE ~(j < i)
    <3>1. j - 1 \in 1..(n - 1) /\ m(j - 1) = j
      BY <1>0, <1>6, <2>2
    <3> QED
      BY <3>1
  <2> QED
    BY <2>1, <2>2
<1> HIDE DEF m
<1>7. Distinct(r)
  BY <1>0, <1>3, <1>4, <1>5 DEF Distinct
<1>8. ASSUME NEW x PROVE x \in Elements(r) => x \in Elements(q) \ {q[i]}
  BY <1>0, <1>3, <1>4 DEF Distinct, Elements
<1>9. ASSUME NEW x PROVE x \in Elements(q) \ {q[i]} => x \in Elements(r)
  <2> SUFFICES ASSUME NEW j \in 1..n, x = q[j], j # i PROVE x \in Elements(r)
    BY <1>0 DEF Elements
  <2>1. PICK k \in 1..(n - 1) : m(k) = j
    BY <1>6
  <2> QED
    BY <1>3, <2>1 DEF Elements
<1> QED
  BY <1>7, <1>8, <1>9 DEF r

LEMMA TailElements ==
  ASSUME NEW S, NEW q \in Seq(S), q # << >>, Distinct(q)
  PROVE  Elements(Tail(q)) = Elements(q) \ {Head(q)} /\ Distinct(Tail(q))
<1>0. PICK n \in Nat : n = Len(q) /\ DOMAIN q = 1..n
  OBVIOUS
<1>1. n >= 1 /\ Head(q) = q[1]
  BY <1>0
<1> DEFINE r == Tail(q)
<1>2. DOMAIN r = 1..(n - 1) /\ \A k \in 1..(n - 1) : r[k] = q[k + 1]
  BY <1>0, <1>1
<1> HIDE DEF r
<1>3. Distinct(r)
  BY <1>0, <1>2 DEF Distinct
<1>4. ASSUME NEW x PROVE x \in Elements(r) => x \in Elements(q) \ {q[1]}
  BY <1>0, <1>1, <1>2 DEF Distinct, Elements
<1>5. ASSUME NEW x PROVE x \in Elements(q) \ {q[1]} => x \in Elements(r)
  <2> SUFFICES ASSUME NEW j \in 1..n, x = q[j], j # 1 PROVE x \in Elements(r)
    BY <1>0 DEF Elements
  <2>1. j - 1 \in 1..(n - 1) /\ q[(j - 1) + 1] = x
    BY <1>0
  <2>2. r[j - 1] = x
    BY <1>2, <2>1
  <2> QED
    BY <1>2, <2>1, <2>2 DEF Elements
<1> QED
  BY <1>1, <1>3, <1>4, <1>5 DEF r

LEMMA AppendElements ==
  ASSUME NEW S, NEW q \in Seq(S), NEW e \in S
  PROVE  /\ Elements(Append(q, e)) = Elements(q) \cup {e}
         /\ Distinct(q) /\ e \notin Elements(q) => Distinct(Append(q, e))
<1>0. PICK n \in Nat : n = Len(q) /\ DOMAIN q = 1..n
  OBVIOUS
<1> DEFINE r == Append(q, e)
<1>1. DOMAIN r = 1..(n + 1) /\ r[n + 1] = e /\ \A k \in 1..n : r[k] = q[k]
  BY <1>0
<1> HIDE DEF r
<1>2. Distinct(q) /\ e \notin Elements(q) => Distinct(r)
  BY <1>0, <1>1 DEF Distinct, Elements
<1>3. ASSUME NEW x PROVE x \in Elements(r) => x \in Elements(q) \cup {e}
  BY <1>0, <1>1 DEF Elements
<1>4. ASSUME NEW x PROVE x \in Elements(q) \cup {e} => x \in Elements(r)
  <2>1. CASE x = e
    <3>1. n + 1 \in DOMAIN r
      BY <1>0, <1>1
    <3> QED
      BY <1>1, <2>1, <3>1 DEF Elements
  <2>2. CASE x \in Elements(q)
    <3>1. PICK j \in 1..n : x = q[j]
      BY <1>0, <2>2 DEF Elements
    <3>2. j \in DOMAIN r /\ r[j] = x
      BY <1>0, <1>1, <3>1
    <3> QED
      BY <3>2 DEF Elements
  <2> QED
    BY <2>1, <2>2
<1> QED
  BY <1>2, <1>3, <1>4 DEF r

LEMMA ParkedElements == \A u : Parked(u) <=> u \in Elements(interrupts)
BY DEF Parked, Elements

-----------------------------------------------------------------------------
(* The counter.                                                             *)

LEMMA UsersFinite ==
  \A u : IsFiniteSet(Users(u)) /\ Cardinality(Users(u)) \in Nat
<1> TAKE u
<1>1. Users(u) \subseteq Threads
  BY DEF Users
<1> QED
  BY <1>1, FS_Subset, FS_CardinalityType, InterruptsAssumption

LEMMA CounterPositive ==
  ASSUME CounterIsUsers, NEW u \in Uniques, NEW t \in Users(u)
  PROVE  ctr[u] > 0
<1>1. Cardinality(Users(u)) # 0
  BY UsersFinite, FS_EmptySet
<1> QED
  BY <1>1, UsersFinite DEF CounterIsUsers

(* A step of thread t counts right if it counts t itself right.             *)
LEMMA CountingStep ==
  ASSUME CounterIsUsers, NEW t \in Threads,
         \A s \in Threads \ {t} : pc'[s] = pc[s] /\ on'[s] = on[s],
         \A u \in Uniques :
           ctr'[u] = ctr[u] + (IF t \in Users(u)' THEN 1 ELSE 0) - (IF t \in Users(u) THEN 1 ELSE 0)
  PROVE  CounterIsUsers'
<1> SUFFICES ASSUME NEW u \in Uniques PROVE ctr'[u] = Cardinality(Users(u)')
  BY DEF CounterIsUsers
<1>1. \A s \in Threads \ {t} : s \in Users(u) <=> s \in Users(u)'
  BY DEF Users
<1>2. Users(u) \subseteq Threads /\ Users(u)' \subseteq Threads
  BY DEF Users
<1>3. ctr[u] = Cardinality(Users(u)) /\ IsFiniteSet(Users(u)) /\ Cardinality(Users(u)) \in Nat
  BY UsersFinite DEF CounterIsUsers
<1>4. CASE (t \in Users(u)) <=> (t \in Users(u)')
  <2>1. Users(u)' = Users(u)
    BY <1>1, <1>2, <1>4
  <2> QED
    BY <1>3, <1>4, <2>1
<1>5. CASE t \in Users(u) /\ t \notin Users(u)'
  <2>1. Users(u)' = Users(u) \ {t}
    BY <1>1, <1>2, <1>5
  <2>2. Cardinality(Users(u) \ {t}) = Cardinality(Users(u)) - 1
    BY <1>3, <1>5, FS_RemoveElement
  <2> QED
    BY <1>3, <1>5, <2>1, <2>2
<1>6. CASE t \notin Users(u) /\ t \in Users(u)'
  <2>1. Users(u)' = Users(u) \cup {t}
    BY <1>1, <1>2, <1>6
  <2>2. Cardinality(Users(u) \cup {t}) = Cardinality(Users(u)) + 1
    BY <1>3, <1>6, FS_AddElement
  <2> QED
    BY <1>3, <1>6, <2>1, <2>2
<1> QED
  BY <1>4, <1>5, <1>6

LEMMA CounterInv ==
  ASSUME ThreadInv, CounterIsUsers, NEW t \in Threads,
         KernelStep(t) \/ ServeStep(t) \/ InterruptStep(t)
  PROVE  CounterIsUsers'
<1> USE InterruptsAssumption DEF ThreadInv
<1>0. ctr \in [Uniques -> Nat] /\ pc \in [Threads -> PCs] /\ on \in [Threads -> Uniques]
  BY DEF TypeOK
<1>1. CASE KernelStep(t)
  <2>1. /\ pc[t] = "idle" /\ ctr' = ctr
        /\ pc' = [pc EXCEPT ![t] = "begin"] \/ pc' = [pc EXCEPT ![t] = "find"]
        /\ \E u \in Uniques : on' = [on EXCEPT ![t] = u]
    BY <1>1 DEF KernelStep, SendRequest, SendInterrupt, Goes, reqVars, TypeOK
  <2>2. \A s \in Threads \ {t} : pc'[s] = pc[s] /\ on'[s] = on[s]
    BY <1>0, <2>1
  <2>3. \A u : t \notin Users(u) /\ t \notin Users(u)'
    BY <1>0, <2>1 DEF Users
  <2> QED
    BY <1>0, <2>1, <2>2, <2>3, CountingStep
<1>2. CASE Begin(t)
  <2>1. /\ pc[t] = "begin" /\ on' = on /\ ctr' = [ctr EXCEPT ![on[t]] = 1]
        /\ pc' = [pc EXCEPT ![t] = "prepare"] \/ pc' = [pc EXCEPT ![t] = "again"]
    BY <1>2 DEF Begin, Goes
  <2>2. \A s \in Threads \ {t} : pc'[s] = pc[s] /\ on'[s] = on[s]
    BY <1>0, <2>1
  <2>3. Users(on[t]) = {}
    BY <2>1 DEF Users, OneServer, NotTooEarly
  <2>4. ctr[on[t]] = 0
    BY <1>0, <2>3, FS_EmptySet DEF CounterIsUsers
  <2>5. \A u \in Uniques : t \notin Users(u) /\ (t \in Users(u)' <=> u = on[t])
    BY <1>0, <2>1 DEF Users
  <2> QED
    BY <1>0, <2>1, <2>2, <2>4, <2>5, CountingStep
<1>3. CASE Bounce(t) \/ Refuse(t) \/ Prepare(t) \/ CallBlocks(t) \/ CallReturns(t) \/ SetFinished(t)
             \/ Unregister(t) \/ Reply(t)
  <2>1. /\ pc[t] \in ServingPCs /\ on' = on /\ ctr' = ctr
        /\ \E p \in ServingPCs : pc' = [pc EXCEPT ![t] = p]
    BY <1>3 DEF Bounce, Refuse, Prepare, CallBlocks, CallReturns, SetFinished, Unregister, Reply, Goes, reqVars
  <2>2. \A s \in Threads \ {t} : pc'[s] = pc[s] /\ on'[s] = on[s]
    BY <1>0, <2>1
  <2>3. \A u : t \in Users(u) <=> t \in Users(u)'
    BY <1>0, <2>1 DEF Users
  <2> QED
    BY <1>0, <2>1, <2>2, <2>3, CountingStep
<1>4. CASE FreeReq(t) \/ DropRef(t)
  <2>1. /\ pc[t] \in {"free", "drop"} /\ on' = on /\ pc' = [pc EXCEPT ![t] = "idle"]
        /\ ctr' = [ctr EXCEPT ![on[t]] = @ - 1]
    BY <1>4 DEF FreeReq, DropRef, Goes
  <2>2. \A s \in Threads \ {t} : pc'[s] = pc[s] /\ on'[s] = on[s]
    BY <1>0, <2>1
  <2>3. \A u \in Uniques : t \notin Users(u)' /\ (t \in Users(u) <=> u = on[t])
    BY <1>0, <2>1 DEF Users
  <2> QED
    BY <1>0, <2>1, <2>2, <2>3, CountingStep
<1>5. CASE Find(t)
  <2>1. pc[t] = "find" /\ on' = on
    BY <1>5 DEF Find, Goes
  <2>2. CASE pc' = [pc EXCEPT ![t] = "flag"] /\ ctr' = [ctr EXCEPT ![on[t]] = @ + 1]
    <3>1. \A s \in Threads \ {t} : pc'[s] = pc[s] /\ on'[s] = on[s]
      BY <1>0, <2>1, <2>2
    <3>2. \A u \in Uniques : t \notin Users(u) /\ (t \in Users(u)' <=> u = on[t])
      BY <1>0, <2>1, <2>2 DEF Users
    <3> QED
      BY <1>0, <2>2, <3>1, <3>2, CountingStep
  <2>3. CASE pc' = [pc EXCEPT ![t] = "idle"] /\ ctr' = ctr
    <3>1. \A s \in Threads \ {t} : pc'[s] = pc[s] /\ on'[s] = on[s]
      BY <1>0, <2>1, <2>3
    <3>2. \A u : t \notin Users(u) /\ t \notin Users(u)'
      BY <1>0, <2>1, <2>3 DEF Users
    <3> QED
      BY <1>0, <2>3, <3>1, <3>2, CountingStep
  <2> QED
    BY <1>5, <2>2, <2>3 DEF Find, Goes
<1>6. CASE Flag(t) \/ SignalEnds(t) \/ UnlockReq(t)
  <2>1. /\ pc[t] \in InterruptingPCs /\ on' = on /\ ctr' = ctr
        /\ \E p \in InterruptingPCs : pc' = [pc EXCEPT ![t] = p]
    BY <1>6 DEF Flag, SignalEnds, UnlockReq, Goes, reqVars
  <2>2. \A s \in Threads \ {t} : pc'[s] = pc[s] /\ on'[s] = on[s]
    BY <1>0, <2>1
  <2>3. \A u : t \in Users(u) <=> t \in Users(u)'
    BY <1>0, <2>1 DEF Users
  <2>4. \A u \in Uniques :
          ctr'[u] = ctr[u] + (IF t \in Users(u)' THEN 1 ELSE 0) - (IF t \in Users(u) THEN 1 ELSE 0)
    BY <1>0, <2>1, <2>3
  <2> QED
    BY <2>2, <2>4, CountingStep
<1>7. CASE Signal(t)
  <2>0. PICK c \in Threads : c = callee[t]
    BY <1>7 DEF Signal, CalleeIsThere
  <2>1. pc[c] = "blocked" /\ on' = on /\ ctr' = ctr /\ pc' = [pc EXCEPT ![c] = "finish"]
    BY <1>7, <2>0 DEF Signal, reqVars
  <2>2. \A s \in Threads \ {c} : pc'[s] = pc[s] /\ on'[s] = on[s]
    BY <1>0, <2>1
  <2>3. \A u : c \in Users(u) <=> c \in Users(u)'
    BY <1>0, <2>1 DEF Users
  <2> QED
    BY <1>0, <2>1, <2>2, <2>3, CountingStep
<1> QED
  BY <1>1, <1>2, <1>3, <1>4, <1>5, <1>6, <1>7 DEF ServeStep, InterruptStep
-----------------------------------------------------------------------------
(* Where INTERRUPTs are.                                                    *)

LEMMA ParkedNotListedElements ==
  ParkedNotListed <=> list \cap Elements(interrupts) = {} /\ Distinct(interrupts)
BY DEF ParkedNotListed, Parked, Elements, Distinct, TypeOK

(* A step changes the queue by removing the INTERRUPT for a request that is *)
(* listed, by taking out the oldest, or by adding one that is not there.    *)
LEMMA ParkedInv ==
  ASSUME ThreadInv, ParkedNotListed, Next
  PROVE  ParkedNotListed'
<1> USE InterruptsAssumption
<1>0. interrupts \in Seq(Uniques) /\ Distinct(interrupts) /\ list \cap Elements(interrupts) = {}
  BY ParkedNotListedElements DEF ThreadInv, TypeOK
<1> SUFFICES list' \cap Elements(interrupts)' = {} /\ Distinct(interrupts)'
  BY DEF ParkedNotListed, Parked, Elements, Distinct
<1>1. CASE UNCHANGED <<list, interrupts>>
  BY <1>0, <1>1 DEF Elements, Distinct
<1>2. ASSUME NEW t \in Threads, Begin(t)
      PROVE  list' \cap Elements(interrupts)' = {} /\ Distinct(interrupts)'
  <2>1. list' = list \cup {on[t]}
    BY <1>2 DEF Begin
  <2>2. ASSUME NEW i \in DOMAIN interrupts, interrupts[i] = on[t],
               interrupts' = RemoveAt(interrupts, i)
        PROVE  list' \cap Elements(interrupts)' = {} /\ Distinct(interrupts)'
    <3>1. /\ Elements(RemoveAt(interrupts, i)) = Elements(interrupts) \ {on[t]}
          /\ Distinct(RemoveAt(interrupts, i))
      BY <1>0, <2>2, RemoveAtElements
    <3>2. Elements(interrupts)' = Elements(interrupts) \ {on[t]} /\ Distinct(interrupts)'
      BY <2>2, <3>1 DEF Elements, Distinct
    <3> QED
      BY <1>0, <2>1, <3>2
  <2>3. CASE interrupts # << >> /\ ~Parked(on[t]) /\ interrupts' = Tail(interrupts)
    <3>1. /\ Elements(Tail(interrupts)) = Elements(interrupts) \ {Head(interrupts)}
          /\ Distinct(Tail(interrupts))
      BY <1>0, <2>3, TailElements
    <3>2. /\ Elements(interrupts)' = Elements(interrupts) \ {Head(interrupts)}
          /\ Distinct(interrupts)'
      BY <2>3, <3>1 DEF Elements, Distinct
    <3> QED
      BY <1>0, <2>1, <2>3, <3>2, ParkedElements
  <2>4. CASE interrupts = << >> /\ interrupts' = interrupts
    <3>1. Elements(interrupts)' = {} /\ Distinct(interrupts)'
      BY <2>4 DEF Elements, Distinct
    <3> QED
      BY <3>1
  <2> QED
    BY <1>2, <2>2, <2>3, <2>4 DEF Begin
<1>3. ASSUME NEW t \in Threads, FreeReq(t)
      PROVE  list' \cap Elements(interrupts)' = {} /\ Distinct(interrupts)'
  <2>1. list' \subseteq list /\ interrupts' = interrupts
    BY <1>3 DEF FreeReq
  <2>2. Elements(interrupts)' = Elements(interrupts) /\ Distinct(interrupts)' 
    BY <1>0, <2>1 DEF Elements, Distinct
  <2> QED
    BY <1>0, <2>1, <2>2
<1>4. ASSUME NEW t \in Threads, on[t] \notin list, ~Parked(on[t]), list' = list,
             interrupts' = Append(interrupts, on[t])
      PROVE  list' \cap Elements(interrupts)' = {} /\ Distinct(interrupts)'
  <2>0. on[t] \in Uniques /\ on[t] \notin Elements(interrupts)
    BY <1>4, ParkedElements DEF ThreadInv, TypeOK
  <2>1. /\ Elements(Append(interrupts, on[t])) = Elements(interrupts) \cup {on[t]}
        /\ Distinct(Append(interrupts, on[t]))
    BY <1>0, <2>0, AppendElements
  <2>2. Elements(interrupts)' = Elements(interrupts) \cup {on[t]} /\ Distinct(interrupts)'
    BY <1>4, <2>1 DEF Elements, Distinct
  <2> QED
    BY <1>0, <1>4, <2>2
<1>5. ASSUME NEW t \in Threads, KernelStep(t) \/ ServeStep(t) \/ InterruptStep(t)
      PROVE  \/ UNCHANGED <<list, interrupts>> \/ Begin(t) \/ FreeReq(t)
             \/ /\ on[t] \notin list /\ ~Parked(on[t]) /\ list' = list
                /\ interrupts' = Append(interrupts, on[t])
  <2>1. CASE KernelStep(t)
    BY <2>1 DEF KernelStep, SendRequest, SendInterrupt, reqVars
  <2>2. CASE ServeStep(t)
    BY <2>2 DEF ServeStep, Bounce, Refuse, Prepare, CallBlocks, CallReturns, SetFinished, Unregister, Reply, reqVars
  <2>3. CASE InterruptStep(t)
    BY <2>3 DEF InterruptStep, Find, Flag, Signal, SignalEnds, UnlockReq, DropRef, reqVars
  <2> QED
    BY <1>5, <2>1, <2>2, <2>3
<1>6. CASE AskInterrupt
  BY <1>1, <1>6 DEF AskInterrupt, reqVars
<1>7. CASE \E t \in Threads : KernelStep(t) \/ ServeStep(t) \/ InterruptStep(t)
  BY <1>1, <1>2, <1>3, <1>4, <1>5, <1>7
<1> QED
  BY <1>6, <1>7 DEF Next

(* Where the wish to interrupt u is.                                        *)
Kept(u) ==
  \/ u \in outbox \/ Parked(u) \/ interrupted[u]
  \/ \E t \in Threads : \/ on[t] = u /\ pc[t] \in {"find", "flag"}
                        \/ bounced[t] = u /\ pc[t] = "again"

LEMMA KeptKernel ==
  ASSUME ThreadInv, NEW t \in Threads, KernelStep(t) \/ AskInterrupt, NEW u, u \in asked' \ answered',
         u \in asked => Kept(u)
  PROVE  Kept(u)'
<1>0. pc \in [Threads -> PCs] /\ on \in [Threads -> Uniques]
  BY DEF ThreadInv, TypeOK
<1>1. interrupted' = interrupted /\ bounced' = bounced /\ (Parked(u)' <=> Parked(u))
  BY DEF KernelStep, SendRequest, SendInterrupt, AskInterrupt, reqVars, Parked
<1>2. CASE AskInterrupt
  <2>1. PICK v : asked' = asked \cup {v} /\ outbox' = outbox \cup {v} /\ UNCHANGED <<pc, on>>
    BY <1>2 DEF AskInterrupt
  <2> QED
    BY <1>1, <2>1 DEF Kept
<1>3. CASE SendRequest(t)
  <2>1. /\ asked' = asked /\ outbox' = outbox /\ pc[t] = "idle" /\ pc'[t] = "begin"
        /\ \A s \in Threads \ {t} : pc'[s] = pc[s] /\ on'[s] = on[s]
    BY <1>0, <1>3 DEF SendRequest, Goes
  <2> QED
    BY <1>1, <2>1 DEF Kept
<1>4. CASE SendInterrupt(t)
  <2>1. PICK v \in outbox : outbox' = outbox \ {v} /\ on' = [on EXCEPT ![t] = v]
    BY <1>4 DEF SendInterrupt
  <2>2. /\ asked' = asked /\ pc[t] = "idle" /\ pc'[t] = "find" /\ on'[t] = v
        /\ \A s \in Threads \ {t} : pc'[s] = pc[s] /\ on'[s] = on[s]
    BY <1>0, <1>4, <2>1 DEF SendInterrupt, Goes
  <2> QED
    BY <1>1, <2>1, <2>2 DEF Kept
<1> QED
  BY <1>2, <1>3, <1>4 DEF KernelStep

(* Steps that leave the queue, the kernel's wishes and the flags alone.     *)
LEMMA KeptAlong ==
  ASSUME ThreadInv, NEW t \in Threads, NEW u, Kept(u),
         UNCHANGED <<outbox, interrupts, interrupted, on, bounced>>,
         pc[t] \notin {"find", "flag", "again"},
         \A s \in Threads \ {t} : pc'[s] = pc[s]
  PROVE  Kept(u)'
BY DEF Kept, Parked

LEMMA KeptServe ==
  ASSUME ThreadInv, ParkedNotListed, NEW t \in Threads, ServeStep(t), NEW u, u \in asked \ answered',
         Kept(u)
  PROVE  Kept(u)'
<1>0. /\ pc \in [Threads -> PCs] /\ on \in [Threads -> Uniques] /\ bounced \in [Threads -> Uniques]
      /\ interrupted \in [Uniques -> BOOLEAN] /\ u \in Uniques
      /\ interrupts \in Seq(Uniques) /\ Distinct(interrupts)
  BY ParkedNotListedElements DEF ThreadInv, TypeOK
<1>1. CASE Begin(t)
  <2>1. /\ outbox' = outbox /\ on' = on /\ pc[t] = "begin"
        /\ \A s \in Threads \ {t} : pc'[s] = pc[s]
    BY <1>0, <1>1 DEF Begin, Goes, kernelVars
  <2>2. ASSUME NEW i \in DOMAIN interrupts, interrupts[i] = on[t],
               interrupts' = RemoveAt(interrupts, i),
               interrupted' = [interrupted EXCEPT ![on[t]] = TRUE], bounced' = bounced
        PROVE  Kept(u)'
    <3>1. Elements(RemoveAt(interrupts, i)) = Elements(interrupts) \ {on[t]}
      BY <1>0, <2>2, RemoveAtElements
    <3>2. Parked(u) /\ u # on[t] => Parked(u)'
      BY <2>2, <3>1, ParkedElements DEF Elements, Parked
    <3>3. interrupted'[on[t]] /\ (interrupted[u] => interrupted'[u])
      BY <1>0, <2>2
    <3> QED
      BY <2>1, <2>2, <3>2, <3>3 DEF Kept
  <2>3. CASE /\ interrupts # << >> /\ interrupts' = Tail(interrupts) /\ pc'[t] = "again"
             /\ bounced' = [bounced EXCEPT ![t] = Head(interrupts)] /\ interrupted' = interrupted
    <3>1. Elements(Tail(interrupts)) = Elements(interrupts) \ {Head(interrupts)}
      BY <1>0, <2>3, TailElements
    <3>2. Parked(u) /\ u # Head(interrupts) => Parked(u)'
      <4>1. Parked(u) /\ u # Head(interrupts) => u \in Elements(interrupts')
        BY <2>3, <3>1, ParkedElements
      <4> QED
        BY <4>1 DEF Elements, Parked
    <3>3. bounced'[t] = Head(interrupts) /\ \A s \in Threads \ {t} : bounced'[s] = bounced[s]
      BY <1>0, <2>3
    <3>4. CASE u = Head(interrupts)
      BY <2>3, <3>3, <3>4 DEF Kept
    <3>5. CASE u # Head(interrupts)
      BY <2>1, <2>3, <3>2, <3>3, <3>5 DEF Kept
    <3> QED
      BY <3>4, <3>5
  <2>4. CASE UNCHANGED <<interrupts, interrupted, bounced>>
    BY <2>1, <2>4, KeptAlong
  <2> QED
    BY <1>0, <1>1, <2>2, <2>3, <2>4 DEF Begin, Goes
<1>2. CASE Bounce(t)
  <2>1. /\ UNCHANGED <<interrupts, interrupted, on, bounced>> /\ pc[t] = "again"
        /\ \A s \in Threads \ {t} : pc'[s] = pc[s]
        /\ answered' = answered
    BY <1>0, <1>2 DEF Bounce, Goes, reqVars
  <2>2. outbox \subseteq outbox' /\ (u = bounced[t] => u \in outbox')
    BY <1>2, <2>1 DEF Bounce
  <2> QED
    BY <2>1, <2>2 DEF Kept, Parked
<1>3. CASE Reply(t)
  <2>1. /\ UNCHANGED <<interrupts, interrupted, on, bounced>> /\ pc[t] = "reply"
        /\ \A s \in Threads \ {t} : pc'[s] = pc[s]
        /\ u # on[t] /\ outbox' = outbox \ {on[t]}
    BY <1>0, <1>3 DEF Reply, Goes, reqVars
  <2> QED
    BY <2>1 DEF Kept, Parked
<1>4. CASE \/ Refuse(t) \/ Prepare(t) \/ CallBlocks(t) \/ CallReturns(t) \/ SetFinished(t)
            \/ Unregister(t) \/ FreeReq(t)
  <2>1. /\ UNCHANGED <<outbox, interrupts, interrupted, on, bounced>>
        /\ pc[t] \notin {"find", "flag", "again"}
        /\ \A s \in Threads \ {t} : pc'[s] = pc[s]
    BY <1>0, <1>4 DEF Refuse, Prepare, CallBlocks, CallReturns, SetFinished, Unregister, FreeReq, Goes,
                      kernelVars, reqVars
  <2> QED
    BY <2>1, KeptAlong
<1> QED
  BY <1>1, <1>2, <1>3, <1>4 DEF ServeStep

LEMMA KeptInterrupt ==
  ASSUME ThreadInv, NEW t \in Threads, InterruptStep(t), NEW u \in Uniques, Kept(u)
  PROVE  Kept(u)'
<1>0. /\ pc \in [Threads -> PCs] /\ on \in [Threads -> Uniques]
      /\ interrupted \in [Uniques -> BOOLEAN] /\ interrupts \in Seq(Uniques)
  BY DEF ThreadInv, TypeOK
<1>1. CASE Find(t)
  <2>1. /\ UNCHANGED <<outbox, interrupted, on, bounced>> /\ pc[t] = "find"
        /\ \A s \in Threads \ {t} : pc'[s] = pc[s]
    BY <1>0, <1>1 DEF Find, Goes, kernelVars
  <2>2. CASE pc' = [pc EXCEPT ![t] = "flag"] /\ interrupts' = interrupts
    <3>1. pc'[t] = "flag"
      BY <1>0, <2>2
    <3> QED
      BY <2>1, <2>2, <3>1 DEF Kept, Parked
  <2>3. CASE Parked(on[t]) /\ interrupts' = interrupts
    BY <2>1, <2>3 DEF Kept, Parked
  <2>4. CASE interrupts' = Append(interrupts, on[t])
    <3>1. Elements(Append(interrupts, on[t])) = Elements(interrupts) \cup {on[t]}
      BY <1>0, AppendElements
    <3>2. Parked(on[t])' /\ (Parked(u) => Parked(u)')
      BY <2>1, <2>4, <3>1 DEF Elements, Parked
    <3> QED
      BY <2>1, <3>2 DEF Kept
  <2> QED
    BY <1>1, <2>2, <2>3, <2>4 DEF Find, Goes
<1>2. CASE Flag(t)
  <2>1. /\ UNCHANGED <<outbox, interrupts, on, bounced>> /\ pc[t] = "flag"
        /\ \A s \in Threads \ {t} : pc'[s] = pc[s]
        /\ interrupted'[on[t]] /\ (interrupted[u] => interrupted'[u])
    BY <1>0, <1>2 DEF Flag, Goes, kernelVars
  <2> QED
    BY <2>1 DEF Kept, Parked
<1>3. CASE Signal(t)
  <2>1. PICK c \in Threads : c = callee[t]
    BY <1>3 DEF Signal, ThreadInv, CalleeIsThere
  <2>2. /\ UNCHANGED <<outbox, interrupts, interrupted, on, bounced>> /\ pc[c] = "blocked"
        /\ \A s \in Threads \ {c} : pc'[s] = pc[s]
    BY <1>0, <1>3, <2>1 DEF Signal, kernelVars, reqVars
  <2> QED
    BY <2>2, KeptAlong
<1>4. CASE SignalEnds(t) \/ UnlockReq(t) \/ DropRef(t)
  <2>1. /\ UNCHANGED <<outbox, interrupts, interrupted, on, bounced>>
        /\ pc[t] \notin {"find", "flag", "again"}
        /\ \A s \in Threads \ {t} : pc'[s] = pc[s]
    BY <1>0, <1>4 DEF SignalEnds, UnlockReq, DropRef, Goes, kernelVars, reqVars
  <2> QED
    BY <2>1, KeptAlong
<1> QED
  BY <1>1, <1>2, <1>3, <1>4 DEF InterruptStep

LEMMA KeptInv ==
  ASSUME ThreadInv, ParkedNotListed, InterruptKept, Next
  PROVE  InterruptKept'
<1>1. \A u \in asked \ answered : Kept(u)
  BY DEF InterruptKept, Kept
<1> SUFFICES ASSUME NEW u \in asked' \ answered' PROVE Kept(u)'
  BY DEF InterruptKept, Kept
<1>2. answered \subseteq answered'
  BY DEF Next, AskInterrupt, KernelStep, SendRequest, SendInterrupt, ServeStep, Begin, Bounce, Refuse, Prepare,
         CallBlocks, CallReturns, SetFinished, Unregister, Reply, FreeReq, InterruptStep, Find, Flag,
         Signal, SignalEnds, UnlockReq, DropRef, kernelVars
<1>3. ASSUME NEW t \in Threads, KernelStep(t) PROVE Kept(u)'
  BY <1>1, <1>2, <1>3, KeptKernel
<1>4. CASE AskInterrupt
  <2>1. CASE Threads = {}
    <3>1. PICK v : outbox' = outbox \cup {v} /\ asked' = asked \cup {v} /\ UNCHANGED <<reqVars, pc, on, bounced>>
      BY <1>4 DEF AskInterrupt
    <3> QED
      BY <1>1, <1>2, <2>1, <3>1 DEF Kept, Parked, reqVars
  <2>2. CASE Threads # {}
    BY <1>1, <1>2, <1>4, <2>2, KeptKernel
  <2> QED
    BY <2>1, <2>2
<1>5. ASSUME NEW t \in Threads, ServeStep(t) PROVE Kept(u)'
  <2>1. asked' = asked
    BY <1>5 DEF ServeStep, Begin, Bounce, Refuse, Prepare, CallBlocks, CallReturns, SetFinished, Unregister,
         Reply, FreeReq, kernelVars
  <2> QED
    BY <1>1, <1>2, <1>5, <2>1, KeptServe
<1>6. ASSUME NEW t \in Threads, InterruptStep(t) PROVE Kept(u)'
  <2>1. asked' = asked
    BY <1>6 DEF InterruptStep, Find, Flag, Signal, SignalEnds, UnlockReq, DropRef, kernelVars
  <2>2. u \in Uniques
    BY <2>1 DEF ThreadInv, TypeOK
  <2> QED
    BY <1>1, <1>2, <1>6, <2>1, <2>2, KeptInterrupt
<1> QED
  BY <1>3, <1>4, <1>5, <1>6 DEF Next

-----------------------------------------------------------------------------
(* The invariant and the theorems.                                          *)

IInv == ThreadInv /\ CounterIsUsers /\ ParkedNotListed /\ InterruptKept

LEMMA IInvInit == Init => IInv
<1> SUFFICES ASSUME Init PROVE IInv
  OBVIOUS
<1>1. \A u : Users(u) = {}
  BY DEF Init, Users
<1>2. CounterIsUsers
  BY <1>1, FS_EmptySet DEF CounterIsUsers, Init
<1>3. ParkedNotListed /\ InterruptKept
  BY DEF Init, ParkedNotListed, InterruptKept
<1> QED
  BY <1>2, <1>3, ThreadInvInit DEF IInv

LEMMA ThreadInvNext == IInv /\ Next => ThreadInv'
<1> SUFFICES ASSUME IInv, Next PROVE ThreadInv'
  OBVIOUS
<1>0. ThreadInv /\ CounterIsUsers
  BY DEF IInv
<1>1. ASSUME NEW t \in Threads, pc[t] \in {"free", "drop"} PROVE ctr[on[t]] > 0
  <2>1. on[t] \in Uniques /\ t \in Users(on[t])
    BY <1>0, <1>1 DEF Users, ThreadInv, TypeOK
  <2> QED
    BY <1>0, <2>1, CounterPositive
<1>2. CASE AskInterrupt
  BY <1>0, <1>2, InterruptsAssumption
     DEF AskInterrupt, reqVars, ThreadInv, TypeOK, OneServer, SentOnly, NotTooEarly, Listed, LockOwner,
         FuncOwner, BouncedAsked, CalleeIsThere
<1>3. ASSUME NEW t \in Threads, KernelStep(t) PROVE ThreadInv'
  BY <1>0, <1>3, KernelInv
<1>4. ASSUME NEW t \in Threads, ServeStep(t) PROVE ThreadInv'
  <2>1. CASE Begin(t)
    BY <1>0, <2>1, BeginInv
  <2>2. CASE FreeReq(t)
    BY <1>0, <1>1, <2>2, FreeReqInv DEF FreeReq, Goes
  <2> QED
    BY <1>0, <1>4, <2>1, <2>2, ServeMoveInv DEF ServeStep
<1>5. ASSUME NEW t \in Threads, InterruptStep(t) PROVE ThreadInv'
  <2>1. DropRef(t) => ctr[on[t]] > 0
    BY <1>1 DEF DropRef, Goes
  <2> QED
    BY <1>0, <1>5, <2>1, InterruptStepInv
<1> QED
  BY <1>2, <1>3, <1>4, <1>5 DEF Next

LEMMA IInvNext == IInv /\ [Next]_vars => IInv'
<1> SUFFICES ASSUME IInv, [Next]_vars PROVE IInv'
  OBVIOUS
<1>1. CASE UNCHANGED vars
  BY <1>1 DEF vars, kernelVars, reqVars, IInv, ThreadInv, TypeOK, OneServer, SentOnly, NotTooEarly,
     Listed, LockOwner, FuncOwner, BouncedAsked, CalleeIsThere, CounterIsUsers, Users, ParkedNotListed,
     Parked, InterruptKept
<1>2. CASE Next
  <2>1. ThreadInv'
    BY <1>2, ThreadInvNext
  <2>2. CounterIsUsers'
    <3>1. CASE AskInterrupt
      BY <3>1 DEF AskInterrupt, reqVars, IInv, CounterIsUsers, Users
    <3>2. CASE \E t \in Threads : KernelStep(t) \/ ServeStep(t) \/ InterruptStep(t)
      BY <3>2, CounterInv DEF IInv
    <3> QED
      BY <1>2, <3>1, <3>2 DEF Next
  <2>3. ParkedNotListed'
    BY <1>2, ParkedInv DEF IInv
  <2>4. InterruptKept'
    BY <1>2, KeptInv DEF IInv
  <2> QED
    BY <2>1, <2>2, <2>3, <2>4 DEF IInv
<1> QED
  BY <1>1, <1>2

THEOREM InterruptInvariant == Spec => []IInv
<1> QED
  BY IInvInit, IInvNext, PTL DEF Spec

THEOREM TypeCorrect == Spec => []TypeOK
<1>1. IInv => TypeOK
  BY DEF IInv, ThreadInv
<1> QED
  BY <1>1, InterruptInvariant, PTL

(* A request object is destroyed by the last thread that holds a pointer to *)
(* it and not before: its counter counts them.                              *)
THEOREM CounterExact == Spec => []CounterIsUsers
<1>1. IInv => CounterIsUsers
  BY DEF IInv
<1> QED
  BY <1>1, InterruptInvariant, PTL

(* An interrupter only reaches into the stack of a thread that is still in  *)
(* the handler the interrupt is meant for.                                  *)
THEOREM CalleeStays == Spec => []CalleeIsThere
<1>1. IInv => CalleeIsThere
  BY DEF IInv, ThreadInv
<1> QED
  BY <1>1, InterruptInvariant, PTL

(* Parked INTERRUPTs are where check_interrupt looks for them, once each.   *)
THEOREM ParkedIsFound == Spec => []ParkedNotListed
<1>1. IInv => ParkedNotListed
  BY DEF IInv
<1> QED
  BY <1>1, InterruptInvariant, PTL

(* No INTERRUPT disappears before it has marked its request.                *)
THEOREM NoInterruptVanishes == Spec => []InterruptKept
<1>1. IInv => InterruptKept
  BY DEF IInv
<1> QED
  BY <1>1, InterruptInvariant, PTL

-----------------------------------------------------------------------------
(****************************************************************************)
(* The safety of NodeTable for tables, ids, names and nodes of any number.  *)
(****************************************************************************)

-----------------------------------------------------------------------------
(* The sizes of a table, and hashes modulo a size and modulo its half.      *)

(* The sizes a table grows to: MinSize and what doubling makes of it.       *)
Sizes ==
  {z \in Nat : \A T \in SUBSET Nat :
                 MinSize \in T /\ (\A x \in T : 2 * x \in T) => z \in T}

(* MinSize is a size, and with a size its double is one.                    *)
LEMMA SizesGrow == MinSize \in Sizes /\ \A z \in Sizes : z \in Nat /\ 2 * z \in Sizes
BY NodeTableAssumption DEF Sizes

(* Any other size is the double of a size.                                  *)
LEMMA SizesShrink == \A z \in Sizes : z = MinSize \/ \E y \in Sizes : z = 2 * y
<1> SUFFICES ASSUME NEW z \in Sizes PROVE z = MinSize \/ \E y \in Sizes : z = 2 * y
  OBVIOUS
<1> DEFINE T == {x \in Sizes : x = MinSize \/ \E y \in Sizes : x = 2 * y}
<1>1. T \in SUBSET Nat /\ MinSize \in T /\ \A x \in T : 2 * x \in T
  BY SizesGrow
<1> HIDE DEF T
<1>2. z \in T
  BY <1>1 DEF Sizes
<1> QED
  BY <1>2 DEF T

(* A size is no smaller than MinSize, and it divides by four.               *)
LEMMA SizesQuarter ==
  \A z \in Sizes : z \in Nat /\ z >= MinSize /\ z >= 4 /\ \E q \in Nat \ {0} : z = 4 * q
<1> DEFINE T == {x \in Nat : x >= MinSize /\ \E q \in Nat \ {0} : x = 4 * q}
<1>1. MinSize \in T
  <2> DEFINE q == MinSize \div 4
  <2>1. MinSize \in Nat \ {0} /\ MinSize % 4 = 0
    BY NodeTableAssumption
  <2>2. q \in Nat /\ MinSize = 4 * q
    BY <2>1
  <2>3. q # 0
    BY <2>1, <2>2
  <2> HIDE DEF q
  <2> QED
    BY <2>1, <2>2, <2>3
<1>2. ASSUME NEW x \in T PROVE 2 * x \in T
  <2>1. PICK q \in Nat \ {0} : x = 4 * q
    OBVIOUS
  <2>2. 2 * x = 4 * (2 * q) /\ 2 * q \in Nat \ {0} /\ 2 * x >= x /\ MinSize \in Nat
    BY <2>1, NodeTableAssumption
  <2> QED
    BY <2>2
<1>3. T \in SUBSET Nat
  OBVIOUS
<1> HIDE DEF T
<1>4. ASSUME NEW z \in Sizes PROVE z \in T
  BY <1>1, <1>2, <1>3 DEF Sizes
<1> QED
  BY <1>4 DEF T

(* What is used of it: half of a size, and a quarter.                       *)
LEMMA SizeParts ==
  ASSUME NEW z \in Sizes
  PROVE  /\ z \in Nat /\ z >= 4
         /\ z \div 2 \in Nat \ {0} /\ z = 2 * (z \div 2)
         /\ z \div 4 \in Nat \ {0} /\ z \div 2 = 2 * (z \div 4)
         /\ z \div 2 >= MinSize => z \div 2 \in Sizes
<1>1. PICK q \in Nat \ {0} : z = 4 * q
  BY SizesQuarter
<1>2. z \in Nat /\ z >= 4 /\ z \div 4 = q /\ z \div 2 = 2 * q
  BY <1>1, SizesQuarter
<1>3. ASSUME z \div 2 >= MinSize PROVE z \div 2 \in Sizes
  <2>1. z # MinSize
    BY <1>1, <1>2, <1>3
  <2>2. PICK y \in Sizes : z = 2 * y
    BY <2>1, SizesShrink
  <2>3. y \in Nat
    BY SizesGrow
  <2>4. y = z \div 2
    BY <2>2, <2>3
  <2> QED
    BY <2>4
<1> QED
  BY <1>1, <1>2, <1>3

(* Quotient and remainder.                                                  *)
LEMMA Remainder ==
  \A h \in Nat, z \in Nat \ {0}, q \in Nat, r \in Nat :
    h = z * q + r /\ r < z => (h % z) = r
OBVIOUS

(* Every number is made of quotient and remainder.                          *)
LEMMA QuotientRemainder ==
  \A h \in Nat, z \in Nat \ {0} :
    /\ h \div z \in Nat /\ (h % z) \in 0 .. z - 1
    /\ h = z * (h \div z) + (h % z)
OBVIOUS

(* Modulo twice z, a number is what it is modulo z, or z more.              *)
LEMMA HalfHash ==
  ASSUME NEW h \in Nat, NEW z \in Nat \ {0}
  PROVE  /\ (h % z) \in 0 .. z - 1 /\ (h % (2 * z)) \in 0 .. 2 * z - 1
         /\ ((h % (2 * z)) % z) = (h % z)
         /\ (h % (2 * z)) = (h % z) \/ (h % (2 * z)) = (h % z) + z
<1> DEFINE r == h % (2 * z)
           q == h \div (2 * z)
<1>1. q \in Nat /\ r \in 0 .. 2 * z - 1 /\ h = (2 * z) * q + r
  BY 2 * z \in Nat \ {0}, QuotientRemainder
<1> HIDE DEF r, q
<1>2. CASE r < z
  <2>1. (2 * z) * q = z * (2 * q) /\ 2 * q \in Nat
    BY <1>1
  <2>2. h = z * (2 * q) + r
    BY <1>1, <2>1
  <2>3. (h % z) = r
    BY <1>1, <1>2, <2>1, <2>2, Remainder
  <2>4. r = z * 0 + r
    BY <1>1
  <2>5. (r % z) = r
    BY <1>1, <1>2, <2>4, Remainder
  <2> QED
    BY <1>1, <1>2, <2>3, <2>5 DEF r
<1>3. CASE r >= z
  <2> DEFINE p == r - z
  <2>1. p \in Nat /\ p < z /\ r = p + z
    BY <1>1, <1>3
  <2>2. (2 * z) * q = z * (2 * q) /\ 2 * q + 1 \in Nat /\ z * (2 * q + 1) = z * (2 * q) + z
    BY <1>1
  <2>3. z * (2 * q) \in Nat
    BY <1>1
  <2> HIDE DEF p
  <2>4. h = z * (2 * q + 1) + p
    BY <1>1, <2>1, <2>2, <2>3
  <2>5. (h % z) = p
    BY <1>1, <2>1, <2>2, <2>4, Remainder
  <2>6. r = z * 1 + p
    BY <1>1, <2>1
  <2>7. (r % z) = p
    BY <1>1, <2>1, <2>6, Remainder
  <2> QED
    BY <1>1, <2>1, <2>5, <2>7 DEF r
<1> QED
  BY <1>1, <1>2, <1>3

-----------------------------------------------------------------------------
(* One table: which bucket a hash selects.                                  *)

(* A table of a size and a split that come up, with its fields.             *)
IsTable(t) ==
  /\ t = [size |-> t.size, split |-> t.split, use |-> t.use, array |-> t.array]
  /\ t.size \in Sizes /\ t.split \in 0 .. t.size \div 2
  /\ t.array = [b \in 0 .. t.size - 1 |-> t.array[b]]

(* Bucket in terms of the hash modulo half of the size and modulo the size. *)
LEMMA BucketIs ==
  ASSUME NEW t, t.size \in Sizes, NEW h \in Nat
  PROVE  /\ (h % (t.size \div 2)) \in 0 .. t.size \div 2 - 1
         /\ (h % t.size) \in 0 .. t.size - 1
         /\ \/ (h % t.size) = (h % (t.size \div 2))
            \/ (h % t.size) = (h % (t.size \div 2)) + t.size \div 2
         /\ Bucket(t, h) = IF (h % (t.size \div 2)) >= t.split THEN h % (t.size \div 2)
                                                               ELSE h % t.size
<1> DEFINE z == t.size \div 2
<1>1. z \in Nat \ {0} /\ t.size = 2 * z
  BY SizeParts
<1>2. /\ (h % z) \in 0 .. z - 1 /\ (h % (2 * z)) \in 0 .. 2 * z - 1
      /\ ((h % (2 * z)) % z) = (h % z)
      /\ (h % (2 * z)) = (h % z) \/ (h % (2 * z)) = (h % z) + z
  BY <1>1, HalfHash
<1> QED
  BY <1>1, <1>2 DEF Bucket

(* A table is determined by its size, its split and what it holds.          *)
Holding(t, S, H) == IsTable(t) /\ Holds(t, S, H)

(* What a table holds depends on the hashes of its members only.            *)
LEMMA HoldsSame ==
  ASSUME NEW t, NEW S, NEW H, NEW G, \A n \in S : H[n] = G[n], Holds(t, S, H)
  PROVE  Holds(t, S, G)
BY DEF Holds

(* A new table holds nothing.                                               *)
LEMMA NewTableHolds == ASSUME NEW H PROVE Holding(NewTable(MinSize), {}, H)
<1>1. MinSize \in Sizes /\ 0 \in 0 .. MinSize \div 2 /\ Cardinality({}) = 0
  BY SizesGrow, SizeParts, FS_EmptySet
<1> QED
  BY <1>1 DEF NewTable, Holding, IsTable, Holds

-----------------------------------------------------------------------------
(* One table: splitting and merging buckets, doubling and halving keep what *)
(* it holds.                                                                *)

(* A set of hashed nodes.                                                   *)
Hashed(S, H) == IsFiniteSet(S) /\ \A n \in S : H[n] \in Nat

(* The table u with other buckets holds what t holds if its arrays are made *)
(* of what t holds.                                                         *)
LEMMA HoldsBy ==
  ASSUME NEW t, NEW u, NEW S, NEW H, Holding(t, S, H), IsTable(u), u.use = t.use,
         \A b \in 0 .. u.size - 1 : u.array[b] = {n \in S : Bucket(u, H[n]) = b}
  PROVE  Holding(u, S, H)
BY DEF Holding, Holds, IsTable

(* What t holds, bucket by bucket.                                          *)
LEMMA HoldingBuckets ==
  ASSUME NEW t, NEW S, NEW H, Holding(t, S, H)
  PROVE  /\ IsTable(t) /\ t.use = Cardinality(S)
         /\ \A b \in 0 .. t.size - 1 : t.array[b] = {n \in S : Bucket(t, H[n]) = b}
BY DEF Holding, Holds, IsTable

(* A table has the four fields.                                             *)
LEMMA TableFields ==
  ASSUME NEW t, IsTable(t)
  PROVE  \E z, p, c, a : t = [size |-> z, split |-> p, use |-> c, array |-> a]
BY DEF IsTable

(* node_table_resize: after the last split the buckets are what they are in *)
(* a table of twice the size with no split.                                 *)
LEMMA ResizedHolds ==
  ASSUME NEW t, NEW S, NEW H, Hashed(S, H), Holding(t, S, H), t.split = t.size \div 2
  PROVE  Holding(Resized(t), S, H)
<1> DEFINE u == Resized(t)
           z == t.size
<1>0. IsTable(t) /\ t.use = Cardinality(S)
      /\ \A b \in 0 .. z - 1 : t.array[b] = {n \in S : Bucket(t, H[n]) = b}
  BY HoldingBuckets
<1>1. z \in Sizes /\ z \in Nat \ {0} /\ 2 * z \in Sizes
  BY <1>0, SizesGrow, SizeParts DEF IsTable
<1>2. /\ u = [size |-> 2 * z, split |-> 0, use |-> t.use, array |-> u.array]
      /\ u.array = [b \in 0 .. 2 * z - 1 |-> IF b < z THEN t.array[b] ELSE {}]
  <2>1. PICK y, p, c, a : t = [size |-> y, split |-> p, use |-> c, array |-> a]
    BY <1>0, TableFields
  <2> DEFINE d == [b \in 0 .. 2 * y - 1 |-> IF b < y THEN a[b] ELSE {}]
             t1 == [t EXCEPT !.size = 2 * y]
             t2 == [t1 EXCEPT !.split = 0]
  <2>2. u = [t2 EXCEPT !.array = d]
    BY <2>1 DEF Resized
  <2> HIDE DEF u, d
  <2>5. t1 = [size |-> 2 * y, split |-> p, use |-> c, array |-> a]
    BY <2>1
  <2> HIDE DEF t1
  <2>6. t2 = [size |-> 2 * y, split |-> 0, use |-> c, array |-> a]
    BY <2>5
  <2> HIDE DEF t2
  <2>3. t.size = y /\ t.use = c /\ t.array = a
    BY <2>1
  <2>4. u = [size |-> 2 * y, split |-> 0, use |-> c, array |-> d]
    BY <2>2, <2>6
  <2> QED
    BY <2>3, <2>4 DEF d
<1>3. u.size = 2 * z /\ u.split = 0 /\ u.use = t.use /\ (2 * z) \div 2 = z
  BY <1>1, <1>2
<1>4. IsTable(u)
  BY <1>1, <1>2, <1>3 DEF IsTable
<1> HIDE DEF u, z
<1>5. ASSUME NEW h \in Nat PROVE Bucket(u, h) = Bucket(t, h) /\ Bucket(t, h) \in 0 .. z - 1
  <2>1. Bucket(u, h) = (h % z)
    BY <1>1, <1>3, BucketIs
  <2>2. (h % (z \div 2)) < z \div 2 /\ (h % z) \in 0 .. z - 1
    BY <1>1, BucketIs DEF z
  <2>3. Bucket(t, h) = (h % z)
    BY <1>1, <2>2, BucketIs DEF z
  <2> QED
    BY <2>1, <2>2, <2>3
<1>6. ASSUME NEW b \in 0 .. 2 * z - 1
      PROVE  u.array[b] = {n \in S : Bucket(u, H[n]) = b}
  <2>1. \A n \in S : Bucket(u, H[n]) = Bucket(t, H[n]) /\ Bucket(t, H[n]) \in 0 .. z - 1
    BY <1>5 DEF Hashed
  <2>2. CASE b < z
    BY <1>0, <1>1, <1>2, <2>1, <2>2
  <2>3. CASE b >= z
    BY <1>1, <1>2, <2>1, <2>3
  <2> QED
    BY <1>1, <2>2, <2>3
<1> QED
  BY <1>3, <1>4, <1>6, HoldsBy DEF u

(* One more bucket is split: only the members of that bucket move.          *)
LEMMA SplitBucket ==
  ASSUME NEW t, NEW u, t.size \in Sizes, t.split \in 0 .. t.size \div 2 - 1,
         u.size = t.size, u.split = t.split + 1, NEW h \in Nat
  PROVE  /\ Bucket(t, h) \in 0 .. t.size - 1 /\ Bucket(u, h) \in 0 .. t.size - 1
         /\ Bucket(t, h) # t.split => Bucket(u, h) = Bucket(t, h)
<1> DEFINE old == h % (t.size \div 2)
           new == h % t.size
<1>1. /\ old \in 0 .. t.size \div 2 - 1 /\ new \in 0 .. t.size - 1
      /\ new = old \/ new = old + t.size \div 2
      /\ Bucket(t, h) = IF old >= t.split THEN old ELSE new
  BY BucketIs
<1>2. Bucket(u, h) = IF old >= u.split THEN old ELSE new
  BY BucketIs
<1>3. t.size \in Nat /\ t.size \div 2 \in Nat /\ t.size = 2 * (t.size \div 2)
  BY SizeParts
<1> HIDE DEF old, new
<1> QED
  BY <1>1, <1>2, <1>3

(* rehash_id, rehash_name *)
LEMMA RehashHolds ==
  ASSUME NEW t, NEW S, NEW H, NEW memory \in BOOLEAN, Hashed(S, H), Holding(t, S, H)
  PROVE  Holding(Rehash(t, H, memory), S, H)
<1>0. IsTable(t) /\ t.use = Cardinality(S)
      /\ \A b \in 0 .. t.size - 1 : t.array[b] = {n \in S : Bucket(t, H[n]) = b}
  BY HoldingBuckets
<1>1. CASE t.split = t.size \div 2
  BY <1>1 DEF Rehash
<1>2. CASE t.split # t.size \div 2
  <2> DEFINE b == t.split
             u == [t EXCEPT !.split = @ + 1]
             move == {m \in t.array[b] : Bucket(u, H[m]) # b}
             v == [u EXCEPT !.array = [c \in DOMAIN u.array |->
                     (u.array[c] \ move) \cup {m \in move : Bucket(u, H[m]) = c}]]
  <2>1. t.size \in Nat /\ t.size \div 2 \in Nat /\ t.size = 2 * (t.size \div 2)
    BY <1>0, SizeParts DEF IsTable
  <2>2. b \in 0 .. t.size \div 2 - 1 /\ b \in 0 .. t.size - 1
    BY <1>0, <1>2, <2>1 DEF IsTable
  <2>3. /\ u = [size |-> t.size, split |-> b + 1, use |-> t.use, array |-> t.array]
        /\ DOMAIN u.array = 0 .. t.size - 1
    <3>1. PICK y, p, c, a : t = [size |-> y, split |-> p, use |-> c, array |-> a]
      BY <1>0, TableFields
    <3>2. DOMAIN t.array = 0 .. t.size - 1
      BY <1>0 DEF IsTable
    <3> QED
      BY <3>1, <3>2
  <2>4. /\ v = [size |-> t.size, split |-> b + 1, use |-> t.use, array |-> v.array]
        /\ v.array = [c \in 0 .. t.size - 1 |->
                        (t.array[c] \ move) \cup {m \in move : Bucket(u, H[m]) = c}]
    <3> DEFINE d == [c \in DOMAIN u.array |->
                     (u.array[c] \ move) \cup {m \in move : Bucket(u, H[m]) = c}]
    <3>1. v = [u EXCEPT !.array = d]
      OBVIOUS
    <3>2. d = [c \in 0 .. t.size - 1 |->
                 (t.array[c] \ move) \cup {m \in move : Bucket(u, H[m]) = c}]
      <4> HIDE DEF u, move
      <4> QED
        BY <2>3
    <3> HIDE DEF d, v, u, move
    <3> QED
      BY <2>3, <3>1, <3>2
  <2>5. v.size = t.size /\ v.split = b + 1 /\ v.use = t.use
    BY <2>4
  <2>6. IsTable(v)
    <3> HIDE DEF u, move, v, b
    <3>1. v.size \in Sizes /\ v.split \in 0 .. v.size \div 2
      BY <1>0, <2>1, <2>2, <2>5 DEF IsTable
    <3>2. v.array = [c \in 0 .. v.size - 1 |-> v.array[c]]
      BY <2>4, <2>5
    <3> QED
      BY <2>4, <2>5, <3>1, <3>2 DEF IsTable
  <2>7. \A h : Bucket(v, h) = Bucket(u, h)
    BY <2>3, <2>5 DEF Bucket
  <2>8. \A n \in S : /\ Bucket(u, H[n]) \in 0 .. t.size - 1
                     /\ Bucket(t, H[n]) # b => Bucket(u, H[n]) = Bucket(t, H[n])
    <3>1. u.size = t.size /\ u.split = t.split + 1 /\ t.size \in Sizes
      BY <1>0, <2>3 DEF IsTable
    <3> HIDE DEF u
    <3> QED
      BY <2>2, <3>1, SplitBucket DEF Hashed
  <2>9. \A m : m \in move <=> m \in S /\ Bucket(t, H[m]) = b /\ Bucket(u, H[m]) # b
    BY <1>0, <2>2
  <2>10. ASSUME NEW c \in 0 .. t.size - 1
         PROVE  v.array[c] = {n \in S : Bucket(v, H[n]) = c}
    <3> HIDE DEF move, u, v, b
    <3>1. v.array[c] = (t.array[c] \ move) \cup {m \in move : Bucket(u, H[m]) = c}
      BY <2>4
    <3>2. t.array[c] = {n \in S : Bucket(t, H[n]) = c}
      BY <1>0
    <3>3. \A n : n \in v.array[c] <=> n \in S /\ Bucket(u, H[n]) = c
      BY <2>8, <2>9, <3>1, <3>2
    <3> QED
      BY <2>7, <3>3
  <2> HIDE DEF move, u, v, b
  <2>11. Holding(v, S, H)
    BY <2>5, <2>6, <2>10, HoldsBy
  <2>12. v.split = v.size \div 2 => Holding(Resized(v), S, H)
    BY <2>11, ResizedHolds
  <2>13. Rehash(t, H, memory) = IF v.split = v.size \div 2 /\ memory THEN Resized(v) ELSE v
    BY <1>2 DEF Rehash, b, u, move, v
  <2> QED
    BY <2>11, <2>12, <2>13
<1> QED
  BY <1>1, <1>2

(* node_table_reduce: with nothing split the lower half is the table.       *)
LEMMA ReducedHolds ==
  ASSUME NEW t, NEW S, NEW H, Hashed(S, H), Holding(t, S, H), t.split = 0
  PROVE  Holding(Reduced(t), S, H)
<1>0. IsTable(t) /\ t.use = Cardinality(S)
      /\ \A b \in 0 .. t.size - 1 : t.array[b] = {n \in S : Bucket(t, H[n]) = b}
  BY HoldingBuckets
<1>1. CASE t.size \div 2 < MinSize
  BY <1>1 DEF Reduced
<1>2. CASE ~(t.size \div 2 < MinSize)
  <2> DEFINE u == Reduced(t)
             z == t.size \div 2
  <2>1. /\ z \in Nat \ {0} /\ t.size = 2 * z /\ z = 2 * (t.size \div 4)
        /\ t.size \div 4 \in Nat \ {0} /\ (z >= MinSize => z \in Sizes)
        /\ t.size \in Sizes
    BY <1>0, SizeParts DEF IsTable
  <2>2. z \in Sizes /\ z \div 2 = t.size \div 4
    BY <1>2, <2>1, NodeTableAssumption
  <2>3. /\ u = [size |-> z, split |-> t.size \div 4, use |-> t.use, array |-> u.array]
        /\ u.array = [b \in 0 .. z - 1 |-> t.array[b]]
    BY <1>0, <1>2 DEF Reduced, IsTable
  <2> HIDE DEF u, z
  <2>4. u.size = z /\ u.split = z \div 2 /\ u.use = t.use
    BY <2>2, <2>3
  <2>5. IsTable(u)
    BY <2>1, <2>2, <2>3, <2>4 DEF IsTable
  <2>6. ASSUME NEW h \in Nat PROVE Bucket(u, h) = Bucket(t, h)
    <3>1. /\ (h % (t.size \div 2)) \in 0 .. t.size \div 2 - 1
          /\ Bucket(t, h) = IF (h % (t.size \div 2)) >= t.split
                            THEN h % (t.size \div 2) ELSE h % t.size
      BY <2>1, BucketIs
    <3>4. (h % z) \in 0 .. z - 1 /\ Bucket(t, h) = (h % z)
      BY <2>1, <3>1 DEF z
    <3>2. (h % (z \div 2)) \in 0 .. z \div 2 - 1 /\ z \div 2 \in Nat
      BY <2>1, <2>2, <2>4, BucketIs
    <3>3. Bucket(u, h) = IF (h % (z \div 2)) >= u.split THEN h % (z \div 2) ELSE h % z
      BY <2>2, <2>4, BucketIs
    <3> QED
      BY <2>4, <3>2, <3>3, <3>4
  <2>7. ASSUME NEW b \in 0 .. z - 1
        PROVE  u.array[b] = {n \in S : Bucket(u, H[n]) = b}
    <3>1. b \in 0 .. t.size - 1 /\ u.array[b] = t.array[b]
      BY <2>1, <2>3
    <3>2. \A n \in S : Bucket(u, H[n]) = Bucket(t, H[n])
      BY <2>6 DEF Hashed
    <3> QED
      BY <1>0, <3>1, <3>2
  <2> QED
    BY <2>4, <2>5, <2>7, HoldsBy DEF u
<1> QED
  BY <1>1, <1>2

(* Merging downwards from split to b, where no upper bucket above b has a   *)
(* member.                                                                  *)
LEMMA MergeBucket ==
  ASSUME NEW r, NEW u, r.size \in Sizes, r.split \in 0 .. r.size \div 2,
         NEW b \in 0 .. r.split - 1, u.size = r.size, u.split = b, NEW h \in Nat,
         \A c \in b + 1 .. r.split - 1 : Bucket(r, h) # c + r.size \div 2
  PROVE  Bucket(u, h) = IF Bucket(r, h) = b + r.size \div 2 THEN b ELSE Bucket(r, h)
<1> DEFINE old == h % (r.size \div 2)
           new == h % r.size
<1>1. /\ old \in 0 .. r.size \div 2 - 1 /\ new \in 0 .. r.size - 1
      /\ new = old \/ new = old + r.size \div 2
      /\ Bucket(r, h) = IF old >= r.split THEN old ELSE new
  BY BucketIs
<1>2. Bucket(u, h) = IF old >= b THEN old ELSE new
  BY BucketIs
<1>3. r.size \in Nat /\ r.size \div 2 \in Nat /\ r.size = 2 * (r.size \div 2)
  BY SizeParts
<1> HIDE DEF old, new
<1>4. CASE old >= r.split
  BY <1>1, <1>2, <1>3, <1>4
<1>5. CASE old < r.split /\ old > b
  <2>1. old \in b + 1 .. r.split - 1
    BY <1>1, <1>3, <1>5
  <2>2. Bucket(r, h) = new /\ new # old + r.size \div 2
    BY <1>1, <1>3, <1>5, <2>1
  <2> QED
    BY <1>1, <1>2, <1>3, <1>5, <2>2
<1>6. CASE old < r.split /\ old <= b
  BY <1>1, <1>2, <1>3, <1>6
<1> QED
  BY <1>1, <1>3, <1>4, <1>5, <1>6

(* remerge_id, remerge_name *)
LEMMA MergedHolds ==
  ASSUME NEW r, NEW S, NEW H, Hashed(S, H), Holding(r, S, H), NEW b \in 0 .. r.split - 1,
         \A c \in b + 1 .. r.split - 1 : r.array[c + r.size \div 2] = {}
  PROVE  Holding([r EXCEPT !.split = b,
                           !.array = [r.array EXCEPT ![b] = @ \cup r.array[b + r.size \div 2],
                                                     ![b + r.size \div 2] = {}]], S, H)
<1> DEFINE half == r.size \div 2
           d0 == [r.array EXCEPT ![b] = @ \cup r.array[b + half]]
           d == [d0 EXCEPT ![b + half] = {}]
           r1 == [r EXCEPT !.split = b]
           u == [r1 EXCEPT !.array = d]
<1>0. IsTable(r) /\ r.use = Cardinality(S)
      /\ \A c \in 0 .. r.size - 1 : r.array[c] = {n \in S : Bucket(r, H[n]) = c}
  BY HoldingBuckets
<1>1. /\ r.size \in Nat /\ half \in Nat \ {0} /\ r.size = 2 * half
      /\ r.split \in 0 .. half /\ r.size \in Sizes
      /\ r.array = [c \in 0 .. r.size - 1 |-> r.array[c]]
  BY <1>0, SizeParts DEF IsTable
<1>2. PICK y, p, w, a : r = [size |-> y, split |-> p, use |-> w, array |-> a]
  BY <1>0, TableFields
<1>3. u = [size |-> r.size, split |-> b, use |-> r.use, array |-> d]
  <2> HIDE DEF d
  <2>1. r1 = [size |-> y, split |-> b, use |-> w, array |-> a]
    BY <1>2
  <2>2. r.size = y /\ r.use = w
    BY <1>2
  <2> HIDE DEF r1
  <2> QED
    BY <2>1, <2>2
<1> HIDE DEF half
<1>4. b \in 0 .. half - 1 /\ b + half \in 0 .. r.size - 1 /\ b # b + half /\ b \in 0 .. r.size - 1
  BY <1>1
<1>5. d0 = [c \in 0 .. r.size - 1 |->
              IF c = b THEN r.array[b] \cup r.array[b + half] ELSE r.array[c]]
  BY <1>1, <1>4
<1>6. d = [c \in 0 .. r.size - 1 |->
             IF c = b THEN r.array[b] \cup r.array[b + half]
             ELSE IF c = b + half THEN {} ELSE r.array[c]]
  <2> HIDE DEF d0
  <2> QED
    BY <1>4, <1>5
<1> HIDE DEF d, d0, u, r1
<1>7. u.size = r.size /\ u.split = b /\ u.use = r.use /\ u.array = d
  BY <1>3
<1>8. IsTable(u)
  <2>1. u.size \in Sizes /\ u.split \in 0 .. u.size \div 2
    BY <1>1, <1>4, <1>7 DEF half
  <2>2. u.array = [c \in 0 .. u.size - 1 |-> u.array[c]]
    BY <1>6, <1>7
  <2> QED
    BY <1>3, <1>7, <2>1, <2>2 DEF IsTable
<1>9. ASSUME NEW n \in S
      PROVE  Bucket(u, H[n]) = IF Bucket(r, H[n]) = b + half THEN b ELSE Bucket(r, H[n])
  <2>1. ASSUME NEW c \in b + 1 .. r.split - 1 PROVE Bucket(r, H[n]) # c + half
    <3>1. c + half \in 0 .. r.size - 1
      BY <1>1
    <3>2. r.array[c + half] = {}
      BY DEF half
    <3> QED
      BY <1>0, <3>1, <3>2
  <2>2. H[n] \in Nat
    BY DEF Hashed
  <2> QED
    BY <1>1, <1>7, <2>1, <2>2, MergeBucket DEF half
<1>10. ASSUME NEW c \in 0 .. u.size - 1 PROVE u.array[c] = {n \in S : Bucket(u, H[n]) = c}
  <2>1. c \in 0 .. r.size - 1
    BY <1>7
  <2>2. CASE c = b
    BY <1>0, <1>4, <1>6, <1>7, <1>9, <2>1, <2>2
  <2>3. CASE c = b + half
    <3>1. \A n \in S : Bucket(u, H[n]) # c
      BY <1>4, <1>9, <2>3
    <3> QED
      BY <1>4, <1>6, <1>7, <2>1, <2>3, <3>1
  <2>4. CASE c # b /\ c # b + half
    <3>1. \A n \in S : Bucket(u, H[n]) = c <=> Bucket(r, H[n]) = c
      BY <1>9, <2>4
    <3> QED
      BY <1>0, <1>6, <1>7, <2>1, <2>4, <3>1
  <2> QED
    BY <2>2, <2>3, <2>4
<1>11. Holding(u, S, H)
  BY <1>7, <1>8, <1>10, HoldsBy
<1> QED
  BY <1>11 DEF u, r1, d, d0, half

(* A set of numbers that is not empty has a least element.                  *)
LEMMA LeastNumber ==
  ASSUME NEW T, T \subseteq Nat, T # {}
  PROVE  \E x \in T : \A y \in T : x <= y
  <1> DEFINE R == OpToRel(<, Nat)
  <1>1. \E x \in T : \A y \in T : ~(<<y, x>> \in R)
    BY NatLessThanWellFounded, WFMin
  <1>2. PICK x \in T : \A y \in T : ~(<<y, x>> \in R)
    BY <1>1
  <1>3. ASSUME NEW y \in T, y < x
        PROVE  FALSE
    <2>1. <<y, x>> \in R
      BY <1>3 DEF OpToRel
    <2> QED
      BY <1>2, <2>1
  <1> HIDE DEF R
  <1>4. \A y \in T : ~(y < x)
    BY <1>3
  <1> QED
    BY <1>2, <1>4

(* Induction, about a set of numbers in the place of a property of them.    *)
LEMMA NumbersInduction ==
  ASSUME NEW S, 0 \in S, \A n \in Nat : n \in S => n + 1 \in S
  PROVE  Nat \subseteq S
  <1> SUFFICES ASSUME Nat \ S # {}
               PROVE  FALSE
    OBVIOUS
  <1>1. PICK x \in Nat \ S : \A y \in Nat \ S : x <= y
    BY LeastNumber
  <1>2. x # 0 /\ x - 1 \in Nat
    BY <1>1
  <1>3. x - 1 \in S
    BY <1>1, <1>2
  <1> QED
    BY <1>1, <1>2, <1>3

(* A bounded set of numbers that is not empty has a greatest element.       *)
LEMMA GreatestNumber ==
  ASSUME NEW m \in Nat, NEW S, S \subseteq 0 .. m, S # {}
  PROVE  Max(S) \in S /\ \A x \in S : Max(S) >= x
<1> DEFINE T == {m - x : x \in S}
<1>1. T \subseteq Nat /\ T # {}
  <2>1. \A x \in S : m - x \in Nat
    OBVIOUS
  <2> QED
    BY <2>1
<1>2. PICK y \in T : \A z \in T : y <= z
  <2> HIDE DEF T
  <2> QED
    BY <1>1, LeastNumber
<1>3. PICK x \in S : y = m - x
  OBVIOUS
<1>4. \A z \in S : x >= z
  <2> SUFFICES ASSUME NEW z \in S PROVE x >= z
    OBVIOUS
  <2>1. m - x <= m - z
    BY <1>2, <1>3
  <2>2. m \in Int /\ x \in Int /\ z \in Int
    OBVIOUS
  <2> QED
    BY <2>1, <2>2
<1>5. \E w \in S : \A z \in S : w >= z
  BY <1>4
<1> QED
  BY <1>5 DEF Max

(* remerge_id, remerge_name, with the halving of the table they may begin   *)
(* with.                                                                    *)
LEMMA RemergeHolds ==
  ASSUME NEW t, NEW S, NEW H, Hashed(S, H), Holding(t, S, H)
  PROVE  Holding(Remerge(t), S, H)
<1> DEFINE r == IF t.split = 0 THEN Reduced(t) ELSE t
           half == r.size \div 2
           lowest == IF r.split > MergeSteps THEN r.split - MergeSteps ELSE 0
           full == {b \in lowest .. r.split - 1 : r.array[b + half] # {}}
           b == IF full = {} THEN lowest ELSE Max(full)
           merged == [r.array EXCEPT ![b] = @ \cup r.array[b + half], ![b + half] = {}]
           u == [r EXCEPT !.split = b, !.array = merged]
<1>1. Remerge(t) = IF r.split = 0 THEN r ELSE u
  BY DEF Remerge
<1>2. Holding(r, S, H)
  BY ReducedHolds
<1> HIDE DEF r
<1>3. r.split \in Nat /\ MergeSteps \in Nat \ {0}
  BY <1>2, SizeParts, NodeTableAssumption DEF Holding, IsTable
<1>4. CASE r.split # 0
  <2>1. lowest \in 0 .. r.split - 1
    BY <1>3, <1>4
  <2>2. b \in lowest .. r.split - 1 /\ \A c \in full : b >= c
    <3>1. CASE full = {}
      BY <1>3, <2>1, <3>1
    <3>2. CASE full # {}
      <4>1. full \subseteq 0 .. r.split - 1 /\ r.split - 1 \in Nat
        BY <1>3, <1>4, <2>1
      <4>2. \A c \in full : c \in lowest .. r.split - 1
        OBVIOUS
      <4> HIDE DEF full, lowest
      <4>3. Max(full) \in full /\ \A c \in full : Max(full) >= c
        BY <3>2, <4>1, GreatestNumber
      <4> QED
        BY <3>2, <4>2, <4>3
    <3> QED
      BY <3>1, <3>2
  <2> HIDE DEF b
  <2>3. b \in 0 .. r.split - 1
    BY <1>3, <2>1, <2>2
  <2>4. ASSUME NEW c \in b + 1 .. r.split - 1 PROVE r.array[c + r.size \div 2] = {}
    <3>1. c \in lowest .. r.split - 1 /\ ~(b >= c)
      BY <1>3, <2>1, <2>2, <2>3
    <3> HIDE DEF lowest
    <3>2. c \notin full
      BY <2>2, <3>1
    <3> QED
      BY <3>1, <3>2
  <2>5. Holding(u, S, H)
    BY <1>2, <2>3, <2>4, MergedHolds
  <2> HIDE DEF u
  <2> QED
    BY <1>1, <1>4, <2>5
<1>5. CASE r.split = 0
  BY <1>1, <1>2, <1>5
<1> QED
  BY <1>4, <1>5

-----------------------------------------------------------------------------
(* Insertion and removal.                                                   *)

(* hash_id, hash_name: a node that is not there is added.                   *)
LEMMA InsertHolds ==
  ASSUME NEW t, NEW S, NEW H, NEW n, NEW memory \in BOOLEAN,
         Hashed(S, H), Holding(t, S, H), n \notin S, H[n] \in Nat
  PROVE  Holding(Insert(t, n, H, memory), S \cup {n}, H)
<1> DEFINE b == Bucket(t, H[n])
           d == [t.array EXCEPT ![b] = @ \cup {n}]
           u1 == [t EXCEPT !.array = d]
           u == [u1 EXCEPT !.use = @ + 1]
           S1 == S \cup {n}
<1>0. IsTable(t) /\ t.use = Cardinality(S)
      /\ \A c \in 0 .. t.size - 1 : t.array[c] = {m \in S : Bucket(t, H[m]) = c}
  BY HoldingBuckets
<1>1. b \in 0 .. t.size - 1
  <2>1. t.size \in Sizes /\ t.size \in Nat /\ t.size \div 2 \in Nat /\ t.size = 2 * (t.size \div 2)
    BY <1>0, SizeParts DEF IsTable
  <2>2. /\ (H[n] % (t.size \div 2)) \in 0 .. t.size \div 2 - 1
        /\ (H[n] % t.size) \in 0 .. t.size - 1
        /\ Bucket(t, H[n]) = IF (H[n] % (t.size \div 2)) >= t.split
                             THEN H[n] % (t.size \div 2) ELSE H[n] % t.size
    BY <2>1, BucketIs
  <2> QED
    BY <2>1, <2>2
<1>2. PICK y, p, w, a : t = [size |-> y, split |-> p, use |-> w, array |-> a]
  BY <1>0, TableFields
<1>3. u = [size |-> t.size, split |-> t.split, use |-> t.use + 1, array |-> d]
  <2> HIDE DEF d
  <2>1. u1 = [size |-> y, split |-> p, use |-> w, array |-> d]
    BY <1>2
  <2>2. t.size = y /\ t.split = p /\ t.use = w
    BY <1>2
  <2> HIDE DEF u1
  <2> QED
    BY <2>1, <2>2
<1>4. Insert(t, n, H, memory) = IF u.use >= u.size \div 2 THEN Rehash(u, H, memory) ELSE u
  <2>1. u1.use = t.use
    BY <1>2
  <2> QED
    BY <2>1 DEF Insert
<1>5. d = [c \in 0 .. t.size - 1 |-> IF c = b THEN t.array[b] \cup {n} ELSE t.array[c]]
  <2>1. t.array = [c \in 0 .. t.size - 1 |-> t.array[c]]
    BY <1>0 DEF IsTable
  <2> HIDE DEF b
  <2> QED
    BY <1>1, <2>1
<1> HIDE DEF d, u, u1
<1>6. u.size = t.size /\ u.split = t.split /\ u.array = d
  BY <1>3
<1>7. \A h : Bucket(u, h) = Bucket(t, h)
  BY <1>6 DEF Bucket
<1> HIDE DEF b
<1>8. IsTable(u)
  <2>1. u.array = [c \in 0 .. u.size - 1 |-> u.array[c]]
    BY <1>5, <1>6
  <2>2. u.size \in Sizes /\ u.split \in 0 .. u.size \div 2
    BY <1>0, <1>6 DEF IsTable
  <2> QED
    BY <1>3, <1>6, <2>1, <2>2 DEF IsTable
<1>9. Hashed(S1, H) /\ u.use = Cardinality(S1)
  <2>1. IsFiniteSet(S1) /\ Cardinality(S1) = Cardinality(S) + 1
    BY FS_AddElement DEF Hashed
  <2> QED
    BY <1>0, <1>3, <2>1 DEF Hashed
<1>10. ASSUME NEW c \in DOMAIN u.array PROVE u.array[c] = {m \in S1 : Bucket(u, H[m]) = c}
  <2>1. c \in 0 .. t.size - 1
    BY <1>5, <1>6
  <2>2. CASE c = b
    BY <1>0, <1>5, <1>6, <1>7, <2>1, <2>2 DEF b
  <2>3. CASE c # b
    BY <1>0, <1>5, <1>6, <1>7, <2>1, <2>3 DEF b
  <2> QED
    BY <2>2, <2>3
<1>11. Holding(u, S1, H)
  BY <1>8, <1>9, <1>10 DEF Holding, Holds
<1> HIDE DEF S1
<1>12. Holding(Rehash(u, H, memory), S1, H)
  BY <1>9, <1>11, RehashHolds
<1> QED
  BY <1>4, <1>11, <1>12 DEF S1

(* unhash_id, unhash_name: the node is found and taken out.                 *)
LEMMA DeleteHolds ==
  ASSUME NEW t, NEW S, NEW H, NEW n \in S, Hashed(S, H), Holding(t, S, H)
  PROVE  Holding(Delete(t, n, H), S \ {n}, H)
<1> DEFINE b == Bucket(t, H[n])
           d == [t.array EXCEPT ![b] = @ \ {n}]
           u1 == [t EXCEPT !.array = d]
           u == [u1 EXCEPT !.use = @ - 1]
           S1 == S \ {n}
<1>0. IsTable(t) /\ t.use = Cardinality(S)
      /\ \A c \in 0 .. t.size - 1 : t.array[c] = {m \in S : Bucket(t, H[m]) = c}
  BY HoldingBuckets
<1>1. b \in 0 .. t.size - 1
  <2>1. t.size \in Sizes /\ t.size \in Nat /\ t.size \div 2 \in Nat /\ t.size = 2 * (t.size \div 2)
    BY <1>0, SizeParts DEF IsTable
  <2>2. /\ (H[n] % (t.size \div 2)) \in 0 .. t.size \div 2 - 1
        /\ (H[n] % t.size) \in 0 .. t.size - 1
        /\ Bucket(t, H[n]) = IF (H[n] % (t.size \div 2)) >= t.split
                             THEN H[n] % (t.size \div 2) ELSE H[n] % t.size
    BY <2>1, BucketIs DEF Hashed
  <2> QED
    BY <2>1, <2>2
<1>2. PICK y, p, w, a : t = [size |-> y, split |-> p, use |-> w, array |-> a]
  BY <1>0, TableFields
<1>3. u = [size |-> t.size, split |-> t.split, use |-> t.use - 1, array |-> d]
  <2> HIDE DEF d
  <2>1. u1 = [size |-> y, split |-> p, use |-> w, array |-> d]
    BY <1>2
  <2>2. t.size = y /\ t.split = p /\ t.use = w
    BY <1>2
  <2> HIDE DEF u1
  <2> QED
    BY <2>1, <2>2
<1>4. Delete(t, n, H) = IF u.use < u.size \div 4 THEN Remerge(u) ELSE u
  <2>1. u1.use = t.use
    BY <1>2
  <2>2. n \in t.array[b]
    BY <1>0, <1>1
  <2> QED
    BY <2>1, <2>2 DEF Delete
<1>5. d = [c \in 0 .. t.size - 1 |-> IF c = b THEN t.array[b] \ {n} ELSE t.array[c]]
  <2>1. t.array = [c \in 0 .. t.size - 1 |-> t.array[c]]
    BY <1>0 DEF IsTable
  <2> HIDE DEF b
  <2> QED
    BY <1>1, <2>1
<1> HIDE DEF d, u, u1
<1>6. u.size = t.size /\ u.split = t.split /\ u.array = d
  BY <1>3
<1>7. \A h : Bucket(u, h) = Bucket(t, h)
  BY <1>6 DEF Bucket
<1> HIDE DEF b
<1>8. IsTable(u)
  <2>1. u.array = [c \in 0 .. u.size - 1 |-> u.array[c]]
    BY <1>5, <1>6
  <2>2. u.size \in Sizes /\ u.split \in 0 .. u.size \div 2
    BY <1>0, <1>6 DEF IsTable
  <2> QED
    BY <1>3, <1>6, <2>1, <2>2 DEF IsTable
<1>9. Hashed(S1, H) /\ u.use = Cardinality(S1)
  <2>1. IsFiniteSet(S1) /\ Cardinality(S1) = Cardinality(S) - 1
    BY FS_RemoveElement DEF Hashed
  <2> QED
    BY <1>0, <1>3, <2>1 DEF Hashed
<1>10. ASSUME NEW c \in DOMAIN u.array PROVE u.array[c] = {m \in S1 : Bucket(u, H[m]) = c}
  <2>1. c \in 0 .. t.size - 1
    BY <1>5, <1>6
  <2>2. CASE c = b
    BY <1>0, <1>5, <1>6, <1>7, <2>1, <2>2 DEF b
  <2>3. CASE c # b
    BY <1>0, <1>5, <1>6, <1>7, <2>1, <2>3 DEF b
  <2> QED
    BY <2>2, <2>3
<1>11. Holding(u, S1, H)
  BY <1>8, <1>9, <1>10 DEF Holding, Holds
<1> HIDE DEF S1
<1>12. Holding(Remerge(u), S1, H)
  BY <1>9, <1>11, RemergeHolds
<1> QED
  BY <1>4, <1>11, <1>12 DEF S1

-----------------------------------------------------------------------------
(* The nodes: what is true of them between and within the operations.       *)

(* The nodes.                                                               *)
NodeRecords ==
  [name : Names \cup {NoName}, parent : Ids \cup {None}, nlookup : Nat, refctr : Nat]

(* A value of f has its six fields.                                         *)
IsState(s) ==
  \E n, c, g, i, t, l : s = [nodes |-> n, ctr |-> c, generation |-> g, id_table |-> i,
                             name_table |-> t, lru_table |-> l]

(* What the fields of f may be.                                             *)
Typed(s) ==
  /\ IsState(s) /\ Live(s) \subseteq Ids /\ s.nodes \in [Live(s) -> NodeRecords]
  /\ s.ctr \in 0 .. IdLimit - 1 /\ s.generation \in Nat
  /\ s.lru_table \in Seq(Live(s)) /\ Distinct(s.lru_table)

(* The nodes below a node, and the nodes with a name.                       *)
Kids(s, n) == {m \in Live(s) : s.nodes[m].parent = n}
Named(s) == {n \in Live(s) : s.nodes[n].name # NoName}

(* A node has a parent if and only if it has a name, the parent is there,   *)
(* and there are no more than two parents above a node.                     *)
HasPlace(s, n) ==
  /\ s.nodes[n].parent = None <=> s.nodes[n].name = NoName
  /\ s.nodes[n].parent \in Live(s) \cup {None}
  /\ \/ s.nodes[n].parent \in {None, Root}
     \/ s.nodes[s.nodes[n].parent].parent \in {None, Root}
Tree(s) ==
  /\ Root \in Live(s) /\ s.nodes[Root].name = NoName /\ s.nodes[Root].nlookup > 0
  /\ \A n \in Live(s) : HasPlace(s, n)

(* refctr counts the entries below a node, the references by number, and    *)
(* one reference more of each node of E that is about to be given back.     *)
CountOf(s, E, n) ==
  (IF s.nodes[n].nlookup > 0 THEN 1 ELSE 0) + Cardinality(Kids(s, n))
    + (IF n \in E THEN 1 ELSE 0)
Counted(s, E) == \A n \in Live(s) : s.nodes[n].refctr = CountOf(s, E, n)

(* What the two tables hold.                                                *)
IdsFound(s) == Holding(s.id_table, Live(s), IdHashes(s))
NamesFound(s) == Holding(s.name_table, Named(s), NameHashes(s))

(* A state in which the nodes of E each have a reference too many.          *)
Good(s, E) ==
  /\ Typed(s) /\ Tree(s) /\ E \subseteq Live(s) /\ Counted(s, E)
  /\ IdsFound(s) /\ NamesFound(s)

(* From s to r, nodes go and the others keep what is theirs, but for their  *)
(* counts of references.                                                    *)
SameNode(s, r, m) ==
  /\ r.nodes[m].name = s.nodes[m].name /\ r.nodes[m].parent = s.nodes[m].parent
  /\ r.nodes[m].nlookup = s.nodes[m].nlookup
SameRest(s, r) == r.ctr = s.ctr /\ r.generation = s.generation
Without(s, r, G) ==
  /\ Live(r) = Live(s) \ G /\ \A m \in Live(r) : SameNode(s, r, m)
  /\ SameRest(s, r)
  /\ Elements(r.lru_table) = Elements(s.lru_table) \ G

(* r is a value of f with the given fields.                                 *)
Fields(r, n, c, g, i, t, l) ==
  /\ IsState(r) /\ r.nodes = n /\ r.ctr = c /\ r.generation = g
  /\ r.id_table = i /\ r.name_table = t /\ r.lru_table = l

(* One field of a value of f changes.                                       *)
LEMMA StateUpdates ==
  ASSUME NEW s, IsState(s), NEW x
  PROVE  /\ Fields([s EXCEPT !.nodes = x],
                   x, s.ctr, s.generation, s.id_table, s.name_table, s.lru_table)
         /\ Fields([s EXCEPT !.ctr = x],
                   s.nodes, x, s.generation, s.id_table, s.name_table, s.lru_table)
         /\ Fields([s EXCEPT !.generation = x],
                   s.nodes, s.ctr, x, s.id_table, s.name_table, s.lru_table)
         /\ Fields([s EXCEPT !.id_table = x],
                   s.nodes, s.ctr, s.generation, x, s.name_table, s.lru_table)
         /\ Fields([s EXCEPT !.name_table = x],
                   s.nodes, s.ctr, s.generation, s.id_table, x, s.lru_table)
         /\ Fields([s EXCEPT !.lru_table = x],
                   s.nodes, s.ctr, s.generation, s.id_table, s.name_table, x)
<1>1. PICK n, c, g, i, t, l : s = [nodes |-> n, ctr |-> c, generation |-> g, id_table |-> i,
                                   name_table |-> t, lru_table |-> l]
  BY DEF IsState
<1>2. [s EXCEPT !.nodes = x] = [nodes |-> x, ctr |-> c, generation |-> g, id_table |-> i,
                                   name_table |-> t, lru_table |-> l]
  BY <1>1
<1>3. [s EXCEPT !.ctr = x] = [nodes |-> n, ctr |-> x, generation |-> g, id_table |-> i,
                                   name_table |-> t, lru_table |-> l]
  BY <1>1
<1>4. [s EXCEPT !.generation = x] = [nodes |-> n, ctr |-> c, generation |-> x, id_table |-> i,
                                   name_table |-> t, lru_table |-> l]
  BY <1>1
<1>5. [s EXCEPT !.id_table = x] = [nodes |-> n, ctr |-> c, generation |-> g, id_table |-> x,
                                   name_table |-> t, lru_table |-> l]
  BY <1>1
<1>6. [s EXCEPT !.name_table = x] = [nodes |-> n, ctr |-> c, generation |-> g, id_table |-> i,
                                   name_table |-> x, lru_table |-> l]
  BY <1>1
<1>7. [s EXCEPT !.lru_table = x] = [nodes |-> n, ctr |-> c, generation |-> g, id_table |-> i,
                                   name_table |-> t, lru_table |-> x]
  BY <1>1
<1>8. /\ s.nodes = n /\ s.ctr = c /\ s.generation = g /\ s.id_table = i
      /\ s.name_table = t /\ s.lru_table = l
  BY <1>1
<1>9. ASSUME NEW r, NEW n1, NEW c1, NEW g1, NEW i1, NEW t1, NEW l1,
             r = [nodes |-> n1, ctr |-> c1, generation |-> g1, id_table |-> i1,
                  name_table |-> t1, lru_table |-> l1]
      PROVE  Fields(r, n1, c1, g1, i1, t1, l1)
  BY <1>9 DEF IsState, Fields
<1> QED
  BY <1>2, <1>3, <1>4, <1>5, <1>6, <1>7, <1>8, <1>9

(* remove_node_lru                                                          *)
LEMMA RemoveLruKeeps ==
  ASSUME NEW s, IsState(s), NEW S, s.lru_table \in Seq(S), Distinct(s.lru_table), NEW n
  PROVE  LET r == RemoveLru(s, n) IN
           /\ IsState(r) /\ r.nodes = s.nodes /\ SameRest(s, r)
           /\ r.id_table = s.id_table /\ r.name_table = s.name_table
           /\ r.lru_table \in Seq(S) /\ Distinct(r.lru_table)
           /\ Elements(r.lru_table) = Elements(s.lru_table) \ {n}
<1> DEFINE at == {i \in DOMAIN s.lru_table : s.lru_table[i] = n}
           r == RemoveLru(s, n)
<1>1. r = IF at = {} THEN s ELSE [s EXCEPT !.lru_table = RemoveAt(s.lru_table, Min(at))]
  BY DEF RemoveLru
<1>2. CASE at = {}
  <2>1. n \notin Elements(s.lru_table)
    BY <1>2 DEF Elements
  <2> HIDE DEF at
  <2>2. r = s
    BY <1>1, <1>2
  <2>3. Elements(s.lru_table) \ {n} = Elements(s.lru_table)
    BY <2>1
  <2> HIDE DEF r
  <2> QED
    BY <1>2, <2>2, <2>3 DEF SameRest, r
<1>3. CASE at # {}
  <2>1. PICK i \in at : TRUE
    BY <1>3
  <2>2. at = {i}
    BY <2>1 DEF Distinct
  <2>3. i \in 1 .. Len(s.lru_table) /\ i \in DOMAIN s.lru_table /\ s.lru_table[i] = n /\ i \in Nat
    BY <2>1
  <2>4. Min(at) = i
    BY <2>2, <2>3 DEF Min
  <2> HIDE DEF at
  <2> DEFINE q == RemoveAt(s.lru_table, i)
  <2>5. r = [s EXCEPT !.lru_table = q]
    BY <1>1, <1>3, <2>4
  <2>6. q \in Seq(S)
    BY <2>3, RemoveAtLemma
  <2>7. Elements(q) = Elements(s.lru_table) \ {n} /\ Distinct(q)
    BY <2>3, RemoveAtElements
  <2> HIDE DEF q, r
  <2>8. /\ IsState(r) /\ r.nodes = s.nodes /\ r.ctr = s.ctr /\ r.generation = s.generation
        /\ r.id_table = s.id_table /\ r.name_table = s.name_table /\ r.lru_table = q
    <3>1. Fields([s EXCEPT !.lru_table = q],
                 s.nodes, s.ctr, s.generation, s.id_table, s.name_table, q)
      BY StateUpdates
    <3> QED
      BY <2>5, <3>1 DEF Fields
  <2> QED
    BY <2>6, <2>7, <2>8 DEF SameRest, r
<1> QED
  BY <1>2, <1>3

(* The hashes are numbers.                                                  *)
LEMMA HashesAreNumbers ==
  ASSUME NEW s, Typed(s)
  PROVE  /\ IsFiniteSet(Live(s)) /\ \A T \in SUBSET Live(s) : IsFiniteSet(T)
         /\ Hashed(Live(s), IdHashes(s)) /\ \A T \in SUBSET Live(s) : Hashed(T, NameHashes(s))
         /\ \A n \in Live(s) : IdHashes(s)[n] = IdHash(n)
<1>1. Ids = 1 .. IdLimit - 1 /\ 1 \in Int /\ IdLimit - 1 \in Int
  BY NodeTableAssumption DEF Ids
<1>2. IsFiniteSet(Ids)
  BY <1>1, FS_Interval
<1>3. IsFiniteSet(Live(s)) /\ \A T \in SUBSET Live(s) : IsFiniteSet(T)
  BY <1>2, FS_Subset DEF Typed
<1>4. ASSUME NEW n \in Live(s) PROVE n \in Nat /\ IdHashes(s)[n] = IdHash(n) /\ IdHash(n) \in Nat
  <2>1. n \in Nat /\ HashFactor \in Nat
    BY <1>1, NodeTableAssumption DEF Typed
  <2>2. n * HashFactor \in Nat
    BY <2>1
  <2> QED
    BY <2>1, <2>2 DEF IdHashes, IdHash
<1>5. ASSUME NEW n \in Live(s) PROVE NameHashes(s)[n] \in Nat
  <2>1. s.nodes[n] \in NodeRecords
    BY DEF Typed
  <2>4. s.nodes[n].parent \in Ids \cup {None} /\ s.nodes[n].name \in Names \cup {NoName}
    BY <2>1 DEF NodeRecords
  <2>5. s.nodes[n].parent \in Nat
    BY <1>1, <2>4 DEF None
  <2>6. Names \subseteq Nat
    BY NodeTableAssumption
  <2>2. s.nodes[n].parent \in Nat /\ (s.nodes[n].name # NoName => s.nodes[n].name \in Nat)
    BY <2>4, <2>5, <2>6
  <2>3. s.nodes[n].name # NoName => NameHash(s.nodes[n].parent, s.nodes[n].name) \in Nat
    BY <2>2 DEF NameHash
  <2> QED
    BY <2>3 DEF NameHashes
<1> QED
  BY <1>3, <1>4, <1>5 DEF Hashed

(* The second part of delete_node.                                          *)
LEMMA DropKeeps ==
  ASSUME NEW s, Typed(s), IdsFound(s), NEW n \in Live(s)
  PROVE  LET r == Drop(s, n) IN
           /\ Typed(r) /\ IdsFound(r) /\ r.name_table = s.name_table
           /\ r.nodes = [m \in Live(s) \ {n} |-> s.nodes[m]]
           /\ Live(r) = Live(s) \ {n} /\ SameRest(s, r)
           /\ Elements(r.lru_table) = Elements(s.lru_table) \ {n}
<1> DEFINE t == RemoveLru(s, n)
           d == Delete(t.id_table, n, IdHashes(t))
           g == [m \in Live(t) \ {n} |-> t.nodes[m]]
           u == [t EXCEPT !.id_table = d]
           r == [u EXCEPT !.nodes = g]
<1>1. /\ IsState(t) /\ t.nodes = s.nodes /\ SameRest(s, t)
      /\ t.id_table = s.id_table /\ t.name_table = s.name_table
      /\ t.lru_table \in Seq(Live(s)) /\ Distinct(t.lru_table)
      /\ Elements(t.lru_table) = Elements(s.lru_table) \ {n}
  BY RemoveLruKeeps DEF Typed
<1>2. Drop(s, n) = r
  BY DEF Drop
<1> HIDE DEF t
<1>3. Live(t) = Live(s) /\ IdHashes(t) = IdHashes(s)
  BY <1>1 DEF Live, IdHashes
<1>4. Holding(d, Live(s) \ {n}, IdHashes(s))
  <2>1. Hashed(Live(s), IdHashes(s))
    BY HashesAreNumbers
  <2> QED
    BY <1>1, <1>3, <2>1, DeleteHolds DEF IdsFound
<1> HIDE DEF d
<1>5. g = [m \in Live(s) \ {n} |-> s.nodes[m]]
  BY <1>1, <1>3
<1> HIDE DEF g
<1>6. /\ IsState(u) /\ u.nodes = t.nodes /\ u.ctr = t.ctr /\ u.generation = t.generation
      /\ u.id_table = d /\ u.name_table = t.name_table /\ u.lru_table = t.lru_table
  <2>1. Fields([t EXCEPT !.id_table = d],
               t.nodes, t.ctr, t.generation, d, t.name_table, t.lru_table)
    BY <1>1, StateUpdates
  <2> QED
    BY <2>1 DEF Fields
<1> HIDE DEF u
<1>7. /\ IsState(r) /\ r.nodes = g /\ r.ctr = u.ctr /\ r.generation = u.generation
      /\ r.id_table = u.id_table /\ r.name_table = u.name_table /\ r.lru_table = u.lru_table
  <2>1. Fields([u EXCEPT !.nodes = g],
               g, u.ctr, u.generation, u.id_table, u.name_table, u.lru_table)
    BY <1>6, StateUpdates
  <2> QED
    BY <2>1 DEF Fields
<1> HIDE DEF r
<1>8. Live(r) = Live(s) \ {n}
  BY <1>5, <1>7 DEF Live
<1>9. r.nodes \in [Live(r) -> NodeRecords]
  BY <1>5, <1>7, <1>8 DEF Typed
<1>10. r.lru_table \in Seq(Live(r))
  <2>1. r.lru_table \in Seq(Live(s)) /\ Elements(r.lru_table) = Elements(s.lru_table) \ {n}
    BY <1>1, <1>6, <1>7
  <2>2. ASSUME NEW i \in 1 .. Len(r.lru_table) PROVE r.lru_table[i] \in Live(r)
    <3>1. r.lru_table[i] \in Elements(r.lru_table) /\ r.lru_table[i] \in Live(s)
      BY <2>1 DEF Elements
    <3> QED
      BY <1>8, <2>1, <3>1
  <2>3. Len(r.lru_table) \in Nat /\ r.lru_table = [i \in 1 .. Len(r.lru_table) |-> r.lru_table[i]]
    BY <2>1
  <2> QED
    BY <2>2, <2>3, IsASeq
<1>11. IdsFound(r)
  <2>1. \A m \in Live(r) : IdHashes(s)[m] = IdHashes(r)[m]
    BY <1>8 DEF IdHashes
  <2> QED
    BY <1>4, <1>6, <1>7, <1>8, <2>1, HoldsSame DEF IdsFound, Holding
<1>12. Typed(r)
  BY <1>1, <1>6, <1>7, <1>8, <1>9, <1>10 DEF Typed, SameRest
<1> QED
  BY <1>1, <1>2, <1>5, <1>6, <1>7, <1>8, <1>11, <1>12 DEF SameRest

-----------------------------------------------------------------------------
(* unref_node: which nodes go.                                              *)

(* Joining sequences of one node and of none.                               *)
LEMMA ShortSequences ==
  ASSUME NEW x, NEW y
  PROVE  /\ <<x>> \o <<>> = <<x>> /\ <<x>> \o <<y>> = <<x, y>>
         /\ Len(<<>>) = 0 /\ Len(<<x>>) = 1 /\ Len(<<x, y>>) = 2
         /\ <<x>>[1] = x /\ <<x, y>>[1] = x /\ <<x, y>>[2] = y
         /\ Elements(<<>>) = {} /\ Elements(<<x>>) = {x} /\ Elements(<<x, y>>) = {x, y}
<1>0. <<x>> \in Seq({x, y}) /\ <<y>> \in Seq({x, y})
      /\ <<x, y>> \in Seq({x, y})
  OBVIOUS
<1> DEFINE xy == <<x>> \o <<y>>
<1>7. /\ xy \in Seq({x, y}) /\ Len(xy) = Len(<<x>>) + Len(<<y>>)
      /\ \A i \in 1 .. Len(<<x>>) + Len(<<y>>) :
           xy[i] = IF i <= Len(<<x>>) THEN <<x>>[i] ELSE <<y>>[i - Len(<<x>>)]
  BY <1>0, ConcatProperties
<1> HIDE DEF xy
<1>8. Len(xy) = Len(<<x, y>>) /\ \A i \in 1 .. Len(xy) : xy[i] = <<x, y>>[i]
  BY <1>7
<1>9. xy = <<x, y>>
  BY <1>0, <1>7, <1>8, SeqEqual
<1>1. <<x>> \o <<>> = <<x>> /\ <<x>> \o <<y>> = <<x, y>>
  BY <1>0, <1>9, ConcatEmptySeq DEF xy
<1>2. /\ Len(<<>>) = 0 /\ Len(<<x>>) = 1 /\ Len(<<x, y>>) = 2
      /\ <<x>>[1] = x /\ <<x, y>>[1] = x /\ <<x, y>>[2] = y
  OBVIOUS
<1>3. DOMAIN <<>> = {} /\ DOMAIN <<x>> = {1} /\ DOMAIN <<x, y>> = {1, 2}
  OBVIOUS
<1>4. Elements(<<>>) = {}
  BY <1>3 DEF Elements
<1>5. Elements(<<x>>) = {x}
  BY <1>2, <1>3 DEF Elements
<1>6. Elements(<<x, y>>) = {x, y}
  BY <1>2, <1>3 DEF Elements
<1> QED
  BY <1>1, <1>2, <1>4, <1>5, <1>6

(* A node that is the parent of one has an entry below it.                  *)
LEMMA ParentHasKids ==
  ASSUME NEW s, NEW E, Typed(s), Counted(s, E), NEW m \in Live(s), NEW p \in Live(s),
         s.nodes[m].parent = p
  PROVE  /\ Cardinality(Kids(s, p)) \in Nat /\ Cardinality(Kids(s, p)) >= 1
         /\ s.nodes[p].refctr >= 1
         /\ (s.nodes[p].nlookup > 0 \/ p \in E) => s.nodes[p].refctr > 1
<1>1. IsFiniteSet(Kids(s, p)) /\ m \in Kids(s, p)
  BY HashesAreNumbers DEF Kids
<1>2. Cardinality(Kids(s, p)) \in Nat /\ Cardinality(Kids(s, p)) # 0
  BY <1>1, FS_CardinalityType, FS_EmptySet
<1>3. s.nodes[p].refctr = CountOf(s, E, p)
  BY DEF Counted
<1> QED
  BY <1>2, <1>3 DEF CountOf

(* No node is its own parent, and the parent of a parent is the root.       *)
LEMMA ShortChains ==
  ASSUME NEW s, NEW E, Typed(s), Tree(s), Counted(s, E), NEW m \in Live(s)
  PROVE  LET p == s.nodes[m].parent IN
           /\ p # m
           /\ p = None \/ p \in Live(s)
           /\ p # None /\ s.nodes[p].parent # None /\ s.nodes[p].refctr <= 1
                => s.nodes[p].parent = Root /\ s.nodes[Root].refctr > 1
<1> DEFINE p == s.nodes[m].parent
<1>1. /\ HasPlace(s, m) /\ Root \in Live(s) /\ s.nodes[Root].name = NoName
      /\ HasPlace(s, Root) /\ s.nodes[Root].nlookup > 0
  BY DEF Tree
<1>2. Root # None /\ s.nodes[Root].parent = None
  BY <1>1 DEF HasPlace, Root, None
<1>3. p = None \/ p \in Live(s)
  BY <1>1 DEF HasPlace
<1>4. None \notin Live(s)
  BY DEF Typed, Ids, None
<1>5. p # m
  BY <1>1, <1>2, <1>4 DEF HasPlace
<1>6. ASSUME p # None, s.nodes[p].parent # None, s.nodes[p].refctr <= 1
      PROVE  s.nodes[p].parent = Root /\ s.nodes[Root].refctr > 1
  <2>1. p # Root
    BY <1>2, <1>6
  <2>2. s.nodes[p].parent = Root
    BY <1>1, <1>6, <2>1 DEF HasPlace
  <2> QED
    BY <1>1, <1>3, <1>6, <2>2, ParentHasKids
<1> QED
  BY <1>3, <1>5, <1>6

(* h gives the chain of nodes that go with each node.                       *)
DoomedAre(s, h) ==
  h = [n \in Live(s) \cup {None} |->
         IF n = None THEN <<>>
         ELSE IF s.nodes[n].refctr > 1 THEN <<>>
         ELSE <<n>> \o h[s.nodes[n].parent]]

(* Doomed is such a function.                                               *)
LEMMA DoomedExist ==
  ASSUME NEW s, NEW E, Typed(s), Tree(s), Counted(s, E)
  PROVE  DoomedAre(s, Doomed(s))
<1> DEFINE p(n) == s.nodes[n].parent
           h == [n \in Live(s) \cup {None} |->
                   IF n = None THEN <<>>
                   ELSE IF s.nodes[n].refctr > 1 THEN <<>>
                   ELSE IF p(n) = None THEN <<n>>
                   ELSE IF s.nodes[p(n)].refctr > 1 THEN <<n>>
                   ELSE <<n, p(n)>>]
           g == [n \in Live(s) \cup {None} |->
                   IF n = None THEN <<>>
                   ELSE IF s.nodes[n].refctr > 1 THEN <<>>
                   ELSE <<n>> \o h[s.nodes[n].parent]]
<1>0. None \notin Live(s)
  BY DEF Typed, Ids, None
<1>1. ASSUME NEW n \in Live(s) \cup {None} PROVE g[n] = h[n]
  <2>1. CASE n = None
    BY <2>1
  <2>2. CASE n # None /\ s.nodes[n].refctr > 1
    BY <2>2
  <2>3. CASE n # None /\ ~(s.nodes[n].refctr > 1)
    <3>1. g[n] = <<n>> \o h[p(n)] /\ n \in Live(s)
      BY <2>3
    <3>2. p(n) = None \/ p(n) \in Live(s)
      BY <3>1, ShortChains
    <3>3. CASE p(n) = None
      <4>1. h[p(n)] = <<>> /\ h[n] = <<n>>
        BY <2>3, <3>3
      <4> QED
        BY <3>1, <4>1, ShortSequences
    <3>4. CASE p(n) # None /\ s.nodes[p(n)].refctr > 1
      <4>1. h[p(n)] = <<>> /\ h[n] = <<n>>
        BY <2>3, <3>2, <3>4
      <4> QED
        BY <3>1, <4>1, ShortSequences
    <3>5. CASE p(n) # None /\ ~(s.nodes[p(n)].refctr > 1)
      <4>0. s.nodes[p(n)].refctr <= 1 /\ p(n) \in Live(s)
        <5>1. p(n) \in Live(s) /\ s.nodes[p(n)] \in NodeRecords
          BY <3>2, <3>5 DEF Typed
        <5> QED
          BY <3>5, <5>1 DEF NodeRecords
      <4>1. h[n] = <<n, p(n)>>
        BY <2>3, <3>5
      <4>2. p(p(n)) = None \/ (p(p(n)) = Root /\ s.nodes[Root].refctr > 1)
        BY <3>1, <3>5, <4>0, ShortChains
      <4>3. h[p(n)] = <<p(n)>>
        BY <3>5, <4>0, <4>2
      <4>4. \A y : <<n>> \o <<y>> = <<n, y>>
        BY ShortSequences
      <4> QED
        BY <3>1, <4>1, <4>3, <4>4
    <3> QED
      BY <3>3, <3>4, <3>5
  <2> QED
    BY <2>1, <2>2, <2>3
<1>2. h = g
  <2>1. h = [n \in Live(s) \cup {None} |-> h[n]]
    OBVIOUS
  <2>2. g = [n \in Live(s) \cup {None} |-> g[n]]
    <3> HIDE DEF h
    <3> QED
      OBVIOUS
  <2> HIDE DEF h, g
  <2> QED
    BY <1>1, <2>1, <2>2
<1> HIDE DEF h
<1>3. DoomedAre(s, h)
  BY <1>2 DEF DoomedAre
<1>4. \E x : DoomedAre(s, x)
  BY <1>3
<1>5. Doomed(s) = CHOOSE x : DoomedAre(s, x)
  BY DEF Doomed, DoomedAre
<1> QED
  BY <1>4, <1>5

(* The nodes that go with n: none, n alone, or n and its parent; top is the *)
(* node above them, which loses a reference.                                *)
TopOf(s, top) == top = None \/ (top \in Live(s) /\ s.nodes[top].refctr > 1)
(* Of n upwards, gone is what goes and top is the node above that stays.    *)
Chain(s, n, gone, top) ==
  \/ gone = <<>> /\ top = n /\ s.nodes[n].refctr > 1
  \/ gone = <<n>> /\ top = s.nodes[n].parent /\ s.nodes[n].refctr <= 1 /\ TopOf(s, top)
  \/ \E p \in Live(s) \ {n} :
       /\ gone = <<n, p>> /\ p = s.nodes[n].parent /\ top = s.nodes[p].parent
       /\ s.nodes[n].refctr <= 1 /\ s.nodes[p].refctr <= 1 /\ TopOf(s, top)

(* What unref_node deletes, with the node that loses a reference above it.  *)
LEMMA DoomedIsChain ==
  ASSUME NEW s, NEW E, Typed(s), Tree(s), Counted(s, E), NEW n \in Live(s)
  PROVE  LET gone == Doomed(s)[n]
             top == IF Len(gone) = 0 THEN n ELSE s.nodes[gone[Len(gone)]].parent
         IN Chain(s, n, gone, top)
<1> DEFINE h == Doomed(s)
           p == s.nodes[n].parent
<1>0. DoomedAre(s, h)
  BY DoomedExist
<1> HIDE DEF h
<1>1. None \notin Live(s) /\ \A m \in Live(s) : s.nodes[m].refctr \in Nat
  BY DEF Typed, Ids, None, NodeRecords
<1>2. /\ h[None] = <<>>
      /\ \A m \in Live(s) : h[m] = IF s.nodes[m].refctr > 1 THEN <<>>
                                   ELSE <<m>> \o h[s.nodes[m].parent]
  BY <1>0, <1>1 DEF DoomedAre
<1>3. p # n /\ (p = None \/ p \in Live(s))
  BY ShortChains
<1>4. CASE s.nodes[n].refctr > 1
  <2>2. h[n] = <<>>
    BY <1>2, <1>4
  <2>1. h[n] = <<>> /\ Len(h[n]) = 0
    BY <2>2
  <2> QED
    BY <1>4, <2>1 DEF Chain, h
<1>5. CASE ~(s.nodes[n].refctr > 1) /\ TopOf(s, p)
  <2>1. h[p] = <<>>
    BY <1>2, <1>5 DEF TopOf
  <2>4. <<n>> \o <<>> = <<n>>
    BY ShortSequences
  <2>5. h[n] = <<n>> \o h[p]
    BY <1>2, <1>5
  <2>2. h[n] = <<n>>
    BY <2>1, <2>4, <2>5
  <2>3. Len(h[n]) = 1 /\ h[n][1] = n
    BY <2>2
  <2> QED
    BY <1>1, <1>5, <2>2, <2>3 DEF Chain, h
<1>6. CASE ~(s.nodes[n].refctr > 1) /\ ~TopOf(s, p)
  <2> DEFINE q == s.nodes[p].parent
  <2>1. p \in Live(s) /\ s.nodes[p].refctr <= 1 /\ s.nodes[n].refctr <= 1
    BY <1>1, <1>3, <1>6 DEF TopOf
  <2>2. q = None \/ (q = Root /\ s.nodes[Root].refctr > 1)
    BY <1>1, <2>1, ShortChains
  <2>3. TopOf(s, q)
    BY <2>2 DEF TopOf, Tree
  <2>4. h[q] = <<>>
    BY <1>2, <2>2, <2>3 DEF TopOf
  <2>8. <<p>> \o <<>> = <<p>>
    BY ShortSequences
  <2>10. <<n>> \o <<p>> = <<n, p>>
    <3> HIDE DEF p
    <3> QED
      BY ShortSequences
  <2>11. ~(s.nodes[p].refctr > 1)
    BY <1>1, <2>1
  <2>12. h[p] = <<p>> \o h[q]
    BY <1>2, <2>1, <2>11
  <2>13. h[n] = <<n>> \o h[p]
    BY <1>2, <1>6
  <2>5. h[p] = <<p>>
    BY <2>4, <2>8, <2>12
  <2>6. h[n] = <<n, p>>
    BY <2>5, <2>10, <2>13
  <2>7. Len(h[n]) = 2 /\ h[n][2] = p
    BY <2>6
  <2> QED
    BY <1>3, <2>1, <2>3, <2>6, <2>7 DEF Chain, h
<1> QED
  BY <1>4, <1>5, <1>6

-----------------------------------------------------------------------------
(* unref_node: what is left.                                                *)

(* The sequences of nodes that go.                                          *)
AFew(s, gone) ==
  \/ gone = <<>>
  \/ \E n \in Live(s) : gone = <<n>>
  \/ \E n, p \in Live(s) : n # p /\ gone = <<n, p>>

UnnameOne(s, t, n) ==
  IF s.nodes[n].name = NoName THEN t ELSE Delete(t, n, NameHashes(s))

(* t holds the tables of names as the nodes leave them.                     *)
UnnamedAre(s, gone, t) ==
  t = [i \in 0 .. Len(gone) |->
         IF i = 0 THEN s.name_table ELSE UnnameOne(s, t[i - 1], gone[i])]

(* Unnamed is such a function.                                              *)
LEMMA UnnamedExist ==
  ASSUME NEW s, NEW gone, AFew(s, gone)
  PROVE  UnnamedAre(s, gone, Unnamed(s, gone))
<1>1. Len(gone) \in 0 .. 2
  BY ShortSequences DEF AFew
<1> DEFINE a == UnnameOne(s, s.name_table, gone[1])
           b == UnnameOne(s, a, gone[2])
           t == [i \in 0 .. Len(gone) |->
                   IF i = 0 THEN s.name_table ELSE IF i = 1 THEN a ELSE b]
           u == [i \in 0 .. Len(gone) |->
                   IF i = 0 THEN s.name_table ELSE UnnameOne(s, t[i - 1], gone[i])]
<1>2. ASSUME NEW i \in 0 .. Len(gone) PROVE u[i] = t[i]
  <2> HIDE DEF a, b
  <2>1. CASE i = 0
    BY <2>1
  <2>2. CASE i = 1
    <3>1. 0 \in 0 .. Len(gone) /\ i - 1 = 0
      BY <1>1, <2>2
    <3>2. t[0] = s.name_table
      BY <3>1
    <3> HIDE DEF t
    <3>3. u[i] = UnnameOne(s, t[i - 1], gone[i])
      BY <2>2
    <3> QED
      BY <2>2, <3>1, <3>2, <3>3 DEF a, t
  <2>3. CASE i = 2
    <3>1. 1 \in 0 .. Len(gone) /\ i - 1 = 1
      BY <1>1, <2>3
    <3>2. t[1] = a /\ t[i] = b
      BY <2>3, <3>1
    <3> HIDE DEF t
    <3>3. u[i] = UnnameOne(s, t[i - 1], gone[i])
      BY <2>3
    <3> QED
      BY <2>3, <3>1, <3>2, <3>3 DEF b
  <2> QED
    BY <1>1, <2>1, <2>2, <2>3
<1>3. t = u
  <2>1. t = [i \in 0 .. Len(gone) |-> t[i]]
    OBVIOUS
  <2>2. u = [i \in 0 .. Len(gone) |-> u[i]]
    <3> HIDE DEF t
    <3> QED
      OBVIOUS
  <2> HIDE DEF t, u
  <2> QED
    BY <1>2, <2>1, <2>2
<1> HIDE DEF t
<1>4. UnnamedAre(s, gone, t)
  BY <1>3 DEF UnnamedAre
<1>5. \E x : UnnamedAre(s, gone, x)
  BY <1>4
<1>6. Unnamed(s, gone) = CHOOSE x : UnnamedAre(s, gone, x)
  BY DEF Unnamed, UnnamedAre, UnnameOne
<1> QED
  BY <1>5, <1>6

(* One node leaves the table of names.                                      *)
LEMMA UnnameOneHolds ==
  ASSUME NEW s, Typed(s), NEW T \in SUBSET Named(s), NEW t, Holding(t, T, NameHashes(s)),
         NEW n \in Live(s), s.nodes[n].name # NoName => n \in T
  PROVE  Holding(UnnameOne(s, t, n), T \ {n}, NameHashes(s))
<1>1. CASE s.nodes[n].name = NoName
  <2>1. n \notin T
    BY <1>1 DEF Named
  <2>2. T \ {n} = T
    BY <2>1
  <2> QED
    BY <1>1, <2>2 DEF UnnameOne
<1>2. CASE s.nodes[n].name # NoName
  <2>1. T \in SUBSET Live(s)
    BY DEF Named
  <2>2. Hashed(T, NameHashes(s))
    BY <2>1, HashesAreNumbers
  <2> QED
    BY <1>2, <2>2, DeleteHolds DEF UnnameOne
<1> QED
  BY <1>1, <1>2

(* The nodes that go leave the table of names.                              *)
LEMMA UnnamedHolds ==
  ASSUME NEW s, Typed(s), NamesFound(s), NEW gone, AFew(s, gone)
  PROVE  Holding(Unnamed(s, gone)[Len(gone)], Named(s) \ Elements(gone), NameHashes(s))
<1> DEFINE t == Unnamed(s, gone)
           N == Named(s)
<1>1. UnnamedAre(s, gone, t)
  BY UnnamedExist
<1>2. N \in SUBSET Named(s) /\ \A n \in Live(s) : s.nodes[n].name # NoName => n \in N
  BY DEF Named
<1> HIDE DEF t, N
<1>3. Len(gone) \in 0 .. 2
  BY ShortSequences DEF AFew
<1>4. t[0] = s.name_table /\ Holding(t[0], N, NameHashes(s))
  BY <1>1, <1>3 DEF UnnamedAre, NamesFound, N
<1>5. \A i \in 1 .. Len(gone) : t[i] = UnnameOne(s, t[i - 1], gone[i])
  BY <1>1, <1>3 DEF UnnamedAre
<1>6. CASE gone = <<>>
  <2>1. Len(gone) = 0 /\ N \ Elements(gone) = N
    BY <1>6, ShortSequences
  <2> QED
    BY <1>4, <2>1 DEF t, N
<1>7. ASSUME NEW n \in Live(s), gone = <<n>>
      PROVE  Holding(t[Len(gone)], N \ Elements(gone), NameHashes(s))
  <2>1. Len(gone) = 1 /\ gone[1] = n /\ Elements(gone) = {n}
    BY <1>7, ShortSequences
  <2>2. t[1] = UnnameOne(s, t[0], n)
    BY <1>5, <2>1
  <2>3. Holding(t[1], N \ {n}, NameHashes(s))
    BY <1>2, <1>4, <2>2, UnnameOneHolds
  <2> QED
    BY <2>1, <2>3
<1>8. ASSUME NEW n \in Live(s), NEW p \in Live(s), n # p, gone = <<n, p>>
      PROVE  Holding(t[Len(gone)], N \ Elements(gone), NameHashes(s))
  <2>1. Len(gone) = 2 /\ gone[1] = n /\ gone[2] = p /\ Elements(gone) = {n, p}
    BY <1>8, ShortSequences
  <2>2. t[1] = UnnameOne(s, t[0], n) /\ t[2] = UnnameOne(s, t[1], p)
    BY <1>5, <2>1
  <2>3. Holding(t[1], N \ {n}, NameHashes(s))
    BY <1>2, <1>4, <2>2, UnnameOneHolds
  <2>4. N \ {n} \in SUBSET Named(s) /\ (s.nodes[p].name # NoName => p \in N \ {n})
    BY <1>2, <1>8
  <2>5. Holding(t[2], (N \ {n}) \ {p}, NameHashes(s))
    BY <2>2, <2>3, <2>4, UnnameOneHolds
  <2>6. (N \ {n}) \ {p} = N \ Elements(gone)
    BY <2>1
  <2> QED
    BY <2>1, <2>5, <2>6
<1> QED
  BY <1>6, <1>7, <1>8 DEF AFew, t, N

(* t holds what is left as the nodes are dropped.                           *)
DroppedAre(s, gone, t) ==
  t = [i \in 0 .. Len(gone) |->
         IF i = 0 THEN s ELSE Drop(t[i - 1], gone[Len(gone) + 1 - i])]

(* Dropped is such a function.                                              *)
LEMMA DroppedExist ==
  ASSUME NEW s, NEW gone, AFew(s, gone)
  PROVE  DroppedAre(s, gone, Dropped(s, gone))
<1>1. Len(gone) \in 0 .. 2
  BY ShortSequences DEF AFew
<1> DEFINE a == Drop(s, gone[Len(gone) + 1 - 1])
           b == Drop(a, gone[Len(gone) + 1 - 2])
           t == [i \in 0 .. Len(gone) |-> IF i = 0 THEN s ELSE IF i = 1 THEN a ELSE b]
           u == [i \in 0 .. Len(gone) |->
                   IF i = 0 THEN s ELSE Drop(t[i - 1], gone[Len(gone) + 1 - i])]
<1>2. ASSUME NEW i \in 0 .. Len(gone) PROVE u[i] = t[i]
  <2> HIDE DEF a, b
  <2>1. CASE i = 0
    BY <2>1
  <2>2. CASE i = 1
    <3>1. 0 \in 0 .. Len(gone) /\ i - 1 = 0
      BY <1>1, <2>2
    <3>2. t[0] = s
      BY <3>1
    <3> HIDE DEF t
    <3>3. u[i] = Drop(t[i - 1], gone[Len(gone) + 1 - i])
      BY <2>2
    <3> QED
      BY <2>2, <3>1, <3>2, <3>3 DEF a, t
  <2>3. CASE i = 2
    <3>1. 1 \in 0 .. Len(gone) /\ i - 1 = 1
      BY <1>1, <2>3
    <3>2. t[1] = a /\ t[i] = b
      BY <2>3, <3>1
    <3> HIDE DEF t
    <3>3. u[i] = Drop(t[i - 1], gone[Len(gone) + 1 - i])
      BY <2>3
    <3> QED
      BY <2>3, <3>1, <3>2, <3>3 DEF b
  <2>4. i = 0 \/ i = 1 \/ i = 2
    <3>1. PICK k \in 0 .. 2 : k = Len(gone)
      BY <1>1
    <3>2. i \in 0 .. k
      BY <3>1
    <3> HIDE DEF t, u
    <3> QED
      BY <3>2
  <2> QED
    BY <2>1, <2>2, <2>3, <2>4
<1>3. t = u
  <2>1. t = [i \in 0 .. Len(gone) |-> t[i]]
    OBVIOUS
  <2>2. u = [i \in 0 .. Len(gone) |-> u[i]]
    <3> HIDE DEF t
    <3> QED
      OBVIOUS
  <2> HIDE DEF t, u
  <2> QED
    BY <1>2, <2>1, <2>2
<1> HIDE DEF t
<1>4. DroppedAre(s, gone, t)
  BY <1>3 DEF DroppedAre
<1>5. \E x : DroppedAre(s, gone, x)
  BY <1>4
<1>6. Dropped(s, gone) = CHOOSE x : DroppedAre(s, gone, x)
  BY DEF Dropped, DroppedAre
<1> QED
  BY <1>5, <1>6

(* r is what is left of s when the nodes of G are dropped.                  *)
LeftOf(s, r, G) ==
  /\ Typed(r) /\ IdsFound(r) /\ r.name_table = s.name_table
  /\ r.nodes = [m \in Live(s) \ G |-> s.nodes[m]]
  /\ Live(r) = Live(s) \ G /\ SameRest(s, r)
  /\ Elements(r.lru_table) = Elements(s.lru_table) \ G

(* What is left after the nodes have been dropped.                          *)
LEMMA DroppedKeeps ==
  ASSUME NEW s, Typed(s), IdsFound(s), NEW gone, AFew(s, gone)
  PROVE  LeftOf(s, Dropped(s, gone)[Len(gone)], Elements(gone))
<1> DEFINE t == Dropped(s, gone)
<1>1. DroppedAre(s, gone, t)
  BY DroppedExist
<1> HIDE DEF t
<1>3. Len(gone) \in 0 .. 2
  BY ShortSequences DEF AFew
<1>4. t[0] = s
  BY <1>1, <1>3 DEF DroppedAre
<1>5. \A i \in 1 .. Len(gone) : t[i] = Drop(t[i - 1], gone[Len(gone) + 1 - i])
  BY <1>1, <1>3 DEF DroppedAre
<1>6. CASE gone = <<>>
  <2>1. Len(gone) = 0 /\ Elements(gone) = {}
    BY <1>6, ShortSequences
  <2>2. s.nodes = [m \in Live(s) |-> s.nodes[m]]
    BY DEF Typed
  <2>3. LeftOf(s, s, {})
    BY <2>2 DEF LeftOf, SameRest
  <2> QED
    BY <1>4, <2>1, <2>3 DEF t
<1>7. ASSUME NEW n \in Live(s), gone = <<n>>
      PROVE  LeftOf(s, t[Len(gone)], Elements(gone))
  <2>1. Len(gone) = 1 /\ gone[1] = n /\ Elements(gone) = {n}
    BY <1>7, ShortSequences
  <2>2. t[1] = Drop(s, n)
    BY <1>4, <1>5, <2>1
  <2>3. LeftOf(s, t[1], {n})
    BY <2>2, DropKeeps DEF LeftOf
  <2> QED
    BY <2>1, <2>3
<1>8. ASSUME NEW n \in Live(s), NEW p \in Live(s), n # p, gone = <<n, p>>
      PROVE  LeftOf(s, t[Len(gone)], Elements(gone))
  <2>1. Len(gone) = 2 /\ gone[1] = n /\ gone[2] = p /\ Elements(gone) = {n, p}
    BY <1>8, ShortSequences
  <2>2. t[1] = Drop(s, p)
    BY <1>4, <1>5, <2>1
  <2>3. LeftOf(s, t[1], {p})
    BY <2>2, DropKeeps DEF LeftOf
  <2>4. n \in Live(t[1]) /\ t[2] = Drop(t[1], n)
    BY <1>5, <1>8, <2>1, <2>3 DEF LeftOf
  <2>5. LeftOf(t[1], t[2], {n})
    BY <2>3, <2>4, DropKeeps DEF LeftOf
  <2>6. LeftOf(s, t[2], {n, p})
    <3>1. (Live(s) \ {p}) \ {n} = Live(s) \ {n, p}
      OBVIOUS
    <3>2. t[2].nodes = [m \in Live(s) \ {n, p} |-> s.nodes[m]]
      BY <2>3, <2>5, <3>1 DEF LeftOf
    <3>3. Elements(t[2].lru_table) = Elements(s.lru_table) \ {n, p}
      BY <2>3, <2>5 DEF LeftOf
    <3> QED
      BY <2>3, <2>5, <3>1, <3>2, <3>3 DEF LeftOf, SameRest
  <2> QED
    BY <2>1, <2>6
<1> QED
  BY <1>6, <1>7, <1>8 DEF AFew, t

-----------------------------------------------------------------------------
(* One field of one node changes.                                           *)

(* The fields of a node.                                                    *)
NodeIs(x, a, p, l, c) == x.name = a /\ x.parent = p /\ x.nlookup = l /\ x.refctr = c

(* One field of a node changes.                                             *)
LEMMA NodeUpdates ==
  ASSUME NEW x \in NodeRecords
  PROVE  /\ NodeIs(x, x.name, x.parent, x.nlookup, x.refctr)
         /\ x.name \in Names \cup {NoName} /\ x.parent \in Ids \cup {None}
         /\ x.nlookup \in Nat /\ x.refctr \in Nat
         /\ \A a \in Names \cup {NoName} :
              /\ [x EXCEPT !.name = a] \in NodeRecords
              /\ NodeIs([x EXCEPT !.name = a], a, x.parent, x.nlookup, x.refctr)
         /\ \A p \in Ids \cup {None} :
              /\ [x EXCEPT !.parent = p] \in NodeRecords
              /\ NodeIs([x EXCEPT !.parent = p], x.name, p, x.nlookup, x.refctr)
         /\ \A l \in Nat :
              /\ [x EXCEPT !.nlookup = l] \in NodeRecords
              /\ NodeIs([x EXCEPT !.nlookup = l], x.name, x.parent, l, x.refctr)
         /\ \A c \in Nat :
              /\ [x EXCEPT !.refctr = c] \in NodeRecords
              /\ NodeIs([x EXCEPT !.refctr = c], x.name, x.parent, x.nlookup, c)
BY DEF NodeRecords, NodeIs

(* r is s but for the node n.                                               *)
Nodes(s) == IsState(s) /\ s.nodes \in [Live(s) -> NodeRecords]
(* r is s but for the node n.                                               *)
Changed(s, r, n) ==
  /\ Nodes(r) /\ Live(r) = Live(s) /\ SameRest(s, r)
  /\ r.id_table = s.id_table /\ r.name_table = s.name_table /\ r.lru_table = s.lru_table
  /\ \A m \in Live(s) \ {n} : r.nodes[m] = s.nodes[m]

(* One node changes.                                                        *)
LEMMA ChangeNode ==
  ASSUME NEW s, Nodes(s), NEW n \in Live(s), NEW x \in NodeRecords
  PROVE  LET r == [s EXCEPT !.nodes[n] = x] IN Changed(s, r, n) /\ r.nodes[n] = x
<1> DEFINE y == [s.nodes EXCEPT ![n] = x]
           r == [s EXCEPT !.nodes = y]
<1>1. y \in [Live(s) -> NodeRecords] /\ y[n] = x /\ \A m \in Live(s) \ {n} : y[m] = s.nodes[m]
  BY DEF Nodes
<1>2. DOMAIN y = Live(s)
  BY <1>1
<1> HIDE DEF y
<1>3. Fields(r, y, s.ctr, s.generation, s.id_table, s.name_table, s.lru_table)
  BY StateUpdates DEF Nodes
<1> HIDE DEF r
<1>4. Changed(s, r, n) /\ r.nodes[n] = x
  BY <1>1, <1>2, <1>3 DEF Fields, Changed, Nodes, SameRest, Live
<1> QED
  BY <1>4 DEF r, y

(* One field of one node changes.                                           *)
LEMMA ChangeFields ==
  ASSUME NEW s, Nodes(s), NEW n \in Live(s)
  PROVE  LET x == s.nodes[n] IN
         /\ \A a \in Names \cup {NoName} : LET r == [s EXCEPT !.nodes[n].name = a] IN
              Changed(s, r, n) /\ NodeIs(r.nodes[n], a, x.parent, x.nlookup, x.refctr)
         /\ \A p \in Ids \cup {None} : LET r == [s EXCEPT !.nodes[n].parent = p] IN
              Changed(s, r, n) /\ NodeIs(r.nodes[n], x.name, p, x.nlookup, x.refctr)
         /\ \A l \in Nat : LET r == [s EXCEPT !.nodes[n].nlookup = l] IN
              Changed(s, r, n) /\ NodeIs(r.nodes[n], x.name, x.parent, l, x.refctr)
         /\ \A c \in Nat : LET r == [s EXCEPT !.nodes[n].refctr = c] IN
              Changed(s, r, n) /\ NodeIs(r.nodes[n], x.name, x.parent, x.nlookup, c)
<1> DEFINE x == s.nodes[n]
<1>1. x \in NodeRecords
  BY DEF Nodes
<1>2. ASSUME NEW a \in Names \cup {NoName}
      PROVE  LET r == [s EXCEPT !.nodes[n].name = a] IN
               Changed(s, r, n) /\ NodeIs(r.nodes[n], a, x.parent, x.nlookup, x.refctr)
  <2> DEFINE y == [x EXCEPT !.name = a]
             r == [s EXCEPT !.nodes[n] = y]
  <2>1. y \in NodeRecords /\ NodeIs(y, a, x.parent, x.nlookup, x.refctr)
    BY <1>1, NodeUpdates
  <2> HIDE DEF y
  <2>2. Changed(s, r, n) /\ r.nodes[n] = y
    BY <2>1, ChangeNode
  <2> HIDE DEF r
  <2>3. Changed(s, r, n) /\ NodeIs(r.nodes[n], a, x.parent, x.nlookup, x.refctr)
    BY <2>1, <2>2
  <2> QED
    BY <2>3 DEF r, y
<1>3. ASSUME NEW p \in Ids \cup {None}
      PROVE  LET r == [s EXCEPT !.nodes[n].parent = p] IN
               Changed(s, r, n) /\ NodeIs(r.nodes[n], x.name, p, x.nlookup, x.refctr)
  <2> DEFINE y == [x EXCEPT !.parent = p]
             r == [s EXCEPT !.nodes[n] = y]
  <2>1. y \in NodeRecords /\ NodeIs(y, x.name, p, x.nlookup, x.refctr)
    BY <1>1, NodeUpdates
  <2> HIDE DEF y
  <2>2. Changed(s, r, n) /\ r.nodes[n] = y
    BY <2>1, ChangeNode
  <2> HIDE DEF r
  <2>3. Changed(s, r, n) /\ NodeIs(r.nodes[n], x.name, p, x.nlookup, x.refctr)
    BY <2>1, <2>2
  <2> QED
    BY <2>3 DEF r, y
<1>4. ASSUME NEW l \in Nat
      PROVE  LET r == [s EXCEPT !.nodes[n].nlookup = l] IN
               Changed(s, r, n) /\ NodeIs(r.nodes[n], x.name, x.parent, l, x.refctr)
  <2> DEFINE y == [x EXCEPT !.nlookup = l]
             r == [s EXCEPT !.nodes[n] = y]
  <2>1. y \in NodeRecords /\ NodeIs(y, x.name, x.parent, l, x.refctr)
    BY <1>1, NodeUpdates
  <2> HIDE DEF y
  <2>2. Changed(s, r, n) /\ r.nodes[n] = y
    BY <2>1, ChangeNode
  <2> HIDE DEF r
  <2>3. Changed(s, r, n) /\ NodeIs(r.nodes[n], x.name, x.parent, l, x.refctr)
    BY <2>1, <2>2
  <2> QED
    BY <2>3 DEF r, y
<1>5. ASSUME NEW c \in Nat
      PROVE  LET r == [s EXCEPT !.nodes[n].refctr = c] IN
               Changed(s, r, n) /\ NodeIs(r.nodes[n], x.name, x.parent, x.nlookup, c)
  <2> DEFINE y == [x EXCEPT !.refctr = c]
             r == [s EXCEPT !.nodes[n] = y]
  <2>1. y \in NodeRecords /\ NodeIs(y, x.name, x.parent, x.nlookup, c)
    BY <1>1, NodeUpdates
  <2> HIDE DEF y
  <2>2. Changed(s, r, n) /\ r.nodes[n] = y
    BY <2>1, ChangeNode
  <2> HIDE DEF r
  <2>3. Changed(s, r, n) /\ NodeIs(r.nodes[n], x.name, x.parent, x.nlookup, c)
    BY <2>1, <2>2
  <2> QED
    BY <2>3 DEF r, y
<1> QED
  BY <1>2, <1>3, <1>4, <1>5

(* What stays true of a state when one of its nodes changes.                *)
LEMMA ChangedTyped ==
  ASSUME NEW s, Typed(s), NEW r, NEW n, Changed(s, r, n)
  PROVE  Typed(r) /\ (IdsFound(s) => IdsFound(r))
<1>1. Typed(r)
  BY DEF Typed, Changed, Nodes, SameRest
<1>2. IdHashes(r) = IdHashes(s)
  BY DEF IdHashes, Changed
<1>3. IdsFound(s) => IdsFound(r)
  BY <1>2 DEF IdsFound, Changed
<1> QED
  BY <1>1, <1>3

-----------------------------------------------------------------------------
(* unref_node as a whole.                                                   *)

(* r is s without the nodes of G, whose parent top has lost a reference.    *)
Released(s, r, G, top) ==
  /\ Typed(r) /\ IdsFound(r) /\ Holding(r.name_table, Named(s) \ G, NameHashes(s))
  /\ Without(s, r, G)
  /\ \A m \in Live(r) :
       r.nodes[m].refctr = IF m = top THEN s.nodes[m].refctr - 1 ELSE s.nodes[m].refctr

(* unref_node takes the chain away and one reference from the node above    *)
(* it.                                                                      *)
LEMMA UnrefIs ==
  ASSUME NEW s, NEW E, Good(s, E), NEW n \in Live(s)
  PROVE  \E gone, top : Chain(s, n, gone, top)
                        /\ Released(s, UnrefNode(s, n), Elements(gone), top)
<1> DEFINE gone == Doomed(s)[n]
           k == Len(gone)
           top == IF k = 0 THEN n ELSE s.nodes[gone[k]].parent
           x == Unnamed(s, gone)[k]
           t == [s EXCEPT !.name_table = x]
           u == IF top = None THEN t ELSE [t EXCEPT !.nodes[top].refctr = @ - 1]
           r == Dropped(u, gone)[k]
           G == Elements(gone)
<1>0. UnrefNode(s, n) = r
  BY DEF UnrefNode
<1>1. Typed(s) /\ Tree(s) /\ Counted(s, E) /\ IdsFound(s) /\ NamesFound(s)
  BY DEF Good
<1>2. Chain(s, n, gone, top)
  BY <1>1, DoomedIsChain
<1> HIDE DEF gone, top
<1>3. AFew(s, gone) /\ TopOf(s, top)
  <2>1. n # None
    BY <1>1 DEF Typed, Ids, None
  <2>2. TopOf(s, top)
    BY <1>2 DEF Chain, TopOf
  <2>3. AFew(s, gone)
    BY <1>2 DEF Chain, AFew
  <2> QED
    BY <2>2, <2>3
<1>4. Holding(x, Named(s) \ G, NameHashes(s))
  BY <1>1, <1>3, UnnamedHolds
<1> HIDE DEF x, G
<1>5. Fields(t, s.nodes, s.ctr, s.generation, s.id_table, x, s.lru_table)
  BY <1>1, StateUpdates DEF Typed
<1> HIDE DEF t
<1>6. Typed(t) /\ IdsFound(t) /\ Live(t) = Live(s)
  <2>1. Live(t) = Live(s) /\ IdHashes(t) = IdHashes(s)
    BY <1>5 DEF Fields, Live, IdHashes
  <2> QED
    BY <1>1, <1>5, <2>1 DEF Fields, Typed, IdsFound
<1>7. /\ Typed(u) /\ IdsFound(u) /\ Live(u) = Live(s) /\ SameRest(s, u)
      /\ u.name_table = x /\ u.lru_table = s.lru_table
      /\ \A m \in Live(s) :
           /\ SameNode(s, u, m)
           /\ u.nodes[m].refctr = IF m = top THEN s.nodes[m].refctr - 1
                                             ELSE s.nodes[m].refctr
  <2>1. CASE top = None
    <3>1. top \notin Live(s)
      BY <1>1, <2>1 DEF Typed, Ids, None
    <3>2. u = t
      BY <2>1
    <3> HIDE DEF u
    <3> QED
      BY <1>5, <1>6, <3>1, <3>2 DEF Fields, SameRest, SameNode
  <2>2. CASE top # None
    <3>1. top \in Live(t) /\ s.nodes[top].refctr > 1 /\ t.nodes = s.nodes
      BY <1>3, <1>5, <1>6, <2>2 DEF TopOf, Fields
    <3>2. s.nodes[top].refctr - 1 \in Nat
      BY <1>1, <1>6, <3>1 DEF Typed, NodeRecords
    <3> DEFINE c == s.nodes[top].refctr - 1
               y == t.nodes[top]
    <3>3. u = [t EXCEPT !.nodes[top].refctr = c]
      BY <2>2, <3>1
    <3> HIDE DEF u, c
    <3>4. Changed(t, u, top) /\ NodeIs(u.nodes[top], y.name, y.parent, y.nlookup, c)
      BY <1>6, <3>1, <3>2, <3>3, ChangeFields DEF Typed, Nodes, c
    <3>5. Typed(u) /\ IdsFound(u)
      BY <1>6, <3>4, ChangedTyped
    <3>6. ASSUME NEW m \in Live(s)
          PROVE  /\ SameNode(s, u, m)
                 /\ u.nodes[m].refctr = IF m = top THEN s.nodes[m].refctr - 1
                                                   ELSE s.nodes[m].refctr
      <4>1. CASE m = top
        BY <3>1, <3>4, <4>1 DEF NodeIs, SameNode, c
      <4>2. CASE m # top
        BY <1>6, <3>1, <3>4, <4>2 DEF Changed, SameNode
      <4> QED
        BY <4>1, <4>2
    <3> QED
      BY <1>5, <1>6, <3>4, <3>5, <3>6 DEF Fields, Changed, SameRest
  <2> QED
    BY <2>1, <2>2
<1> HIDE DEF u
<1>8. AFew(u, gone)
  BY <1>3, <1>7 DEF AFew
<1>9. LeftOf(u, r, G)
  BY <1>7, <1>8, DroppedKeeps DEF G
<1> HIDE DEF r
<1>10. Live(r) = Live(s) \ G /\ \A m \in Live(r) : r.nodes[m] = u.nodes[m] /\ m \in Live(s)
  BY <1>7, <1>9 DEF LeftOf
<1>11. \A m \in Live(r) : SameNode(s, r, m)
  BY <1>7, <1>10 DEF SameNode
<1>12. Without(s, r, G)
  BY <1>7, <1>9, <1>10, <1>11 DEF Without, LeftOf, SameRest
<1>13. Released(s, r, G, top)
  BY <1>4, <1>7, <1>9, <1>10, <1>12 DEF Released, LeftOf
<1> QED
  BY <1>0, <1>2, <1>13 DEF G

(* What the nodes that go have in common: they are not looked up, nothing   *)
(* else counts on them, and what was below them goes too.                   *)
LEMMA ChainIsUnused ==
  ASSUME NEW s, NEW E, Good(s, E), NEW n \in E, NEW gone, NEW top, Chain(s, n, gone, top)
  PROVE  LET G == Elements(gone) IN
         /\ G \subseteq Live(s) /\ top \notin G
         /\ \A m \in G : /\ s.nodes[m].nlookup = 0 /\ m \notin E \ {n}
                         /\ Kids(s, m) \subseteq G
         /\ \A m \in Live(s) \ G :
              Cardinality(Kids(s, m) \ G) + (IF m \in E \ {n} THEN 1 ELSE 0)
                = Cardinality(Kids(s, m)) + (IF m \in E THEN 1 ELSE 0) - (IF m = top THEN 1 ELSE 0)
<1> DEFINE G == Elements(gone)
<1>1. Typed(s) /\ Tree(s) /\ Counted(s, E) /\ E \subseteq Live(s)
  BY DEF Good
<1>2. /\ \A m \in Live(s) : s.nodes[m].refctr = CountOf(s, E, m) /\ s.nodes[m].refctr \in Nat
                            /\ s.nodes[m].nlookup \in Nat
      /\ \A m : IsFiniteSet(Kids(s, m)) /\ Cardinality(Kids(s, m)) \in Nat
  <2>1. \A m \in Live(s) : s.nodes[m] \in NodeRecords
    BY <1>1 DEF Typed
  <2>2. \A m : IsFiniteSet(Kids(s, m)) /\ Cardinality(Kids(s, m)) \in Nat
    BY <1>1, HashesAreNumbers, FS_CardinalityType DEF Kids
  <2> QED
    BY <1>1, <2>1, <2>2 DEF Counted, NodeRecords
<1>3. CASE gone = <<>> /\ top = n
  <2>1. G = {}
    BY <1>3, ShortSequences
  <2>2. \A m : Kids(s, m) \ G = Kids(s, m)
    BY <2>1
  <2> HIDE DEF G
  <2>3. \A m \in Live(s) :
          Cardinality(Kids(s, m) \ G) + (IF m \in E \ {n} THEN 1 ELSE 0)
            = Cardinality(Kids(s, m)) + (IF m \in E THEN 1 ELSE 0) - (IF m = top THEN 1 ELSE 0)
    <3> SUFFICES ASSUME NEW m \in Live(s)
                 PROVE  Cardinality(Kids(s, m) \ G) + (IF m \in E \ {n} THEN 1 ELSE 0)
                          = Cardinality(Kids(s, m)) + (IF m \in E THEN 1 ELSE 0)
                              - (IF m = top THEN 1 ELSE 0)
      OBVIOUS
    <3>1. PICK k \in Nat : k = Cardinality(Kids(s, m)) /\ k = Cardinality(Kids(s, m) \ G)
      BY <1>2, <2>2
    <3>2. CASE m = n
      BY <1>3, <3>1, <3>2
    <3>3. CASE m # n
      BY <1>3, <3>1, <3>3
    <3> QED
      BY <3>2, <3>3
  <2> QED
    BY <2>1, <2>3 DEF G
<1>4. CASE s.nodes[n].refctr <= 1
  <2>1. s.nodes[n].nlookup = 0 /\ Cardinality(Kids(s, n)) = 0
    BY <1>1, <1>2, <1>4 DEF CountOf
  <2>2. Kids(s, n) = {}
    BY <1>2, <2>1, FS_EmptySet
  <2>3. CASE gone = <<n>> /\ top = s.nodes[n].parent
    <3>1. G = {n}
      BY <2>3, ShortSequences
    <3>2. top # n
      BY <1>1, <2>3, ShortChains
    <3> HIDE DEF G
    <3>3. ASSUME NEW m \in Live(s) \ G
          PROVE  Cardinality(Kids(s, m) \ G) = Cardinality(Kids(s, m)) - (IF m = top THEN 1 ELSE 0)
      <4>1. n \in Kids(s, m) <=> m = top
        BY <1>1, <2>3 DEF Kids
      <4>2. Cardinality(Kids(s, m) \ {n}) =
              IF n \in Kids(s, m) THEN Cardinality(Kids(s, m)) - 1 ELSE Cardinality(Kids(s, m))
        BY <1>2, FS_RemoveElement
      <4> QED
        BY <1>2, <3>1, <4>1, <4>2
    <3>4. \A m \in Live(s) \ G :
            Cardinality(Kids(s, m) \ G) + (IF m \in E \ {n} THEN 1 ELSE 0)
              = Cardinality(Kids(s, m)) + (IF m \in E THEN 1 ELSE 0) - (IF m = top THEN 1 ELSE 0)
      BY <1>2, <3>1, <3>3
    <3> QED
      BY <1>1, <2>1, <2>2, <3>1, <3>2, <3>4 DEF G
  <2>4. ASSUME NEW p \in Live(s) \ {n}, gone = <<n, p>>, p = s.nodes[n].parent,
               top = s.nodes[p].parent, s.nodes[p].refctr <= 1
        PROVE  /\ G \subseteq Live(s) /\ top \notin G
               /\ \A m \in G : /\ s.nodes[m].nlookup = 0 /\ m \notin E \ {n}
                               /\ Kids(s, m) \subseteq G
               /\ \A m \in Live(s) \ G :
                    Cardinality(Kids(s, m) \ G) + (IF m \in E \ {n} THEN 1 ELSE 0)
                      = Cardinality(Kids(s, m)) + (IF m \in E THEN 1 ELSE 0)
                          - (IF m = top THEN 1 ELSE 0)
    <3>1. G = {n, p}
      BY <2>4, ShortSequences
    <3>2. n \in Live(s) /\ n \in Kids(s, p)
      BY <1>1, <2>4 DEF Kids
    <3>3. Cardinality(Kids(s, p)) # 0
      BY <1>2, <3>2, FS_EmptySet
    <3>4. s.nodes[p].nlookup = 0 /\ p \notin E /\ Cardinality(Kids(s, p)) = 1
      BY <1>2, <2>4, <3>3 DEF CountOf
    <3>5. Kids(s, p) = {n}
      BY <1>2, <3>2, <3>4, FS_Singleton
    <3>6. top # p /\ top # n
      <4>1. top # p
        BY <1>1, <2>4, ShortChains
      <4>2. top # n
        BY <2>2, <2>4, <3>2 DEF Kids
      <4> QED
        BY <4>1, <4>2
    <3> HIDE DEF G
    <3>7. ASSUME NEW m \in Live(s) \ G
          PROVE  Cardinality(Kids(s, m) \ G) = Cardinality(Kids(s, m)) - (IF m = top THEN 1 ELSE 0)
      <4>1. (p \in Kids(s, m) <=> m = top) /\ n \notin Kids(s, m)
        BY <1>1, <2>4, <3>1 DEF Kids
      <4>2. Cardinality(Kids(s, m) \ {p}) =
              IF p \in Kids(s, m) THEN Cardinality(Kids(s, m)) - 1 ELSE Cardinality(Kids(s, m))
        BY <1>2, FS_RemoveElement
      <4>3. Kids(s, m) \ G = Kids(s, m) \ {p}
        BY <3>1, <4>1
      <4>4. Cardinality(Kids(s, m) \ G) = Cardinality(Kids(s, m) \ {p})
        BY <4>3
      <4>5. CASE m = top
        BY <4>1, <4>2, <4>4, <4>5
      <4>6. CASE m # top
        BY <1>2, <4>1, <4>2, <4>4, <4>6
      <4> QED
        BY <4>5, <4>6
    <3>8. \A m \in Live(s) \ G :
            Cardinality(Kids(s, m) \ G) + (IF m \in E \ {n} THEN 1 ELSE 0)
              = Cardinality(Kids(s, m)) + (IF m \in E THEN 1 ELSE 0) - (IF m = top THEN 1 ELSE 0)
      BY <1>2, <3>1, <3>7
    <3> QED
      BY <2>1, <2>2, <3>1, <3>2, <3>4, <3>5, <3>6, <3>8
  <2> QED
    BY <1>3, <2>3, <2>4 DEF Chain
<1> QED
  BY <1>3, <1>4 DEF Chain

(* The nodes of G are not looked up, and E does not count on them.          *)
Unused(s, G, E) == \A m \in G : m \in Live(s) /\ s.nodes[m].nlookup = 0 /\ m \notin E

(* What the table of names holds after a change that leaves names alone.    *)
LEMMA NamesFoundAfter ==
  ASSUME NEW s, NEW r, NEW G, Live(r) = Live(s) \ G, \A m \in Live(r) : SameNode(s, r, m),
         Holding(r.name_table, Named(s) \ G, NameHashes(s))
  PROVE  NamesFound(r)
<1>1. Named(r) = Named(s) \ G
  BY DEF Named, SameNode
<1>2. \A m \in Named(r) : NameHashes(s)[m] = NameHashes(r)[m]
  BY DEF Named, NameHashes, SameNode
<1> QED
  BY <1>1, <1>2, HoldsSame DEF NamesFound, Holding

(* The tree is left a tree when nodes go with all that is below them.       *)
LEMMA TreeAfter ==
  ASSUME NEW s, Typed(s), Tree(s), NEW r, NEW G, Live(r) = Live(s) \ G, Root \notin G,
         \A m \in Live(r) : SameNode(s, r, m), \A m \in G : Kids(s, m) \subseteq G
  PROVE  Tree(r)
<1>1. ASSUME NEW m \in Live(r) PROVE HasPlace(r, m)
  <2>1. HasPlace(s, m) /\ SameNode(s, r, m) /\ m \in Live(s) /\ m \notin G
    BY DEF Tree
  <2> DEFINE p == s.nodes[m].parent
  <2>2. r.nodes[m].parent = p /\ r.nodes[m].name = s.nodes[m].name
    BY <2>1 DEF SameNode
  <2>3. p \in Live(s) \cup {None}
    BY <2>1 DEF HasPlace
  <2>4. p # None => p \in Live(r)
    <3>1. p \in G => m \in Kids(s, p)
      BY <2>1, <2>3 DEF Kids
    <3> QED
      BY <2>1, <2>3, <3>1
  <2>5. p # None => r.nodes[p].parent = s.nodes[p].parent
    BY <2>4 DEF SameNode
  <2> QED
    BY <2>1, <2>2, <2>3, <2>4, <2>5 DEF HasPlace
<1> QED
  BY <1>1 DEF Tree, SameNode

(* unref_node: with the reference that is given back the counts are right   *)
(* again, and what goes is not looked up and nothing is below it.           *)
LEMMA UnrefKeeps ==
  ASSUME NEW s, NEW E, Good(s, E), NEW n \in E
  PROVE  LET r == UnrefNode(s, n) IN
         Good(r, E \ {n}) /\ \E G : Without(s, r, G) /\ Unused(s, G, E \ {n})
<1> DEFINE r == UnrefNode(s, n)
<1>0. n \in Live(s) /\ Typed(s) /\ Tree(s) /\ Counted(s, E) /\ E \subseteq Live(s)
  BY DEF Good
<1>1. PICK gone, top : Chain(s, n, gone, top) /\ Released(s, r, Elements(gone), top)
  BY <1>0, UnrefIs
<1> DEFINE G == Elements(gone)
<1> HIDE DEF r
<1>2. /\ G \subseteq Live(s) /\ top \notin G
      /\ \A m \in G : /\ s.nodes[m].nlookup = 0 /\ m \notin E \ {n}
                      /\ Kids(s, m) \subseteq G
      /\ \A m \in Live(s) \ G :
           Cardinality(Kids(s, m) \ G) + (IF m \in E \ {n} THEN 1 ELSE 0)
             = Cardinality(Kids(s, m)) + (IF m \in E THEN 1 ELSE 0) - (IF m = top THEN 1 ELSE 0)
  BY <1>1, ChainIsUnused
<1>3. Released(s, r, G, top)
  BY <1>1
<1> HIDE DEF G
<1>4. /\ Typed(r) /\ IdsFound(r) /\ Without(s, r, G)
      /\ Live(r) = Live(s) \ G /\ \A m \in Live(r) : SameNode(s, r, m)
      /\ Holding(r.name_table, Named(s) \ G, NameHashes(s))
  BY <1>3 DEF Released, Without
<1>5. NamesFound(r)
  BY <1>4, NamesFoundAfter
<1>6. Root \notin G
  BY <1>0, <1>2 DEF Tree
<1>7. Tree(r)
  BY <1>0, <1>2, <1>4, <1>6, TreeAfter
<1>8. E \ {n} \subseteq Live(r)
  BY <1>0, <1>2, <1>4
<1>9. ASSUME NEW m \in Live(r) PROVE r.nodes[m].refctr = CountOf(r, E \ {n}, m)
  <2>1. Kids(r, m) = Kids(s, m) \ G
    BY <1>4 DEF Kids, SameNode
  <2>2. m \in Live(s) \ G /\ s.nodes[m].refctr = CountOf(s, E, m) /\ SameNode(s, r, m)
    BY <1>0, <1>4 DEF Counted
  <2>3. r.nodes[m].refctr = IF m = top THEN s.nodes[m].refctr - 1 ELSE s.nodes[m].refctr
    BY <1>3 DEF Released
  <2>4. PICK k \in Nat : k = Cardinality(Kids(s, m))
    BY <1>0, HashesAreNumbers, FS_CardinalityType DEF Kids
  <2>5. PICK l \in Nat : l = Cardinality(Kids(r, m))
    BY <1>4, HashesAreNumbers, FS_CardinalityType DEF Kids
  <2>6. PICK v \in {0, 1} : v = IF s.nodes[m].nlookup > 0 THEN 1 ELSE 0
    OBVIOUS
  <2>7. PICK e \in {0, 1} : e = IF m \in E THEN 1 ELSE 0
    OBVIOUS
  <2>8. PICK d \in {0, 1} : d = IF m \in E \ {n} THEN 1 ELSE 0
    OBVIOUS
  <2>9. PICK o \in {0, 1} : o = IF m = top THEN 1 ELSE 0
    OBVIOUS
  <2>10. l + d = k + e - o
    BY <1>2, <2>1, <2>2, <2>4, <2>5, <2>7, <2>8, <2>9
  <2>11. s.nodes[m].refctr = v + k + e
    BY <2>2, <2>4, <2>6, <2>7 DEF CountOf
  <2>12. r.nodes[m].refctr = s.nodes[m].refctr - o
    BY <2>3, <2>9, <2>11
  <2>13. CountOf(r, E \ {n}, m) = v + l + d
    BY <2>2, <2>5, <2>6, <2>8 DEF CountOf, SameNode
  <2> QED
    BY <2>10, <2>11, <2>12, <2>13
<1>10. Good(r, E \ {n})
  BY <1>4, <1>5, <1>7, <1>8, <1>9 DEF Good, Counted
<1>11. Unused(s, G, E \ {n})
  BY <1>2 DEF Unused
<1> QED
  BY <1>4, <1>10, <1>11 DEF r

-----------------------------------------------------------------------------
(* unhash_name                                                              *)

(* One element less, in terms of sets of entries.                           *)
LEMMA KidsFinite ==
  ASSUME NEW s, Typed(s)
  PROVE  \A m : IsFiniteSet(Kids(s, m)) /\ Cardinality(Kids(s, m)) \in Nat
BY HashesAreNumbers, FS_CardinalityType DEF Kids

(* The node n loses its name, and its parent is still to be given back.     *)
Unnaming(s, n) ==
  [s EXCEPT !.name_table = Delete(@, n, NameHashes(s)),
            !.nodes[n].name = NoName, !.nodes[n].parent = None]

(* r is s but for the name of n.                                            *)
NameGone(s, r, n) ==
  /\ IsState(r) /\ Live(r) = Live(s) /\ SameRest(s, r)
  /\ r.nodes \in [Live(s) -> NodeRecords]
  /\ r.id_table = s.id_table /\ r.lru_table = s.lru_table
  /\ \A m \in Live(s) \ {n} : r.nodes[m] = s.nodes[m]
  /\ NodeIs(r.nodes[n], NoName, None, s.nodes[n].nlookup, s.nodes[n].refctr)

(* The name leaves the table, and nothing else changes.                     *)
LEMMA UnnamingIs ==
  ASSUME NEW s, Typed(s), NamesFound(s), NEW n \in Named(s)
  PROVE  LET r == Unnaming(s, n) IN
         NameGone(s, r, n) /\ Holding(r.name_table, Named(s) \ {n}, NameHashes(s))
<1> DEFINE d == Delete(s.name_table, n, NameHashes(s))
           t1 == [s EXCEPT !.name_table = d]
           t2 == [t1 EXCEPT !.nodes[n].name = NoName]
           t3 == [t2 EXCEPT !.nodes[n].parent = None]
<1>0. n \in Live(s)
  BY DEF Named
<1>1. Unnaming(s, n) = t3
  BY DEF Unnaming
<1>2. Holding(d, Named(s) \ {n}, NameHashes(s))
  <2>1. Hashed(Named(s), NameHashes(s))
    BY HashesAreNumbers DEF Named
  <2> QED
    BY <2>1, DeleteHolds DEF NamesFound
<1> HIDE DEF d
<1>3. Fields(t1, s.nodes, s.ctr, s.generation, s.id_table, d, s.lru_table)
  BY StateUpdates DEF Typed
<1> HIDE DEF t1
<1>4. Nodes(t1) /\ Live(t1) = Live(s) /\ t1.nodes = s.nodes
  BY <1>3 DEF Fields, Nodes, Typed, Live
<1>5. /\ Changed(t1, t2, n)
      /\ NodeIs(t2.nodes[n], NoName, s.nodes[n].parent, s.nodes[n].nlookup, s.nodes[n].refctr)
  BY <1>0, <1>4, ChangeFields
<1> HIDE DEF t2
<1>6. Nodes(t2) /\ n \in Live(t2)
  BY <1>0, <1>4, <1>5 DEF Changed
<1>7. /\ Changed(t2, t3, n)
      /\ NodeIs(t3.nodes[n], t2.nodes[n].name, None, t2.nodes[n].nlookup, t2.nodes[n].refctr)
  BY <1>6, ChangeFields
<1> HIDE DEF t3
<1>8. NameGone(s, t3, n) /\ t3.name_table = d
  BY <1>3, <1>4, <1>5, <1>7 DEF Fields, Changed, Nodes, SameRest, NameGone, NodeIs
<1> QED
  BY <1>1, <1>2, <1>8

(* The counts, with the reference of the parent on the way back.            *)
LEMMA UnnamingGood ==
  ASSUME NEW s, NEW E, Good(s, E), NEW n \in Named(s), s.nodes[n].parent \notin E,
         NEW r, NameGone(s, r, n), Holding(r.name_table, Named(s) \ {n}, NameHashes(s))
  PROVE  Good(r, E \cup {s.nodes[n].parent})
<1> DEFINE dir == s.nodes[n].parent
<1>0. /\ Typed(s) /\ Tree(s) /\ Counted(s, E) /\ E \subseteq Live(s) /\ IdsFound(s)
      /\ n \in Live(s) /\ s.nodes[n].name # NoName
  BY DEF Good, Named
<1>1. dir \in Live(s) /\ n # Root /\ dir # n
  <2>1. HasPlace(s, n) /\ n # Root
    BY <1>0 DEF Tree
  <2>2. dir # n
    BY <1>0, ShortChains
  <2> QED
    BY <1>0, <2>1, <2>2 DEF HasPlace
<1>2. /\ Live(r) = Live(s) /\ \A m \in Live(s) \ {n} : r.nodes[m] = s.nodes[m]
      /\ r.nodes[n].name = NoName /\ r.nodes[n].parent = None
      /\ r.nodes[n].nlookup = s.nodes[n].nlookup /\ r.nodes[n].refctr = s.nodes[n].refctr
  BY DEF NameGone, NodeIs
<1>3. Typed(r)
  BY <1>0 DEF Typed, NameGone, SameRest
<1>4. IdsFound(r)
  <2>1. IdHashes(r) = IdHashes(s)
    BY <1>2 DEF IdHashes
  <2> QED
    BY <1>0, <1>2, <2>1 DEF IdsFound, NameGone
<1>5. NamesFound(r)
  <2>1. Named(r) = Named(s) \ {n}
    BY <1>2 DEF Named
  <2>2. \A m \in Named(r) : NameHashes(s)[m] = NameHashes(r)[m]
    BY <1>2, <2>1 DEF NameHashes, Named
  <2> QED
    BY <2>1, <2>2, HoldsSame DEF NamesFound, Holding
<1>6. None \notin Live(s)
  BY <1>0 DEF Typed, Ids, None
<1>7. Tree(r)
  <2>1. ASSUME NEW m \in Live(r) PROVE HasPlace(r, m)
    <3>1. HasPlace(s, m) /\ m \in Live(s)
      BY <1>0, <1>2 DEF Tree
    <3>2. CASE m = n
      BY <1>2, <3>2 DEF HasPlace
    <3>3. CASE m # n
      <4>1. r.nodes[m] = s.nodes[m]
        BY <1>2, <3>1, <3>3
      <4>2. s.nodes[m].parent \in Live(s) =>
              \/ r.nodes[s.nodes[m].parent].parent = None
              \/ r.nodes[s.nodes[m].parent].parent = s.nodes[s.nodes[m].parent].parent
        BY <1>2
      <4> QED
        BY <1>2, <3>1, <4>1, <4>2 DEF HasPlace
    <3> QED
      BY <3>2, <3>3
  <2> QED
    BY <1>0, <1>1, <1>2, <2>1 DEF Tree
<1>8. ASSUME NEW m \in Live(r) PROVE r.nodes[m].refctr = CountOf(r, E \cup {dir}, m)
  <2>0. m \in Live(s) /\ r.nodes[m].refctr = s.nodes[m].refctr
        /\ r.nodes[m].nlookup = s.nodes[m].nlookup /\ s.nodes[m].refctr = CountOf(s, E, m)
    BY <1>0, <1>2 DEF Counted
  <2>1. Kids(r, m) = Kids(s, m) \ {n}
    BY <1>2, <1>6, <2>0 DEF Kids
  <2>2. n \in Kids(s, m) <=> m = dir
    BY <1>0 DEF Kids
  <2>3. IsFiniteSet(Kids(s, m)) /\ Cardinality(Kids(s, m)) \in Nat
    BY <1>0, KidsFinite
  <2>4. Cardinality(Kids(r, m)) = IF m = dir THEN Cardinality(Kids(s, m)) - 1
                                            ELSE Cardinality(Kids(s, m))
    BY <2>1, <2>2, <2>3, FS_RemoveElement
  <2>5. PICK v \in {0, 1} : v = IF s.nodes[m].nlookup > 0 THEN 1 ELSE 0
    OBVIOUS
  <2>6. PICK k \in Nat : k = Cardinality(Kids(s, m))
    BY <2>3
  <2> HIDE DEF dir
  <2>7. CASE m = dir
    <3>1. CountOf(s, E, m) = v + k + 0
      BY <2>5, <2>6, <2>7 DEF CountOf, dir
    <3>2. CountOf(r, E \cup {dir}, m) = v + (k - 1) + 1
      BY <2>0, <2>4, <2>5, <2>6, <2>7 DEF CountOf
    <3> QED
      BY <2>0, <3>1, <3>2
  <2>8. CASE m # dir
    BY <2>0, <2>4, <2>8 DEF CountOf
  <2> QED
    BY <2>7, <2>8
<1>9. E \cup {dir} \subseteq Live(r)
  BY <1>0, <1>1, <1>2
<1> QED
  BY <1>3, <1>4, <1>5, <1>7, <1>8, <1>9 DEF Good, Counted

(* From s to r the node n has lost its name, and the nodes of G have gone.  *)
Unhashed(s, r, n, G) ==
  /\ Live(r) = Live(s) \ G /\ SameRest(s, r)
  /\ \A m \in Live(r) \ {n} : SameNode(s, r, m)
  /\ n \in Live(r) => /\ r.nodes[n].name = NoName /\ r.nodes[n].parent = None
                      /\ r.nodes[n].nlookup = s.nodes[n].nlookup
  /\ Elements(r.lru_table) = Elements(s.lru_table) \ G

(* unhash_name: the name and the reference to the parent are given back.    *)
LEMMA UnhashKeeps ==
  ASSUME NEW s, NEW E, Good(s, E), NEW n \in Live(s), s.nodes[n].parent \notin E
  PROVE  LET r == UnhashName(s, n) IN
         Good(r, E) /\ \E G : Unhashed(s, r, n, G) /\ Unused(s, G, E)
<1> DEFINE dir == s.nodes[n].parent
           t == Unnaming(s, n)
           r == UnhashName(s, n)
<1>0. Typed(s) /\ Tree(s) /\ NamesFound(s)
  BY DEF Good
<1>1. CASE s.nodes[n].name = NoName
  <2>1. r = s
    BY <1>1 DEF UnhashName
  <2>2. HasPlace(s, n)
    BY <1>0 DEF Tree
  <2>3. Unhashed(s, s, n, {}) /\ Unused(s, {}, E)
    BY <1>1, <2>2 DEF Unhashed, Unused, SameRest, SameNode, HasPlace
  <2> QED
    BY <2>1, <2>3
<1>2. CASE s.nodes[n].name # NoName
  <2>1. n \in Named(s)
    BY <1>2 DEF Named
  <2>2. r = UnrefNode(t, dir)
    BY <1>2 DEF UnhashName, Unnaming
  <2>3. NameGone(s, t, n) /\ Holding(t.name_table, Named(s) \ {n}, NameHashes(s))
    BY <1>0, <2>1, UnnamingIs
  <2> HIDE DEF t, r
  <2>4. Good(t, E \cup {dir})
    BY <2>1, <2>3, UnnamingGood
  <2> HIDE DEF dir
  <2>5. /\ Good(r, (E \cup {dir}) \ {dir})
        /\ \E G : Without(t, r, G) /\ Unused(t, G, (E \cup {dir}) \ {dir})
    BY <2>2, <2>4, UnrefKeeps
  <2>6. (E \cup {dir}) \ {dir} = E
    BY DEF dir
  <2>7. PICK G : Without(t, r, G) /\ Unused(t, G, E)
    BY <2>5, <2>6
  <2>8. /\ Live(t) = Live(s) /\ SameRest(s, t) /\ t.lru_table = s.lru_table
        /\ \A m \in Live(s) \ {n} : t.nodes[m] = s.nodes[m]
        /\ t.nodes[n].name = NoName /\ t.nodes[n].parent = None
        /\ t.nodes[n].nlookup = s.nodes[n].nlookup
    BY <2>3 DEF NameGone, NodeIs
  <2>9. Unhashed(s, r, n, G)
    BY <2>7, <2>8 DEF Unhashed, Without, SameNode, SameRest
  <2>10. Unused(s, G, E)
    BY <2>7, <2>8 DEF Unused
  <2> QED
    BY <2>5, <2>6, <2>9, <2>10 DEF r
<1> QED
  BY <1>1, <1>2

-----------------------------------------------------------------------------
(* The operations that add references and names.                            *)

(* All but the table of ids.                                                *)
Base(s, E) == Typed(s) /\ Tree(s) /\ E \subseteq Live(s) /\ Counted(s, E) /\ NamesFound(s)

(* Base is Good but for the table of ids.                                   *)
LEMMA GoodIs == \A s, E : Good(s, E) <=> Base(s, E) /\ IdsFound(s)
BY DEF Good, Base

(* The references to n by number change, and its count with them.           *)
LEMMA RecountKeeps ==
  ASSUME NEW s, NEW E, Base(s, E), NEW n \in Live(s), NEW r, Changed(s, r, n),
         NEW l \in Nat, NEW c \in Nat,
         NodeIs(r.nodes[n], s.nodes[n].name, s.nodes[n].parent, l, c),
         NEW F, F \subseteq Live(s), F \ {n} = E \ {n}, n = Root => l > 0,
         c = (IF l > 0 THEN 1 ELSE 0) + Cardinality(Kids(s, n)) + (IF n \in F THEN 1 ELSE 0)
  PROVE  /\ Base(r, F) /\ (IdsFound(s) => IdsFound(r))
         /\ \A m \in Live(r) \ {n} : SameNode(s, r, m)
<1>0. Typed(s) /\ Tree(s) /\ Counted(s, E) /\ NamesFound(s) /\ E \subseteq Live(s)
  BY DEF Base
<1>1. /\ Live(r) = Live(s) /\ r.name_table = s.name_table
      /\ \A m \in Live(s) \ {n} : r.nodes[m] = s.nodes[m]
      /\ r.nodes[n].name = s.nodes[n].name /\ r.nodes[n].parent = s.nodes[n].parent
      /\ r.nodes[n].nlookup = l /\ r.nodes[n].refctr = c
  BY DEF Changed, NodeIs
<1>2. Typed(r) /\ (IdsFound(s) => IdsFound(r))
  BY <1>0, ChangedTyped
<1>3. \A m \in Live(s) : r.nodes[m].name = s.nodes[m].name /\ r.nodes[m].parent = s.nodes[m].parent
  BY <1>1
<1>4. NamesFound(r)
  <2>1. Named(r) = Named(s)
    BY <1>1, <1>3 DEF Named
  <2>2. \A m \in Named(r) : NameHashes(s)[m] = NameHashes(r)[m]
    BY <1>1, <1>3, <2>1 DEF NameHashes, Named
  <2> QED
    BY <1>0, <1>1, <2>1, <2>2, HoldsSame DEF NamesFound, Holding
<1>5. Tree(r)
  <2>1. ASSUME NEW m \in Live(r) PROVE HasPlace(r, m)
    <3>1. HasPlace(s, m) /\ m \in Live(s)
      BY <1>0, <1>1 DEF Tree
    <3> QED
      BY <1>1, <1>3, <3>1 DEF HasPlace
  <2> QED
    BY <1>0, <1>1, <2>1 DEF Tree
<1>6. ASSUME NEW m \in Live(r) PROVE r.nodes[m].refctr = CountOf(r, F, m)
  <2>1. Kids(r, m) = Kids(s, m)
    BY <1>1, <1>3 DEF Kids
  <2>2. CASE m = n
    BY <1>1, <2>1, <2>2 DEF CountOf
  <2>3. CASE m # n
    <3>1. m \in F <=> m \in E
      BY <2>3
    <3> QED
      BY <1>0, <1>1, <2>1, <2>3, <3>1 DEF CountOf, Counted
  <2> QED
    BY <2>2, <2>3
<1> QED
  BY <1>1, <1>2, <1>4, <1>5, <1>6 DEF Base, Counted, SameNode

(* inc_nlookup                                                              *)
LEMMA IncLookupKeeps ==
  ASSUME NEW s, NEW E, Base(s, E), NEW n \in Live(s)
  PROVE  LET r == IncLookup(s, n) IN
         /\ Base(r, E) /\ (IdsFound(s) => IdsFound(r)) /\ Changed(s, r, n)
         /\ \A m \in Live(r) \ {n} : SameNode(s, r, m)
         /\ r.nodes[n].name = s.nodes[n].name /\ r.nodes[n].parent = s.nodes[n].parent
         /\ r.nodes[n].nlookup = s.nodes[n].nlookup + 1
<1> DEFINE x == s.nodes[n]
           c == x.refctr + (IF x.nlookup = 0 THEN 1 ELSE 0)
           t == [s EXCEPT !.nodes[n].refctr = c]
           l == x.nlookup + 1
           r == [t EXCEPT !.nodes[n].nlookup = l]
<1>0. /\ Typed(s) /\ Counted(s, E) /\ Nodes(s) /\ E \subseteq Live(s)
      /\ x.nlookup \in Nat /\ x.refctr \in Nat
  BY DEF Base, Typed, Nodes, NodeRecords
<1>1. c \in Nat /\ l \in Nat /\ l > 0
  BY <1>0
<1> HIDE DEF c, l
<1>2. Changed(s, t, n) /\ NodeIs(t.nodes[n], x.name, x.parent, x.nlookup, c)
  BY <1>0, <1>1, ChangeFields
<1>3. IncLookup(s, n) = r
  BY <1>2 DEF IncLookup, NodeIs, c, l
<1> HIDE DEF t
<1>4. Nodes(t) /\ n \in Live(t)
  BY <1>2 DEF Changed
<1>5. /\ Changed(t, r, n)
      /\ NodeIs(r.nodes[n], t.nodes[n].name, t.nodes[n].parent, l, t.nodes[n].refctr)
  BY <1>1, <1>4, ChangeFields
<1> HIDE DEF r
<1>6. Changed(s, r, n) /\ NodeIs(r.nodes[n], x.name, x.parent, l, c)
  BY <1>2, <1>5 DEF Changed, NodeIs, SameRest
<1>7. c = (IF l > 0 THEN 1 ELSE 0) + Cardinality(Kids(s, n)) + (IF n \in E THEN 1 ELSE 0)
  <2>1. Cardinality(Kids(s, n)) \in Nat
    BY <1>0, KidsFinite
  <2>2. x.refctr = CountOf(s, E, n)
    BY <1>0 DEF Counted
  <2> QED
    BY <1>0, <1>1, <2>1, <2>2 DEF CountOf, c
<1>8. /\ Base(r, E) /\ (IdsFound(s) => IdsFound(r))
      /\ \A m \in Live(r) \ {n} : SameNode(s, r, m)
  BY <1>0, <1>1, <1>6, <1>7, RecountKeeps
<1> QED
  BY <1>3, <1>6, <1>8 DEF NodeIs, l

-----------------------------------------------------------------------------
(* hash_name                                                                *)

(* Where a name may be given: by the bound on the directories no name is    *)
(* more than two levels deep.                                               *)
Room(s, n, dir) ==
  /\ dir \in Live(s) /\ dir # n /\ n # Root
  /\ \/ dir = Root
     \/ s.nodes[dir].parent \in {None, Root} /\ Kids(s, n) = {}

(* The node gets its name and its place, and its parent a reference.        *)
LEMMA HashNameKeeps ==
  ASSUME NEW s, NEW E, Base(s, E), NEW n \in Live(s), s.nodes[n].name = NoName,
         NEW dir, Room(s, n, dir), NEW name \in Names, NEW memory \in BOOLEAN
  PROVE  LET r == HashName(s, n, dir, name, memory) IN
         /\ Base(r, E) /\ (IdsFound(s) => IdsFound(r))
         /\ Live(r) = Live(s) /\ SameRest(s, r)
         /\ r.id_table = s.id_table /\ r.lru_table = s.lru_table
         /\ \A m \in Live(r) \ {n} : SameNode(s, r, m)
         /\ r.nodes[n].name = name /\ r.nodes[n].parent = dir
         /\ r.nodes[n].nlookup = s.nodes[n].nlookup
<1> DEFINE c == s.nodes[dir].refctr + 1
           t1 == [s EXCEPT !.nodes[dir].refctr = c]
           t2 == [t1 EXCEPT !.nodes[n].parent = dir]
           t == [t2 EXCEPT !.nodes[n].name = name]
           d == Insert(t.name_table, n, NameHashes(t), memory)
           r == [t EXCEPT !.name_table = d]
           x == s.nodes[n]
           y == s.nodes[dir]
<1>0. /\ Typed(s) /\ Tree(s) /\ Counted(s, E) /\ NamesFound(s) /\ Nodes(s) /\ E \subseteq Live(s)
      /\ x \in NodeRecords /\ y \in NodeRecords /\ dir \in Live(s) /\ dir # n /\ n # Root
  BY DEF Base, Typed, Nodes, Room
<1>1. c \in Nat /\ dir \in Ids \cup {None} /\ name \in Names \cup {NoName}
  BY <1>0 DEF Typed, NodeRecords
<1>2. HashName(s, n, dir, name, memory) = r
  BY DEF HashName
<1> HIDE DEF c
<1>3. Changed(s, t1, dir) /\ NodeIs(t1.nodes[dir], y.name, y.parent, y.nlookup, c)
  BY <1>0, <1>1, ChangeFields
<1> HIDE DEF t1
<1>4. Nodes(t1) /\ n \in Live(t1) /\ t1.nodes[n] = x
  BY <1>0, <1>3 DEF Changed
<1>5. Changed(t1, t2, n) /\ NodeIs(t2.nodes[n], x.name, dir, x.nlookup, x.refctr)
  BY <1>1, <1>4, ChangeFields
<1> HIDE DEF t2
<1>6. Nodes(t2) /\ n \in Live(t2)
  BY <1>4, <1>5 DEF Changed
<1>7. /\ Changed(t2, t, n)
      /\ NodeIs(t.nodes[n], name, t2.nodes[n].parent, t2.nodes[n].nlookup, t2.nodes[n].refctr)
  BY <1>1, <1>6, ChangeFields
<1> HIDE DEF t
<1>8. /\ Nodes(t) /\ Live(t) = Live(s) /\ SameRest(s, t)
      /\ t.id_table = s.id_table /\ t.name_table = s.name_table /\ t.lru_table = s.lru_table
      /\ \A m \in Live(s) \ {n, dir} : t.nodes[m] = s.nodes[m]
      /\ NodeIs(t.nodes[n], name, dir, x.nlookup, x.refctr)
      /\ NodeIs(t.nodes[dir], y.name, y.parent, y.nlookup, c)
  BY <1>0, <1>3, <1>5, <1>7 DEF Changed, SameRest, NodeIs
<1>9. Typed(t)
  BY <1>0, <1>8 DEF Typed, Nodes, SameRest
<1>10. \A m \in Live(s) \ {n} : SameNode(s, t, m)
  BY <1>0, <1>8 DEF SameNode, NodeIs
<1>11. n \notin Named(s) /\ Named(t) = Named(s) \cup {n} /\ Named(t) \subseteq Live(t)
  <2>1. name # NoName
    BY NodeTableAssumption
  <2> QED
    BY <1>8, <1>10, <2>1 DEF Named, NodeIs, SameNode
<1>12. Holding(d, Named(t), NameHashes(t))
  <2>1. \A m \in Named(s) : NameHashes(s)[m] = NameHashes(t)[m]
    BY <1>8, <1>10, <1>11 DEF NameHashes, Named, SameNode
  <2>2. Holding(t.name_table, Named(s), NameHashes(t))
    BY <1>0, <1>8, <2>1, HoldsSame DEF NamesFound, Holding
  <2>3. Hashed(Named(t), NameHashes(t))
    BY <1>9, <1>11, HashesAreNumbers
  <2>4. Hashed(Named(s), NameHashes(t)) /\ NameHashes(t)[n] \in Nat
    <3>1. IsFiniteSet(Named(s))
      BY <1>0, HashesAreNumbers DEF Named
    <3> QED
      BY <1>11, <2>3, <3>1 DEF Hashed
  <2> QED
    BY <1>11, <2>2, <2>4, InsertHolds
<1> HIDE DEF d
<1>13. Fields(r, t.nodes, t.ctr, t.generation, t.id_table, d, t.lru_table)
  BY <1>9, StateUpdates DEF Typed
<1> HIDE DEF r
<1>14. /\ r.nodes = t.nodes /\ Live(r) = Live(s) /\ SameRest(s, r) /\ r.id_table = s.id_table
       /\ r.name_table = d /\ r.lru_table = s.lru_table
  BY <1>8, <1>13 DEF Fields, Live, SameRest
<1>15. Typed(r)
  BY <1>8, <1>9, <1>13, <1>14 DEF Typed, Fields
<1>16. NamesFound(r)
  <2>1. Named(r) = Named(t) /\ NameHashes(r) = NameHashes(t)
    BY <1>8, <1>14 DEF Named, NameHashes
  <2> QED
    BY <1>12, <1>14, <2>1 DEF NamesFound
<1>17. IdsFound(s) => IdsFound(r)
  <2>1. IdHashes(r) = IdHashes(s)
    BY <1>14 DEF IdHashes
  <2> QED
    BY <1>14, <2>1 DEF IdsFound
<1>18. /\ \A m \in Live(s) \ {n} : SameNode(s, r, m)
       /\ NodeIs(r.nodes[n], name, dir, x.nlookup, x.refctr)
       /\ \A m \in Live(s) \ {n, dir} : r.nodes[m].refctr = s.nodes[m].refctr
       /\ r.nodes[dir].refctr = c
  BY <1>8, <1>10, <1>14 DEF SameNode, NodeIs
<1>19. s.nodes[n].parent = None /\ None \notin Live(s)
  BY <1>0 DEF Tree, HasPlace, Typed, Ids, None
<1>20. Tree(r)
  <2>1. ASSUME NEW m \in Live(r) PROVE HasPlace(r, m)
    <3>1. HasPlace(s, m) /\ m \in Live(s)
      BY <1>0, <1>14 DEF Tree
    <3>2. CASE m = n
      <4>1. dir = Root \/ s.nodes[dir].parent \in {None, Root}
        BY DEF Room
      <4>2. r.nodes[n].parent = dir /\ r.nodes[n].name = name /\ name # NoName
            /\ r.nodes[dir].parent = s.nodes[dir].parent
        BY <1>0, <1>18, NodeTableAssumption DEF NodeIs, SameNode
      <4> QED
        BY <1>0, <1>14, <1>19, <3>2, <4>1, <4>2 DEF HasPlace
    <3>3. CASE m # n
      <4> DEFINE p == s.nodes[m].parent
      <4>1. r.nodes[m].parent = p /\ r.nodes[m].name = s.nodes[m].name
        BY <1>18, <3>1, <3>3 DEF SameNode
      <4>2. CASE p # n
        <5>1. p \in Live(s) => r.nodes[p].parent = s.nodes[p].parent
          BY <1>18, <4>2 DEF SameNode
        <5> QED
          BY <1>14, <3>1, <4>1, <5>1 DEF HasPlace
      <4>3. CASE p = n
        <5>1. m \in Kids(s, n)
          BY <3>1, <4>3 DEF Kids
        <5>2. dir = Root
          BY <5>1 DEF Room
        <5>3. r.nodes[p].parent = Root
          BY <1>18, <4>3, <5>2 DEF NodeIs
        <5> QED
          BY <1>14, <3>1, <4>1, <4>3, <5>3 DEF HasPlace
      <4> QED
        BY <4>2, <4>3
    <3> QED
      BY <3>2, <3>3
  <2> QED
    BY <1>0, <1>14, <1>18, <2>1 DEF Tree, SameNode
<1>21. ASSUME NEW m \in Live(r) PROVE r.nodes[m].refctr = CountOf(r, E, m)
  <2>0. m \in Live(s) /\ s.nodes[m].refctr = CountOf(s, E, m)
        /\ r.nodes[m].nlookup = s.nodes[m].nlookup
    BY <1>0, <1>14, <1>18 DEF Counted, SameNode, NodeIs
  <2>1. IsFiniteSet(Kids(s, m)) /\ Cardinality(Kids(s, m)) \in Nat
    BY <1>0, KidsFinite
  <2>2. n \notin Kids(s, m)
    BY <1>19, <2>0 DEF Kids
  <2>3. CASE m = dir
    <3>1. Kids(r, m) = Kids(s, m) \cup {n}
      BY <1>14, <1>18, <2>3 DEF Kids, SameNode, NodeIs
    <3>2. Cardinality(Kids(r, m)) = Cardinality(Kids(s, m)) + 1
      BY <2>1, <2>2, <3>1, FS_AddElement
    <3>3. PICK k \in Nat : k = Cardinality(Kids(s, m))
      BY <2>1
    <3>4. r.nodes[m].refctr = s.nodes[m].refctr + 1
      BY <1>18, <2>3 DEF c
    <3> QED
      BY <2>0, <3>2, <3>3, <3>4 DEF CountOf
  <2>4. CASE m # dir
    <3>1. Kids(r, m) = Kids(s, m)
      BY <1>14, <1>18, <2>2, <2>4 DEF Kids, SameNode, NodeIs
    <3>2. r.nodes[m].refctr = s.nodes[m].refctr
      BY <1>18, <2>0, <2>4 DEF NodeIs
    <3> QED
      BY <2>0, <3>1, <3>2 DEF CountOf
  <2> QED
    BY <2>3, <2>4
<1>22. Base(r, E)
  BY <1>0, <1>14, <1>15, <1>16, <1>20, <1>21 DEF Base, Counted
<1> QED
  BY <1>2, <1>14, <1>17, <1>18, <1>22 DEF NodeIs

-----------------------------------------------------------------------------
(* next_id                                                                  *)

(* A node is found by its id if and only if it is there.                    *)
LEMMA FoundIsLive ==
  ASSUME NEW s, Typed(s), IdsFound(s), NEW id \in Ids
  PROVE  Found(s, id) <=> id \in Live(s)
<1> DEFINE t == s.id_table
           h == IdHash(id)
           b == Bucket(t, h)
<1>1. id \in Nat /\ h \in Nat
  BY NodeTableAssumption DEF Ids, IdHash
<1>2. IsTable(t) /\ \A c \in 0 .. t.size - 1 :
                      t.array[c] = {n \in Live(s) : Bucket(t, IdHashes(s)[n]) = c}
  BY HoldingBuckets DEF IdsFound
<1>3. b \in 0 .. t.size - 1
  <2>1. t.size \in Sizes /\ t.size \in Nat /\ t.size \div 2 \in Nat /\ t.size = 2 * (t.size \div 2)
    BY <1>2, SizeParts DEF IsTable
  <2>2. /\ (h % (t.size \div 2)) \in 0 .. t.size \div 2 - 1
        /\ (h % t.size) \in 0 .. t.size - 1
        /\ Bucket(t, h) = IF (h % (t.size \div 2)) >= t.split
                          THEN h % (t.size \div 2) ELSE h % t.size
    BY <1>1, <2>1, BucketIs
  <2> QED
    BY <2>1, <2>2
<1>4. \A n \in Live(s) : IdHashes(s)[n] = IdHash(n)
  BY HashesAreNumbers
<1>5. Found(s, id) <=> id \in t.array[b]
  BY DEF Found
<1> HIDE DEF b
<1>6. id \in t.array[b] <=> id \in Live(s) /\ Bucket(t, IdHashes(s)[id]) = b
  BY <1>2, <1>3
<1> QED
  BY <1>4, <1>5, <1>6 DEF b

(* While there are fewer nodes than ids, some id is free.                   *)
LEMMA SomeIdIsFree ==
  ASSUME NEW s, Typed(s), Cardinality(Live(s)) < MaxNodes
  PROVE  \E id \in 1 .. IdLimit - 2 : id \notin Live(s)
<1>1. IdLimit \in Nat /\ MaxNodes \in Nat /\ MaxNodes <= IdLimit - 2
  BY NodeTableAssumption
<1>2. IsFiniteSet(Live(s)) /\ Cardinality(Live(s)) \in Nat
  BY HashesAreNumbers, FS_CardinalityType
<1> SUFFICES ASSUME 1 .. IdLimit - 2 \subseteq Live(s) PROVE FALSE
  OBVIOUS
<1>3. IdLimit - 2 \in Int /\ 1 \in Int /\ IdLimit - 2 >= 1
  BY <1>1, <1>2
<1>4. Cardinality(1 .. IdLimit - 2) = IdLimit - 2
  BY <1>3, FS_Interval
<1>5. Cardinality(1 .. IdLimit - 2) <= Cardinality(Live(s))
  BY <1>2, FS_Subset
<1> QED
  BY <1>1, <1>2, <1>4, <1>5

(* Counting on from any number a free id is reached.                        *)
LEMMA StepIs ==
  ASSUME NEW s, Typed(s), IdsFound(s), Cardinality(Live(s)) < MaxNodes
  PROVE  /\ Step(s) \in 1 .. 2 * IdLimit
         /\ (s.ctr + Step(s)) % IdLimit \in 1 .. IdLimit - 2
         /\ (s.ctr + Step(s)) % IdLimit \notin Live(s)
<1> DEFINE K == {k \in 1 .. 2 * IdLimit :
                   LET id == (s.ctr + k) % IdLimit
                   IN id \notin {0, UnknownIno} /\ ~Found(s, id)}
<1>0. IdLimit \in Nat \ {0} /\ s.ctr \in 0 .. IdLimit - 1
  BY NodeTableAssumption DEF Typed
<1>1. PICK id \in 1 .. IdLimit - 2 : id \notin Live(s)
  BY SomeIdIsFree
<1>2. id \in Ids /\ ~Found(s, id)
  BY <1>0, <1>1, FoundIsLive DEF Ids
<1>3. PICK k \in 1 .. 2 * IdLimit : ((s.ctr + k) % IdLimit) = id
  <2>1. CASE id > s.ctr
    <3>1. id - s.ctr \in 1 .. 2 * IdLimit /\ s.ctr + (id - s.ctr) = id
      BY <1>0, <2>1
    <3>2. (id % IdLimit) = id
      <4>1. id = IdLimit * 0 + id /\ id < IdLimit /\ id \in Nat
        BY <1>0
      <4> QED
        BY <1>0, <4>1, Remainder
    <3> QED
      BY <3>1, <3>2
  <2>2. CASE id <= s.ctr
    <3>1. IdLimit + id - s.ctr \in 1 .. 2 * IdLimit
      BY <1>0, <2>2
    <3>2. s.ctr + (IdLimit + id - s.ctr) = IdLimit * 1 + id
      BY <1>0
    <3>3. ((IdLimit * 1 + id) % IdLimit) = id
      <4>1. id < IdLimit /\ id \in Nat /\ IdLimit * 1 + id \in Nat
        BY <1>0
      <4> QED
        BY <1>0, <4>1, Remainder
    <3> QED
      BY <3>1, <3>2, <3>3
  <2> QED
    BY <1>0, <2>1, <2>2
<1>4. k \in K
  BY <1>0, <1>1, <1>2, <1>3 DEF UnknownIno
<1>5. K \subseteq Nat
  BY <1>0
<1>6. Step(s) = Min(K)
  BY DEF Step
<1>7. Min(K) \in K
  <2> HIDE DEF K
  <2>1. \E x \in K : \A y \in K : x <= y
    BY <1>4, <1>5, LeastNumber
  <2> QED
    BY <2>1 DEF Min
<1>8. /\ Step(s) \in 1 .. 2 * IdLimit
      /\ (s.ctr + Step(s)) % IdLimit \notin {0, UnknownIno}
      /\ ~Found(s, (s.ctr + Step(s)) % IdLimit)
  BY <1>6, <1>7
<1>9. s.ctr + Step(s) \in Nat
  BY <1>0, <1>8
<1> DEFINE new == (s.ctr + Step(s)) % IdLimit
<1>10. new \in 0 .. IdLimit - 1
  BY <1>0, <1>9, QuotientRemainder
<1>11. new \in 1 .. IdLimit - 2
  BY <1>0, <1>8, <1>10 DEF UnknownIno
<1>12. new \in Ids
  BY <1>0, <1>11 DEF Ids
<1>13. new \notin Live(s)
  BY <1>8, <1>12, FoundIsLive
<1> QED
  BY <1>8, <1>11, <1>13

(* The order in which ids are given out: by generation, then by number.     *)
Later(g, c, h, d) == g > h \/ (g = h /\ c > d)

(* next_id goes on to a later id that is free.                              *)
LEMMA NextIdKeeps ==
  ASSUME NEW s, NEW E, Good(s, E), Cardinality(Live(s)) < MaxNodes
  PROVE  LET r == WithNextId(s) IN
         /\ Good(r, E) /\ r.nodes = s.nodes /\ r.lru_table = s.lru_table
         /\ r.ctr \in 1 .. IdLimit - 2 /\ r.ctr \in Ids /\ r.ctr \notin Live(s)
         /\ r.generation \in Nat /\ Later(r.generation, r.ctr, s.generation, s.ctr)
<1> DEFINE k == Step(s)
           c == (s.ctr + Step(s)) % IdLimit
           g == s.generation + (s.ctr + Step(s)) \div IdLimit
           t == [s EXCEPT !.ctr = c]
           r == [t EXCEPT !.generation = g]
<1>0. Typed(s) /\ Tree(s) /\ IdsFound(s) /\ NamesFound(s) /\ Counted(s, E) /\ E \subseteq Live(s)
  BY DEF Good
<1>1. k \in 1 .. 2 * IdLimit /\ c \in 1 .. IdLimit - 2 /\ c \notin Live(s)
  BY <1>0, StepIs
<1>2. IdLimit \in Nat \ {0} /\ s.ctr \in 0 .. IdLimit - 1 /\ s.generation \in Nat /\ k \in Nat
  BY <1>0, <1>1, NodeTableAssumption DEF Typed
<1> DEFINE q == (s.ctr + k) \div IdLimit
<1>3. q \in Nat /\ s.ctr + k = IdLimit * q + c
  <2>1. PICK h \in Nat : h = s.ctr + Step(s)
    BY <1>2
  <2>2. (h \div IdLimit) \in Nat /\ h = IdLimit * (h \div IdLimit) + (h % IdLimit)
    BY <1>2, QuotientRemainder
  <2> QED
    BY <2>1, <2>2
<1>4. g = s.generation + q
  OBVIOUS
<1>5. WithNextId(s) = r
  <2>1. t.generation = s.generation
    BY <1>0, StateUpdates DEF Typed, Fields
  <2> QED
    BY <2>1 DEF WithNextId
<1> HIDE DEF k, c, g, q
<1>6. g \in Nat /\ Later(g, c, s.generation, s.ctr)
  <2>1. CASE q = 0
    <3>1. IdLimit * q = 0
      BY <1>2, <2>1
    <3>2. c > s.ctr /\ g = s.generation
      BY <1>1, <1>2, <1>3, <1>4, <2>1, <3>1
    <3> QED
      BY <1>2, <3>2 DEF Later
  <2>2. CASE q > 0
    BY <1>2, <1>3, <1>4, <2>2 DEF Later
  <2> QED
    BY <1>3, <2>1, <2>2
<1>7. Fields(t, s.nodes, c, s.generation, s.id_table, s.name_table, s.lru_table)
  BY <1>0, StateUpdates DEF Typed
<1> HIDE DEF t
<1>8. Fields(r, t.nodes, t.ctr, g, t.id_table, t.name_table, t.lru_table)
  <2>1. IsState(t)
    BY <1>7 DEF Fields
  <2> QED
    BY <2>1, StateUpdates
<1> HIDE DEF r
<1>9. /\ IsState(r) /\ r.nodes = s.nodes /\ r.ctr = c /\ r.generation = g
      /\ r.id_table = s.id_table /\ r.name_table = s.name_table /\ r.lru_table = s.lru_table
  BY <1>7, <1>8 DEF Fields
<1>10. /\ Live(r) = Live(s) /\ Named(r) = Named(s) /\ IdHashes(r) = IdHashes(s)
       /\ NameHashes(r) = NameHashes(s) /\ \A m : Kids(r, m) = Kids(s, m)
  BY <1>9 DEF Live, Named, IdHashes, NameHashes, Kids
<1>11. Typed(r)
  BY <1>0, <1>1, <1>2, <1>6, <1>9, <1>10 DEF Typed
<1>12. Tree(r)
  BY <1>0, <1>9, <1>10 DEF Tree, HasPlace
<1>13. Counted(r, E) /\ IdsFound(r) /\ NamesFound(r)
  BY <1>0, <1>9, <1>10 DEF Counted, CountOf, IdsFound, NamesFound
<1>14. c \in Ids
  BY <1>1, <1>2 DEF Ids
<1> QED
  BY <1>0, <1>1, <1>5, <1>6, <1>9, <1>10, <1>11, <1>12, <1>13, <1>14 DEF Good

-----------------------------------------------------------------------------
(* A node is made.                                                          *)

(* A node of that id is there.                                              *)
NewNodeIn(s, n) ==
  [s EXCEPT !.nodes = [m \in Live(s) \cup {n} |->
                         IF m = n THEN NewNode ELSE s.nodes[m]]]

(* A node that is in no table yet.                                          *)
LEMMA NewNodeKeeps ==
  ASSUME NEW s, NEW E, Good(s, E), NEW n \in Ids, n \notin Live(s)
  PROVE  LET r == NewNodeIn(s, n) IN
         /\ Base(r, E) /\ Live(r) = Live(s) \cup {n} /\ Kids(r, n) = {}
         /\ \A m \in Live(s) : r.nodes[m] = s.nodes[m]
         /\ r.nodes[n] = NewNode /\ SameRest(s, r)
         /\ r.id_table = s.id_table /\ r.lru_table = s.lru_table
<1> DEFINE d == [m \in Live(s) \cup {n} |-> IF m = n THEN NewNode ELSE s.nodes[m]]
           r == [s EXCEPT !.nodes = d]
<1>0. Typed(s) /\ Tree(s) /\ Counted(s, E) /\ NamesFound(s) /\ E \subseteq Live(s)
  BY DEF Good
<1>1. NewNodeIn(s, n) = r
  BY DEF NewNodeIn
<1>2. d = [m \in Live(s) \cup {n} |-> IF m = n THEN NewNode ELSE s.nodes[m]]
  OBVIOUS
<1> HIDE DEF d
<1>3. Fields(r, d, s.ctr, s.generation, s.id_table, s.name_table, s.lru_table)
  BY <1>0, StateUpdates DEF Typed
<1> HIDE DEF r
<1>4. /\ IsState(r) /\ r.nodes = d /\ SameRest(s, r) /\ r.id_table = s.id_table
      /\ r.name_table = s.name_table /\ r.lru_table = s.lru_table
  BY <1>3 DEF Fields, SameRest
<1>5. /\ Live(r) = Live(s) \cup {n} /\ r.nodes[n] = NewNode
      /\ \A m \in Live(s) : r.nodes[m] = s.nodes[m]
  BY <1>2, <1>4 DEF Live
<1>6. NewNode \in NodeRecords /\ NewNode.name = NoName /\ NewNode.parent = None
      /\ NewNode.nlookup = 0 /\ NewNode.refctr = 0
  BY DEF NewNode, NodeRecords
<1>7. Typed(r)
  <2>1. r.nodes \in [Live(r) -> NodeRecords]
    <3>1. \A m \in Live(s) : s.nodes[m] \in NodeRecords
      BY <1>0 DEF Typed
    <3> QED
      BY <1>2, <1>4, <1>5, <1>6, <3>1
  <2>2. r.lru_table \in Seq(Live(r))
    BY <1>0, <1>4, <1>5 DEF Typed
  <2> QED
    BY <1>0, <1>4, <1>5, <2>1, <2>2 DEF Typed, SameRest
<1>8. None \notin Live(s) /\ n # None
  BY <1>0 DEF Typed, Ids, None
<1>9. \A m \in Live(s) : s.nodes[m].parent # n
  BY <1>0, <1>8 DEF Tree, HasPlace
<1>10. Kids(r, n) = {} /\ \A m \in Live(s) : Kids(r, m) = Kids(s, m)
  BY <1>5, <1>6, <1>8, <1>9 DEF Kids
<1>11. Tree(r)
  <2>1. ASSUME NEW m \in Live(r) PROVE HasPlace(r, m)
    <3>1. CASE m = n
      BY <1>5, <1>6, <3>1 DEF HasPlace
    <3>2. CASE m \in Live(s)
      <4>1. HasPlace(s, m)
        BY <1>0, <3>2 DEF Tree
      <4> QED
        BY <1>5, <3>2, <4>1 DEF HasPlace
    <3> QED
      BY <1>5, <3>1, <3>2
  <2> QED
    BY <1>0, <1>5, <2>1 DEF Tree
<1>12. NamesFound(r)
  <2>1. Named(r) = Named(s)
    BY <1>5, <1>6 DEF Named
  <2>2. \A m \in Named(r) : NameHashes(s)[m] = NameHashes(r)[m]
    BY <1>5, <2>1 DEF NameHashes, Named
  <2> QED
    BY <1>0, <1>4, <2>1, <2>2, HoldsSame DEF NamesFound, Holding
<1>13. ASSUME NEW m \in Live(r) PROVE r.nodes[m].refctr = CountOf(r, E, m)
  <2>1. CASE m = n
    <3>1. Cardinality(Kids(r, m)) = 0 /\ m \notin E
      BY <1>0, <1>10, <2>1, FS_EmptySet
    <3> QED
      BY <1>5, <1>6, <2>1, <3>1 DEF CountOf
  <2>2. CASE m \in Live(s)
    BY <1>0, <1>5, <1>10, <2>2 DEF CountOf, Counted
  <2> QED
    BY <1>5, <2>1, <2>2
<1>14. Base(r, E)
  BY <1>0, <1>5, <1>7, <1>11, <1>12, <1>13 DEF Base, Counted
<1> QED
  BY <1>1, <1>4, <1>5, <1>10, <1>14

(* hash_id of a node that no chain holds                                    *)
LEMMA HashIdKeeps ==
  ASSUME NEW s, NEW E, Base(s, E), NEW n \in Live(s), NEW memory \in BOOLEAN,
         Holding(s.id_table, Live(s) \ {n}, IdHashes(s))
  PROVE  LET r == HashId(s, n, memory) IN
         Good(r, E) /\ r.nodes = s.nodes /\ SameRest(s, r) /\ r.lru_table = s.lru_table
<1> DEFINE d == Insert(s.id_table, n, IdHashes(s), memory)
           r == [s EXCEPT !.id_table = d]
           S == Live(s) \ {n}
<1>0. Typed(s) /\ Tree(s) /\ Counted(s, E) /\ NamesFound(s) /\ E \subseteq Live(s)
  BY DEF Base
<1>1. HashId(s, n, memory) = r
  BY DEF HashId
<1>2. Holding(d, Live(s), IdHashes(s))
  <2>1. Hashed(Live(s), IdHashes(s)) /\ IsFiniteSet(S)
    BY <1>0, HashesAreNumbers
  <2>2. Hashed(S, IdHashes(s)) /\ IdHashes(s)[n] \in Nat /\ n \notin S
    BY <2>1 DEF Hashed
  <2>3. S \cup {n} = Live(s)
    OBVIOUS
  <2> HIDE DEF S
  <2>4. Holding(d, S \cup {n}, IdHashes(s))
    BY <2>2, InsertHolds DEF S
  <2> QED
    BY <2>3, <2>4
<1> HIDE DEF d
<1>3. Fields(r, s.nodes, s.ctr, s.generation, d, s.name_table, s.lru_table)
  BY <1>0, StateUpdates DEF Typed
<1> HIDE DEF r
<1>4. /\ IsState(r) /\ r.nodes = s.nodes /\ SameRest(s, r) /\ r.id_table = d
      /\ r.name_table = s.name_table /\ r.lru_table = s.lru_table
  BY <1>3 DEF Fields, SameRest
<1>5. /\ Live(r) = Live(s) /\ Named(r) = Named(s) /\ IdHashes(r) = IdHashes(s)
      /\ NameHashes(r) = NameHashes(s) /\ \A m : Kids(r, m) = Kids(s, m)
  BY <1>4 DEF Live, Named, IdHashes, NameHashes, Kids
<1>6. Typed(r)
  BY <1>0, <1>4, <1>5 DEF Typed, SameRest
<1>7. Tree(r)
  BY <1>0, <1>4, <1>5 DEF Tree, HasPlace
<1>8. Counted(r, E) /\ IdsFound(r) /\ NamesFound(r)
  BY <1>0, <1>2, <1>4, <1>5 DEF Counted, CountOf, IdsFound, NamesFound
<1> QED
  BY <1>0, <1>1, <1>4, <1>5, <1>6, <1>7, <1>8 DEF Good

(* What is known of the node that find_node has made in s.                  *)
Makes(s, r, n, dir, name) ==
  /\ n = r.ctr /\ n \in Ids /\ n \notin Live(s) /\ Live(r) = Live(s) \cup {n}
  /\ \A m \in Live(s) : SameNode(s, r, m)
  /\ r.nodes[n].name = name /\ r.nodes[n].parent = dir
  /\ r.nodes[n].nlookup = IF mode = "forget" THEN 1 ELSE 2
  /\ r.lru_table = s.lru_table
  /\ Later(r.generation, r.ctr, s.generation, s.ctr)

(* find_node makes a node under an id that is free.                         *)
LEMMA CreatedKeeps ==
  ASSUME Good(f, {}), Cardinality(Live(f)) < MaxNodes, NEW dir \in Live(f),
         dir = Root \/ f.nodes[dir].parent = Root,
         NEW name \in Names, NEW memory \in BOOLEAN
  PROVE  LET r == Created(dir, name, memory) IN
         Good(r, {}) /\ Makes(f, r, r.ctr, dir, name)
         /\ r.generation = WithNextId(f).generation
<1> DEFINE s == WithNextId(f)
           n == s.ctr
           t == NewNodeIn(s, n)
           u == IF mode = "forget" THEN t ELSE IncLookup(t, n)
           v == HashName(u, n, dir, name, memory)
           w == HashId(v, n, memory)
           r == IncLookup(w, n)
<1>0. Created(dir, name, memory) = r
  BY DEF Created, NewNodeIn
<1>1. /\ Good(s, {}) /\ s.nodes = f.nodes /\ s.lru_table = f.lru_table
      /\ n \in Ids /\ n \notin Live(f)
      /\ Later(s.generation, s.ctr, f.generation, f.ctr)
  BY NextIdKeeps
<1>2. Live(s) = Live(f)
  BY <1>1 DEF Live
<1> HIDE DEF s
<1>3. /\ Base(t, {}) /\ Live(t) = Live(s) \cup {n} /\ Kids(t, n) = {}
      /\ \A m \in Live(s) : t.nodes[m] = s.nodes[m]
      /\ t.nodes[n] = NewNode /\ SameRest(s, t)
      /\ t.id_table = s.id_table /\ t.lru_table = s.lru_table
  BY <1>1, <1>2, NewNodeKeeps
<1> HIDE DEF t
<1>4. /\ Base(u, {}) /\ Live(u) = Live(s) \cup {n} /\ Kids(u, n) = {}
      /\ \A m \in Live(s) : SameNode(s, u, m)
      /\ u.nodes[n].name = NoName /\ u.nodes[n].parent = None /\ SameRest(s, u)
      /\ u.nodes[n].nlookup = IF mode = "forget" THEN 0 ELSE 1
      /\ u.id_table = s.id_table /\ u.lru_table = s.lru_table
  <2>1. NewNode.name = NoName /\ NewNode.parent = None /\ NewNode.nlookup = 0
    BY DEF NewNode
  <2>2. CASE mode = "forget"
    BY <1>3, <2>1, <2>2 DEF SameNode
  <2>3. CASE mode # "forget"
    <3> DEFINE x == IncLookup(t, n)
    <3>1. /\ Base(x, {}) /\ Changed(t, x, n)
          /\ \A m \in Live(x) \ {n} : SameNode(t, x, m)
          /\ x.nodes[n].name = t.nodes[n].name /\ x.nodes[n].parent = t.nodes[n].parent
          /\ x.nodes[n].nlookup = t.nodes[n].nlookup + 1
      BY <1>3, IncLookupKeeps
    <3>2. u = x
      BY <2>3
    <3> HIDE DEF x, u
    <3>3. Live(x) = Live(t) /\ \A m \in Live(x) : x.nodes[m].parent = t.nodes[m].parent
      BY <3>1 DEF Changed, SameNode
    <3>4. Kids(x, n) = Kids(t, n)
      BY <3>3 DEF Kids
    <3>5. \A m \in Live(s) : m # n
      BY <1>1, <1>2
    <3> QED
      BY <1>3, <2>1, <2>3, <3>1, <3>2, <3>3, <3>4, <3>5 DEF Changed, SameNode, SameRest
  <2> QED
    BY <2>2, <2>3
<1> HIDE DEF u
<1>5. Room(u, n, dir) /\ n \in Live(u)
  <2>1. dir \in Live(s) /\ dir # n
    BY <1>1, <1>2
  <2>2. u.nodes[dir].parent = f.nodes[dir].parent
    BY <1>1, <1>4, <2>1 DEF SameNode
  <2>3. Root \in Live(f)
    BY DEF Good, Tree
  <2> QED
    BY <1>1, <1>4, <2>1, <2>2, <2>3 DEF Room
<1>6. /\ Base(v, {}) /\ Live(v) = Live(u) /\ SameRest(u, v)
      /\ v.id_table = u.id_table /\ v.lru_table = u.lru_table
      /\ \A m \in Live(v) \ {n} : SameNode(u, v, m)
      /\ v.nodes[n].name = name /\ v.nodes[n].parent = dir
      /\ v.nodes[n].nlookup = u.nodes[n].nlookup
  BY <1>4, <1>5, HashNameKeeps
<1> HIDE DEF v
<1>7. Holding(v.id_table, Live(v) \ {n}, IdHashes(v))
  <2>1. Live(v) \ {n} = Live(s)
    BY <1>1, <1>2, <1>4, <1>6
  <2>2. \A m \in Live(s) : IdHashes(s)[m] = IdHashes(v)[m]
    BY <1>4, <1>6 DEF IdHashes
  <2>3. Holding(s.id_table, Live(s), IdHashes(s))
    BY <1>1 DEF Good, IdsFound
  <2>4. Holding(s.id_table, Live(s), IdHashes(v))
    BY <2>2, <2>3, HoldsSame DEF Holding
  <2> QED
    BY <1>4, <1>6, <2>1, <2>4
<1>8. Good(w, {}) /\ w.nodes = v.nodes /\ SameRest(v, w) /\ w.lru_table = v.lru_table
  BY <1>5, <1>6, <1>7, HashIdKeeps
<1> HIDE DEF w
<1>9. Base(w, {}) /\ IdsFound(w) /\ Live(w) = Live(v) /\ n \in Live(w)
  BY <1>5, <1>6, <1>8, GoodIs DEF Live
<1>10. /\ Base(r, {}) /\ IdsFound(r) /\ Changed(w, r, n)
       /\ \A m \in Live(r) \ {n} : SameNode(w, r, m)
       /\ r.nodes[n].name = w.nodes[n].name /\ r.nodes[n].parent = w.nodes[n].parent
       /\ r.nodes[n].nlookup = w.nodes[n].nlookup + 1
  BY <1>9, IncLookupKeeps
<1> HIDE DEF r
<1>11. /\ Live(r) = Live(f) \cup {n} /\ r.ctr = n /\ r.generation = s.generation
       /\ r.lru_table = f.lru_table
  BY <1>1, <1>2, <1>4, <1>6, <1>8, <1>9, <1>10 DEF Changed, SameRest
<1>12. \A m \in Live(f) : SameNode(f, r, m)
  BY <1>1, <1>2, <1>4, <1>6, <1>8, <1>9, <1>10, <1>11 DEF SameNode
<1>13. r.nodes[n].name = name /\ r.nodes[n].parent = dir
       /\ r.nodes[n].nlookup = IF mode = "forget" THEN 1 ELSE 2
  BY <1>4, <1>6, <1>8, <1>10
<1>14. Later(r.generation, r.ctr, f.generation, f.ctr)
  BY <1>1, <1>11
<1>15. Makes(f, r, n, dir, name)
  BY <1>1, <1>11, <1>12, <1>13, <1>14 DEF Makes
<1> QED
  BY <1>0, <1>10, <1>11, <1>15, GoodIs DEF s

-----------------------------------------------------------------------------
(* What else the actions need to know of the operations.                    *)

(* A node that holds no more than the reference that is given back goes.    *)
LEMMA UnrefGone ==
  ASSUME NEW s, NEW E, Good(s, E), NEW n \in Live(s), s.nodes[n].refctr <= 1
  PROVE  n \notin Live(UnrefNode(s, n))
<1> DEFINE r == UnrefNode(s, n)
<1>1. PICK gone, top : Chain(s, n, gone, top) /\ Released(s, r, Elements(gone), top)
  BY UnrefIs
<1> HIDE DEF r
<1>2. s.nodes[n].refctr \in Nat
  BY DEF Good, Typed, NodeRecords
<1>3. n \in Elements(gone)
  <2>1. \/ gone = <<n>>
        \/ \E p \in Live(s) : gone = <<n, p>>
    BY <1>1, <1>2 DEF Chain
  <2>2. CASE gone = <<n>>
    BY <2>2, ShortSequences
  <2>3. CASE \E p \in Live(s) : gone = <<n, p>>
    <3>1. PICK p \in Live(s) : gone = <<n, p>>
      BY <2>3
    <3>2. Elements(<<n, p>>) = {n, p}
      BY ShortSequences
    <3> QED
      BY <3>1, <3>2
  <2> QED
    BY <2>1, <2>2, <2>3
<1> QED
  BY <1>1, <1>3 DEF Released, Without, r

(* lookup_node returns a node of that name.                                 *)
LEMMA LookupFinds ==
  ASSUME NEW s, NEW E, Good(s, E), NEW dir \in Live(s), NEW name \in Names,
         LookupNode(s, dir, name) # None
  PROVE  LET n == LookupNode(s, dir, name) IN
         n \in Named(s) /\ s.nodes[n].parent = dir /\ s.nodes[n].name = name
<1> DEFINE t == s.name_table
           h == NameHash(dir, name)
           b == Bucket(t, h)
           them == {n \in t.array[b] : s.nodes[n].parent = dir /\ s.nodes[n].name = name}
<1>1. h \in Nat
  <2>1. dir \in Nat /\ name \in Nat
    BY NodeTableAssumption DEF Good, Typed, Ids
  <2> QED
    BY <2>1 DEF NameHash
<1>2. IsTable(t) /\ \A c \in 0 .. t.size - 1 :
                      t.array[c] = {n \in Named(s) : Bucket(t, NameHashes(s)[n]) = c}
  BY HoldingBuckets DEF Good, NamesFound
<1>3. b \in 0 .. t.size - 1
  <2>1. t.size \in Sizes /\ t.size \in Nat /\ t.size \div 2 \in Nat /\ t.size = 2 * (t.size \div 2)
    BY <1>2, SizeParts DEF IsTable
  <2>2. /\ (h % (t.size \div 2)) \in 0 .. t.size \div 2 - 1
        /\ (h % t.size) \in 0 .. t.size - 1
        /\ Bucket(t, h) = IF (h % (t.size \div 2)) >= t.split
                          THEN h % (t.size \div 2) ELSE h % t.size
    BY <1>1, <2>1, BucketIs
  <2> QED
    BY <2>1, <2>2
<1>4. t.array[b] \subseteq Named(s)
  BY <1>2, <1>3
<1>5. LookupNode(s, dir, name) = IF them = {} THEN None ELSE CHOOSE n \in them : TRUE
  BY DEF LookupNode
<1>6. LookupNode(s, dir, name) \in them
  BY <1>5
<1> QED
  BY <1>4, <1>6

(* A change of the list alone.                                              *)
LEMMA ListChanged ==
  ASSUME NEW s, NEW E, Good(s, E), NEW r, IsState(r), r.nodes = s.nodes, SameRest(s, r),
         r.id_table = s.id_table, r.name_table = s.name_table,
         r.lru_table \in Seq(Live(s)), Distinct(r.lru_table)
  PROVE  Good(r, E)
<1>1. /\ Live(r) = Live(s) /\ Named(r) = Named(s) /\ IdHashes(r) = IdHashes(s)
      /\ NameHashes(r) = NameHashes(s) /\ \A m : Kids(r, m) = Kids(s, m)
  BY DEF Live, Named, IdHashes, NameHashes, Kids
<1>2. Typed(s) /\ Tree(s) /\ Counted(s, E) /\ IdsFound(s) /\ NamesFound(s) /\ E \subseteq Live(s)
  BY DEF Good
<1>3. Typed(r)
  BY <1>1, <1>2 DEF Typed, SameRest
<1>4. Tree(r)
  BY <1>1, <1>2 DEF Tree, HasPlace
<1>5. Counted(r, E) /\ IdsFound(r) /\ NamesFound(r)
  BY <1>1, <1>2 DEF Counted, CountOf, IdsFound, NamesFound
<1> QED
  BY <1>1, <1>2, <1>3, <1>4, <1>5 DEF Good

(* No node is its own parent.                                               *)
LEMMA NoLoop ==
  ASSUME NEW s, NEW E, Good(s, E), NEW n \in Live(s)
  PROVE  s.nodes[n].parent # n
BY ShortChains DEF Good

-----------------------------------------------------------------------------
(* What the nodes have to do with the references the kernel holds. In every *)
(* mode but the first a name holds a reference too.                         *)

HeldByName(x) == IF mode # "forget" /\ x.name # NoName THEN 1 ELSE 0
Balanced(s, k, n) == s.nodes[n].nlookup = k[n] + HeldByName(s.nodes[n])
ListFits(s, k) ==
  mode = "remember" =>
    Elements(s.lru_table) = {n \in Live(s) : k[n] = 0 /\ s.nodes[n].nlookup > 0}

(* k are the references the kernel holds.                                   *)
Agree(s, k) ==
  /\ Good(s, {}) /\ k \in [Ids -> 0 .. MaxLookup]
  /\ \A n \in Live(s) : Balanced(s, k, n)
  /\ \A n \in Ids : k[n] > 0 => n \in Live(s)
  /\ ListFits(s, k)

(* What is used of it most.                                                 *)
LEMMA AgreeMeans ==
  ASSUME NEW s, NEW k, Agree(s, k)
  PROVE  /\ Good(s, {}) /\ Base(s, {}) /\ IdsFound(s) /\ IsState(s) /\ Nodes(s)
         /\ Typed(s) /\ Live(s) \subseteq Ids
         /\ s.lru_table \in Seq(Live(s)) /\ Distinct(s.lru_table)
         /\ \A n \in Live(s) : /\ s.nodes[n].nlookup \in Nat /\ k[n] \in Nat
                               /\ s.nodes[n].refctr \in Nat
                               /\ HeldByName(s.nodes[n]) \in {0, 1}
                               /\ s.nodes[n].nlookup >= k[n]
<1>1. Good(s, {}) /\ k \in [Ids -> 0 .. MaxLookup] /\ \A n \in Live(s) : Balanced(s, k, n)
  BY DEF Agree
<1>2. Base(s, {}) /\ IdsFound(s) /\ Typed(s)
  BY <1>1, GoodIs DEF Good
<1>3. /\ IsState(s) /\ Nodes(s) /\ Live(s) \subseteq Ids
      /\ s.lru_table \in Seq(Live(s)) /\ Distinct(s.lru_table)
  BY <1>2 DEF Typed, Nodes
<1>4. ASSUME NEW n \in Live(s)
      PROVE  /\ s.nodes[n].nlookup \in Nat /\ k[n] \in Nat /\ s.nodes[n].refctr \in Nat
             /\ HeldByName(s.nodes[n]) \in {0, 1} /\ s.nodes[n].nlookup >= k[n]
  <2>1. s.nodes[n].nlookup \in Nat /\ s.nodes[n].refctr \in Nat
    BY <1>3 DEF Nodes, NodeRecords
  <2>2. k[n] \in Nat
    BY <1>1, <1>3, NodeTableAssumption
  <2>3. HeldByName(s.nodes[n]) \in {0, 1}
    BY DEF HeldByName
  <2>4. s.nodes[n].nlookup = k[n] + HeldByName(s.nodes[n])
    BY <1>1 DEF Balanced
  <2> QED
    BY <2>1, <2>2, <2>3, <2>4
<1> QED
  BY <1>1, <1>2, <1>3, <1>4

-----------------------------------------------------------------------------
(* The actions that find a node or make one.                                *)

(* A lookup of a node that is there.                                        *)
LEMMA FindOldKeeps ==
  ASSUME Agree(f, known), NEW n \in Named(f), known[n] < MaxLookup
  PROVE  LET s == IF mode = "remember" /\ f.nodes[n].nlookup = 1 THEN RemoveLru(f, n) ELSE f
             r == IncLookup(s, n)
         IN Agree(r, [known EXCEPT ![n] = @ + 1]) /\ SameRest(f, r)
<1> DEFINE s == IF mode = "remember" /\ f.nodes[n].nlookup = 1 THEN RemoveLru(f, n) ELSE f
           r == IncLookup(s, n)
           k == [known EXCEPT ![n] = @ + 1]
<1>1. /\ Good(f, {}) /\ known \in [Ids -> 0 .. MaxLookup]
      /\ \A m \in Live(f) : Balanced(f, known, m)
      /\ \A m \in Ids : known[m] > 0 => m \in Live(f)
      /\ ListFits(f, known)
  BY DEF Agree
<1>2. n \in Live(f) /\ f.nodes[n].name # NoName
  BY DEF Named
<1>3. /\ IsState(f) /\ f.lru_table \in Seq(Live(f)) /\ Distinct(f.lru_table)
      /\ Live(f) \subseteq Ids /\ n \in Ids
      /\ \A m \in Live(f) : f.nodes[m].nlookup \in Nat /\ known[m] \in Nat
  BY <1>2, AgreeMeans
<1>4. f.nodes[n].nlookup = known[n] + (IF mode # "forget" THEN 1 ELSE 0)
  BY <1>1, <1>2 DEF Balanced, HeldByName
<1>5. /\ Good(s, {}) /\ s.nodes = f.nodes /\ SameRest(f, s)
      /\ mode = "remember" => Elements(s.lru_table) = Elements(f.lru_table) \ {n}
  <2>1. CASE mode = "remember" /\ f.nodes[n].nlookup = 1
    <3>1. /\ IsState(s) /\ s.nodes = f.nodes /\ SameRest(f, s)
          /\ s.id_table = f.id_table /\ s.name_table = f.name_table
          /\ s.lru_table \in Seq(Live(f)) /\ Distinct(s.lru_table)
          /\ Elements(s.lru_table) = Elements(f.lru_table) \ {n}
      BY <1>3, <2>1, RemoveLruKeeps
    <3> HIDE DEF s
    <3> QED
      BY <1>1, <3>1, ListChanged
  <2>2. CASE ~(mode = "remember" /\ f.nodes[n].nlookup = 1)
    <3>1. s = f
      BY <2>2
    <3>2. mode = "remember" => known[n] # 0
      BY <1>3, <1>2, <1>4, <2>2
    <3>3. mode = "remember" => n \notin Elements(f.lru_table)
      BY <1>1, <3>2 DEF ListFits
    <3> HIDE DEF s
    <3> QED
      BY <1>1, <3>1, <3>3 DEF SameRest
  <2> QED
    BY <2>1, <2>2
<1> HIDE DEF s
<1>6. Live(s) = Live(f) /\ Base(s, {}) /\ IdsFound(s)
  BY <1>5, GoodIs DEF Live
<1>7. /\ Base(r, {}) /\ IdsFound(r) /\ Changed(s, r, n)
      /\ \A m \in Live(r) \ {n} : SameNode(s, r, m)
      /\ r.nodes[n].name = s.nodes[n].name /\ r.nodes[n].parent = s.nodes[n].parent
      /\ r.nodes[n].nlookup = s.nodes[n].nlookup + 1
  BY <1>2, <1>6, IncLookupKeeps
<1> HIDE DEF r
<1>8. /\ Live(r) = Live(f) /\ SameRest(f, r) /\ Good(r, {})
      /\ r.lru_table = s.lru_table
      /\ \A m \in Live(f) \ {n} : r.nodes[m].name = f.nodes[m].name
                                  /\ r.nodes[m].nlookup = f.nodes[m].nlookup
      /\ r.nodes[n].name = f.nodes[n].name /\ r.nodes[n].nlookup = f.nodes[n].nlookup + 1
  BY <1>5, <1>6, <1>7, GoodIs DEF Changed, SameRest, SameNode
<1>9. /\ k \in [Ids -> 0 .. MaxLookup] /\ k[n] = known[n] + 1
      /\ \A m \in Ids \ {n} : k[m] = known[m]
  <2>1. known[n] + 1 \in 0 .. MaxLookup
    BY <1>1, <1>3, NodeTableAssumption
  <2> QED
    BY <1>1, <1>3, <2>1
<1> HIDE DEF k
<1>10. ASSUME NEW m \in Live(r) PROVE Balanced(r, k, m)
  <2>1. CASE m = n
    BY <1>2, <1>3, <1>4, <1>8, <1>9, <2>1 DEF Balanced, HeldByName
  <2>2. CASE m # n
    BY <1>1, <1>3, <1>8, <1>9, <2>2 DEF Balanced, HeldByName
  <2> QED
    BY <2>1, <2>2
<1>11. \A m \in Ids : k[m] > 0 => m \in Live(r)
  BY <1>1, <1>2, <1>8, <1>9
<1>12. ListFits(r, k)
  <2>1. k[n] # 0
    BY <1>2, <1>3, <1>9
  <2>2. ASSUME NEW m \in Live(r)
        PROVE  (k[m] = 0 /\ r.nodes[m].nlookup > 0)
                 <=> (known[m] = 0 /\ f.nodes[m].nlookup > 0 /\ m # n)
    BY <1>3, <1>8, <1>9, <2>1
  <2>3. {m \in Live(r) : k[m] = 0 /\ r.nodes[m].nlookup > 0}
          = {m \in Live(f) : known[m] = 0 /\ f.nodes[m].nlookup > 0} \ {n}
    BY <1>8, <2>2
  <2> QED
    BY <1>1, <1>5, <1>8, <2>3 DEF ListFits
<1>13. Agree(r, k)
  BY <1>8, <1>9, <1>10, <1>11, <1>12 DEF Agree
<1> QED
  BY <1>8, <1>13 DEF r, s, k

(* A lookup that made the node n.                                           *)
LEMMA FindNewKeeps ==
  ASSUME Agree(f, known), NEW r, NEW n, NEW dir, NEW name \in Names, Good(r, {}),
         Makes(f, r, n, dir, name)
  PROVE  Agree(r, [known EXCEPT ![n] = 1])
<1> DEFINE k == [known EXCEPT ![n] = 1]
<1>1. /\ Good(f, {}) /\ known \in [Ids -> 0 .. MaxLookup]
      /\ \A m \in Live(f) : Balanced(f, known, m)
      /\ \A m \in Ids : known[m] > 0 => m \in Live(f)
      /\ ListFits(f, known)
  BY DEF Agree
<1>2. /\ n \in Ids /\ n \notin Live(f) /\ Live(r) = Live(f) \cup {n}
      /\ \A m \in Live(f) : SameNode(f, r, m)
      /\ r.nodes[n].name = name /\ r.nodes[n].nlookup = IF mode = "forget" THEN 1 ELSE 2
      /\ r.lru_table = f.lru_table
  BY DEF Makes
<1>3. Live(f) \subseteq Ids
  BY AgreeMeans
<1>4. /\ k \in [Ids -> 0 .. MaxLookup] /\ k[n] = 1
      /\ \A m \in Ids \ {n} : k[m] = known[m]
  <2>1. 1 \in 0 .. MaxLookup
    BY NodeTableAssumption
  <2> QED
    BY <1>1, <1>2, <2>1
<1> HIDE DEF k
<1>5. ASSUME NEW m \in Live(r) PROVE Balanced(r, k, m)
  <2>1. CASE m = n
    <3>1. name # NoName
      BY NodeTableAssumption
    <3> QED
      BY <1>2, <1>4, <2>1, <3>1 DEF Balanced, HeldByName
  <2>2. CASE m # n
    <3>1. m \in Live(f) /\ k[m] = known[m]
      BY <1>2, <1>3, <1>4, <2>2
    <3> QED
      BY <1>1, <1>2, <3>1 DEF Balanced, HeldByName, SameNode
  <2> QED
    BY <2>1, <2>2
<1>6. \A m \in Ids : k[m] > 0 => m \in Live(r)
  BY <1>1, <1>2, <1>4
<1>7. ListFits(r, k)
  <2>1. ASSUME NEW m \in Live(f)
        PROVE  m # n /\ k[m] = known[m] /\ r.nodes[m].nlookup = f.nodes[m].nlookup
    BY <1>2, <1>3, <1>4 DEF SameNode
  <2>2. {m \in Live(r) : k[m] = 0 /\ r.nodes[m].nlookup > 0}
          = {m \in Live(f) : known[m] = 0 /\ f.nodes[m].nlookup > 0}
    BY <1>2, <1>4, <2>1
  <2> QED
    BY <1>1, <1>2, <2>2 DEF ListFits
<1> QED
  BY <1>4, <1>5, <1>6, <1>7 DEF Agree, k

(* A lookup that failed and lost an id.                                     *)
LEMMA FindFailsKeeps ==
  ASSUME Agree(f, known), NEW r, Good(r, {}), r.nodes = f.nodes, r.lru_table = f.lru_table
  PROVE  Agree(r, known)
BY DEF Agree, Live, Balanced, ListFits

-----------------------------------------------------------------------------
(* The actions that take references or names away.                          *)

(* Agree without what the nodes have to do with each other.                 *)
Fits(s, k) ==
  /\ k \in [Ids -> 0 .. MaxLookup]
  /\ \A n \in Live(s) : Balanced(s, k, n)
  /\ \A n \in Ids : k[n] > 0 => n \in Live(s)
  /\ ListFits(s, k)

(* The two parts of Agree.                                                  *)
LEMMA AgreeIs == \A s, k : Agree(s, k) <=> Good(s, {}) /\ Fits(s, k)
BY DEF Agree, Fits

(* Unused nodes may go.                                                     *)
LEMMA LossFits ==
  ASSUME NEW s, NEW k, Fits(s, k), Live(s) \subseteq Ids, NEW r, NEW G,
         Without(s, r, G), Unused(s, G, {})
  PROVE  Fits(r, k)
<1>1. /\ Live(r) = Live(s) \ G
      /\ \A m \in Live(r) : r.nodes[m].name = s.nodes[m].name
                            /\ r.nodes[m].nlookup = s.nodes[m].nlookup
      /\ Elements(r.lru_table) = Elements(s.lru_table) \ G
      /\ \A m \in G : m \in Live(s) /\ s.nodes[m].nlookup = 0
  BY DEF Without, SameNode, Unused
<1>2. \A m \in Live(r) : Balanced(r, k, m)
  BY <1>1 DEF Fits, Balanced, HeldByName
<1>3. ASSUME NEW m \in Ids, k[m] > 0 PROVE m \in Live(r)
  <2>1. m \in Live(s) /\ Balanced(s, k, m) /\ k[m] \in Nat
    BY <1>3, NodeTableAssumption DEF Fits
  <2>2. s.nodes[m].nlookup # 0
    BY <1>3, <2>1 DEF Balanced, HeldByName
  <2> QED
    BY <1>1, <2>1, <2>2
<1>4. ListFits(r, k)
  <2>1. {m \in Live(r) : k[m] = 0 /\ r.nodes[m].nlookup > 0}
          = {m \in Live(s) : k[m] = 0 /\ s.nodes[m].nlookup > 0} \ G
    BY <1>1
  <2> QED
    BY <1>1, <2>1 DEF Fits, ListFits
<1> QED
  BY <1>2, <1>3, <1>4 DEF Fits

(* The references to a node by number become l.                             *)
LEMMA NowHeld ==
  ASSUME NEW s, Good(s, {}), NEW n \in Live(s), NEW l \in Nat, s.nodes[n].nlookup > 0
  PROVE  LET r == [s EXCEPT !.nodes[n].nlookup = l] IN
         /\ Changed(s, r, n)
         /\ NodeIs(r.nodes[n], s.nodes[n].name, s.nodes[n].parent, l, s.nodes[n].refctr)
         /\ \A m \in Live(r) \ {n} : SameNode(s, r, m)
         /\ l > 0 => Good(r, {})
         /\ l = 0 /\ n # Root => Good(r, {n})
<1> DEFINE r == [s EXCEPT !.nodes[n].nlookup = l]
           c == s.nodes[n].refctr
           k == Cardinality(Kids(s, n))
<1>1. /\ Base(s, {}) /\ IdsFound(s) /\ Typed(s) /\ Counted(s, {}) /\ Nodes(s)
      /\ s.nodes[n].nlookup \in Nat /\ c \in Nat
  BY GoodIs DEF Good, Typed, Nodes, NodeRecords
<1>2. Changed(s, r, n) /\ NodeIs(r.nodes[n], s.nodes[n].name, s.nodes[n].parent, l, c)
  BY <1>1, ChangeFields
<1>3. k \in Nat
  BY <1>1, KidsFinite
<1>4. c = 1 + k
  <2>1. c = CountOf(s, {}, n)
    BY <1>1 DEF Counted
  <2> QED
    BY <1>3, <2>1 DEF CountOf
<1>5. \A m \in Live(s) \ {n} : r.nodes[m] = s.nodes[m]
  BY <1>2 DEF Changed
<1> HIDE DEF r, c
<1>6. CASE l > 0
  <2>1. c = (IF l > 0 THEN 1 ELSE 0) + k + (IF n \in {} THEN 1 ELSE 0)
    BY <1>3, <1>4, <1>6
  <2>2. Base(r, {}) /\ (IdsFound(s) => IdsFound(r))
    BY <1>1, <1>2, <1>6, <2>1, RecountKeeps
  <2> QED
    BY <1>1, <1>2, <1>5, <1>6, <2>2, GoodIs DEF r, c, Changed, SameNode
<1>7. CASE l = 0
  <2>1. c = (IF l > 0 THEN 1 ELSE 0) + k + (IF n \in {n} THEN 1 ELSE 0)
    BY <1>3, <1>4, <1>7
  <2>2. n # Root => Base(r, {n}) /\ (IdsFound(s) => IdsFound(r))
    <3>1. {n} \subseteq Live(s) /\ {n} \ {n} = {} \ {n}
      OBVIOUS
    <3> QED
      BY <1>1, <1>2, <1>7, <2>1, <3>1, RecountKeeps
  <2> QED
    BY <1>1, <1>2, <1>5, <1>7, <2>2, GoodIs DEF r, c, Changed, SameNode
<1> QED
  BY <1>6, <1>7

(* A name that is given back with its reference, as in unlink_node.         *)
LEMMA UnlinkKeeps ==
  ASSUME Agree(f, known), NEW n \in Named(f), known[n] > 0 \/ mode = "forget"
  PROVE  LET r == UnlinkNode(f, n) IN
         /\ Unlinkable(f, n) /\ Agree(r, known) /\ SameRest(f, r)
         /\ Live(r) \subseteq Live(f)
         /\ \A m \in Live(r) \ {n} : SameNode(f, r, m)
         /\ n \in Live(r) => r.nodes[n].parent = None
<1> DEFINE l == f.nodes[n].nlookup - 1
           s == IF mode = "forget" THEN f ELSE [f EXCEPT !.nodes[n].nlookup = l]
           r == UnhashName(s, n)
<1>1. n \in Live(f) /\ f.nodes[n].name # NoName
  BY DEF Named
<1>2. /\ Good(f, {}) /\ Fits(f, known) /\ Live(f) \subseteq Ids
      /\ \A m \in Live(f) : /\ f.nodes[m].nlookup \in Nat /\ known[m] \in Nat
                            /\ Balanced(f, known, m)
  BY AgreeIs, AgreeMeans DEF Fits
<1>3. f.nodes[n].nlookup = known[n] + (IF mode # "forget" THEN 1 ELSE 0)
  BY <1>1, <1>2 DEF Balanced, HeldByName
<1>4. Unlinkable(f, n)
  BY <1>1, <1>2, <1>3 DEF Unlinkable
<1>5. UnlinkNode(f, n) = r
  BY DEF UnlinkNode
<1>6. /\ Good(s, {}) /\ Live(s) = Live(f) /\ SameRest(f, s) /\ s.lru_table = f.lru_table
      /\ \A m \in Live(f) \ {n} : SameNode(f, s, m)
      /\ s.nodes[n].nlookup = known[n]
  <2>1. CASE mode = "forget"
    BY <1>1, <1>2, <1>3, <2>1 DEF SameRest, SameNode
  <2>2. CASE mode # "forget"
    <3>1. l = known[n] /\ l > 0 /\ l \in Nat
      BY <1>1, <1>2, <1>3, <2>2
    <3>2. s = [f EXCEPT !.nodes[n].nlookup = l]
      BY <2>2
    <3>3. f.nodes[n].nlookup > 0
      BY <1>1, <1>2, <1>3, <2>2
    <3> HIDE DEF l, s
    <3>4. /\ Changed(f, s, n)
          /\ NodeIs(s.nodes[n], f.nodes[n].name, f.nodes[n].parent, l, f.nodes[n].refctr)
          /\ \A m \in Live(s) \ {n} : SameNode(f, s, m)
          /\ l > 0 => Good(s, {})
      BY <1>1, <1>2, <3>1, <3>2, <3>3, NowHeld
    <3> QED
      BY <3>1, <3>4 DEF Changed, NodeIs
  <2> QED
    BY <2>1, <2>2
<1> HIDE DEF s, l
<1>7. Good(r, {}) /\ \E G : Unhashed(s, r, n, G) /\ Unused(s, G, {})
  BY <1>1, <1>6, UnhashKeeps
<1>8. PICK G : Unhashed(s, r, n, G) /\ Unused(s, G, {})
  BY <1>7
<1> HIDE DEF r
<1>9. /\ Live(r) = Live(f) \ G /\ SameRest(f, r)
      /\ \A m \in Live(r) \ {n} : SameNode(f, r, m)
      /\ n \in Live(r) => /\ r.nodes[n].name = NoName /\ r.nodes[n].parent = None
                          /\ r.nodes[n].nlookup = known[n]
      /\ Elements(r.lru_table) = Elements(f.lru_table) \ G
      /\ \A m \in G : m \in Live(f) /\ s.nodes[m].nlookup = 0
  BY <1>6, <1>8 DEF Unhashed, Unused, SameRest, SameNode
<1>10. ASSUME NEW m \in Live(r) PROVE Balanced(r, known, m)
  <2>1. CASE m = n
    BY <1>1, <1>2, <1>9, <2>1 DEF Balanced, HeldByName
  <2>2. CASE m # n
    <3>1. SameNode(f, r, m) /\ Balanced(f, known, m)
      BY <1>2, <1>9, <2>2
    <3> QED
      BY <3>1 DEF Balanced, HeldByName, SameNode
  <2> QED
    BY <2>1, <2>2
<1>11. ASSUME NEW m \in Ids, known[m] > 0 PROVE m \in Live(r)
  <2>1. m \in Live(f) /\ Balanced(f, known, m) /\ known[m] \in Nat
    BY <1>2, <1>11 DEF Fits
  <2>2. s.nodes[m].nlookup # 0
    <3>1. CASE m = n
      BY <1>6, <1>11, <2>1, <3>1
    <3>2. CASE m # n
      <4>1. s.nodes[m].nlookup = f.nodes[m].nlookup
        BY <1>6, <2>1, <3>2 DEF SameNode
      <4> QED
        BY <1>11, <2>1, <4>1 DEF Balanced, HeldByName
    <3> QED
      BY <3>1, <3>2
  <2> QED
    BY <1>9, <2>1, <2>2
<1>12. ListFits(r, known)
  <2> SUFFICES ASSUME mode = "remember"
               PROVE  Elements(r.lru_table)
                        = {m \in Live(r) : known[m] = 0 /\ r.nodes[m].nlookup > 0}
    BY DEF ListFits
  <2>1. known[n] > 0
    OBVIOUS
  <2>2. Elements(f.lru_table) = {m \in Live(f) : known[m] = 0 /\ f.nodes[m].nlookup > 0}
    BY <1>2 DEF Fits, ListFits
  <2>3. ASSUME NEW m \in Live(f)
        PROVE  m \in Elements(f.lru_table) \ G
                 <=> m \in Live(r) /\ known[m] = 0 /\ r.nodes[m].nlookup > 0
    <3>1. CASE m = n
      BY <1>1, <1>2, <2>1, <2>2, <3>1
    <3>2. CASE m # n
      <4>1. CASE m \in G
        BY <1>9, <4>1
      <4>2. CASE m \notin G
        <5>1. m \in Live(r) /\ r.nodes[m].nlookup = f.nodes[m].nlookup
          BY <1>9, <3>2, <4>2 DEF SameNode
        <5> QED
          BY <2>2, <4>2, <5>1
      <4> QED
        BY <4>1, <4>2
    <3> QED
      BY <3>1, <3>2
  <2> QED
    BY <1>9, <2>2, <2>3
<1>13. Agree(r, known)
  BY <1>2, <1>7, <1>10, <1>11, <1>12 DEF Agree, Fits
<1> QED
  BY <1>4, <1>5, <1>9, <1>13

(* rename_node: the node n loses its name and gets another one.             *)
LEMMA RenameKeeps ==
  ASSUME NEW s, Agree(s, known), NEW n \in Named(s), known[n] > 0,
         NEW dir \in Live(s), dir # n, known[dir] > 0,
         \/ dir = Root
         \/ s.nodes[dir].parent \in {None, Root} /\ Kids(s, n) = {},
         NEW name \in Names, NEW memory \in BOOLEAN
  PROVE  LET r == HashName(UnhashName(s, n), n, dir, name, memory) IN
         Agree(r, known) /\ SameRest(s, r)
<1> DEFINE t == UnhashName(s, n)
           r == HashName(t, n, dir, name, memory)
<1>1. n \in Live(s) /\ s.nodes[n].name # NoName /\ name # NoName
  BY NodeTableAssumption DEF Named
<1>2. /\ Good(s, {}) /\ Fits(s, known) /\ Live(s) \subseteq Ids
      /\ \A m \in Live(s) : /\ s.nodes[m].nlookup \in Nat /\ known[m] \in Nat
                            /\ s.nodes[m].nlookup >= known[m]
                            /\ Balanced(s, known, m)
  BY AgreeIs, AgreeMeans DEF Fits
<1>3. Good(t, {}) /\ \E G : Unhashed(s, t, n, G) /\ Unused(s, G, {})
  BY <1>1, <1>2, UnhashKeeps
<1>4. PICK G : Unhashed(s, t, n, G) /\ Unused(s, G, {})
  BY <1>3
<1> HIDE DEF t
<1>5. /\ Live(t) = Live(s) \ G /\ SameRest(s, t)
      /\ \A m \in Live(t) \ {n} : SameNode(s, t, m)
      /\ n \in Live(t) => /\ t.nodes[n].name = NoName /\ t.nodes[n].parent = None
                          /\ t.nodes[n].nlookup = s.nodes[n].nlookup
      /\ Elements(t.lru_table) = Elements(s.lru_table) \ G
      /\ \A m \in G : m \in Live(s) /\ s.nodes[m].nlookup = 0
  BY <1>4 DEF Unhashed, Unused
<1>6. n \in Live(t) /\ dir \in Live(t)
  BY <1>1, <1>2, <1>5
<1>7. Room(t, n, dir)
  <2>1. n # Root
    BY <1>1, <1>2 DEF Good, Tree
  <2>2. CASE dir = Root
    BY <1>6, <2>1, <2>2 DEF Room
  <2>3. CASE dir # Root
    <3>1. t.nodes[dir].parent \in {None, Root}
      BY <1>5, <1>6, <2>3 DEF SameNode
    <3>2. n # None
      BY <1>1, <1>2 DEF Good, Typed, Ids, None
    <3>3. Kids(t, n) = {}
      BY <1>5, <1>6, <2>3, <3>2 DEF Kids, SameNode
    <3> QED
      BY <1>6, <2>1, <3>1, <3>3 DEF Room
  <2> QED
    BY <2>2, <2>3
<1>8. Base(t, {}) /\ IdsFound(t) /\ t.nodes[n].name = NoName
  BY <1>3, <1>5, <1>6, GoodIs
<1>9. /\ Base(r, {}) /\ (IdsFound(t) => IdsFound(r))
      /\ Live(r) = Live(t) /\ SameRest(t, r)
      /\ r.lru_table = t.lru_table
      /\ \A m \in Live(r) \ {n} : SameNode(t, r, m)
      /\ r.nodes[n].name = name /\ r.nodes[n].parent = dir
      /\ r.nodes[n].nlookup = t.nodes[n].nlookup
  BY <1>6, <1>7, <1>8, HashNameKeeps
<1> HIDE DEF r
<1>10. /\ Good(r, {}) /\ Live(r) = Live(s) \ G /\ SameRest(s, r)
       /\ \A m \in Live(r) : r.nodes[m].nlookup = s.nodes[m].nlookup
       /\ \A m \in Live(r) : r.nodes[m].name = NoName <=> s.nodes[m].name = NoName
       /\ Elements(r.lru_table) = Elements(s.lru_table) \ G
  BY <1>1, <1>5, <1>6, <1>8, <1>9, GoodIs DEF SameRest, SameNode
<1>11. \A m \in Live(r) : Balanced(r, known, m)
  BY <1>2, <1>10 DEF Balanced, HeldByName
<1>12. ASSUME NEW m \in Ids, known[m] > 0 PROVE m \in Live(r)
  <2>1. m \in Live(s)
    BY <1>2, <1>12 DEF Fits
  <2> QED
    BY <1>2, <1>5, <1>10, <1>12, <2>1
<1>13. ListFits(r, known)
  <2>1. {m \in Live(r) : known[m] = 0 /\ r.nodes[m].nlookup > 0}
          = {m \in Live(s) : known[m] = 0 /\ s.nodes[m].nlookup > 0} \ G
    BY <1>10
  <2> QED
    BY <1>2, <1>10, <2>1 DEF Fits, ListFits
<1>14. Agree(r, known)
  BY <1>2, <1>10, <1>11, <1>12, <1>13 DEF Agree, Fits
<1> QED
  BY <1>10, <1>14 DEF r, t

(* forget_node                                                              *)
LEMMA ForgetKeeps ==
  ASSUME Agree(f, known), NEW n \in Ids, n # Root, NEW count \in 1 .. known[n],
         count = known[n] \/ mode # "remember"
  PROVE  LET k == [known EXCEPT ![n] = @ - count]
             s == [f EXCEPT !.nodes[n].nlookup = @ - count]
             r == IF s.nodes[n].nlookup = 0 THEN UnrefNode(s, n)
                  ELSE IF mode = "remember" /\ s.nodes[n].nlookup = 1
                  THEN [RemoveLru(s, n) EXCEPT !.lru_table = Append(@, n)]
                  ELSE s
         IN /\ Found(f, n) /\ ~(f.nodes[n].nlookup < count)
            /\ Agree(r, k) /\ SameRest(f, r)
<1> DEFINE k == [known EXCEPT ![n] = @ - count]
           l == f.nodes[n].nlookup - count
           s == [f EXCEPT !.nodes[n].nlookup = l]
           r == IF s.nodes[n].nlookup = 0 THEN UnrefNode(s, n)
                ELSE IF mode = "remember" /\ s.nodes[n].nlookup = 1
                THEN [RemoveLru(s, n) EXCEPT !.lru_table = Append(@, n)]
                ELSE s
<1>1. /\ Good(f, {}) /\ Fits(f, known) /\ Live(f) \subseteq Ids
      /\ Typed(f) /\ IdsFound(f)
      /\ \A m \in Live(f) : /\ f.nodes[m].nlookup \in Nat /\ known[m] \in Nat
                            /\ f.nodes[m].nlookup >= known[m]
                            /\ Balanced(f, known, m)
  BY AgreeIs, AgreeMeans DEF Fits
<1>2. known \in [Ids -> 0 .. MaxLookup] /\ known[n] \in 0 .. MaxLookup
  BY <1>1 DEF Fits
<1>3. count \in Nat /\ count >= 1 /\ count <= known[n] /\ known[n] \in Nat /\ MaxLookup \in Nat
  BY <1>2, NodeTableAssumption
<1>4. n \in Live(f) /\ f.nodes[n].nlookup >= count
  <2>1. n \in Live(f)
    BY <1>1, <1>3 DEF Fits
  <2> QED
    BY <1>1, <1>3, <2>1
<1>5. Found(f, n) /\ ~(f.nodes[n].nlookup < count)
  BY <1>1, <1>3, <1>4, FoundIsLive
<1>6. l \in Nat /\ f.nodes[n].nlookup > 0 /\ l = f.nodes[n].nlookup - count
  BY <1>1, <1>3, <1>4
<1> HIDE DEF l
<1>7. /\ Changed(f, s, n)
      /\ NodeIs(s.nodes[n], f.nodes[n].name, f.nodes[n].parent, l, f.nodes[n].refctr)
      /\ \A m \in Live(s) \ {n} : SameNode(f, s, m)
      /\ l > 0 => Good(s, {})
      /\ l = 0 /\ n # Root => Good(s, {n})
  BY <1>1, <1>4, <1>6, NowHeld
<1> HIDE DEF s
<1>8. /\ Live(s) = Live(f) /\ SameRest(f, s) /\ s.lru_table = f.lru_table
      /\ s.nodes[n].name = f.nodes[n].name /\ s.nodes[n].nlookup = l
  BY <1>7 DEF Changed, NodeIs
<1>9. /\ k \in [Ids -> 0 .. MaxLookup] /\ k[n] = known[n] - count
      /\ \A m \in Ids \ {n} : k[m] = known[m]
  <2>1. known[n] - count \in 0 .. MaxLookup
    BY <1>2, <1>3
  <2> QED
    BY <1>2, <2>1
<1> HIDE DEF k
<1>10. ASSUME NEW m \in Live(s) PROVE Balanced(s, k, m)
  <2>1. CASE m = n
    BY <1>1, <1>3, <1>4, <1>6, <1>8, <1>9, <2>1 DEF Balanced, HeldByName
  <2>2. CASE m # n
    <3>1. SameNode(f, s, m) /\ Balanced(f, known, m) /\ k[m] = known[m]
      BY <1>1, <1>7, <1>8, <1>9, <2>2
    <3> QED
      BY <3>1 DEF Balanced, HeldByName, SameNode
  <2> QED
    BY <2>1, <2>2
<1>11. ASSUME NEW m \in Ids, k[m] > 0 PROVE m \in Live(s)
  BY <1>1, <1>4, <1>8, <1>9, <1>11 DEF Fits
<1>12. mode = "remember" =>
         /\ n \notin Elements(s.lru_table) /\ k[n] = 0
         /\ Elements(s.lru_table)
              = {m \in Live(s) : k[m] = 0 /\ s.nodes[m].nlookup > 0} \ {n}
  <2> SUFFICES ASSUME mode = "remember"
               PROVE  /\ n \notin Elements(s.lru_table) /\ k[n] = 0
                      /\ Elements(s.lru_table)
                           = {m \in Live(s) : k[m] = 0 /\ s.nodes[m].nlookup > 0} \ {n}
    OBVIOUS
  <2>1. Elements(s.lru_table) = {m \in Live(f) : known[m] = 0 /\ f.nodes[m].nlookup > 0}
    BY <1>1, <1>8 DEF Fits, ListFits
  <2>2. known[n] # 0 /\ k[n] = 0
    BY <1>3, <1>9
  <2>3. \A m \in Live(f) \ {n} : k[m] = known[m] /\ s.nodes[m].nlookup = f.nodes[m].nlookup
    BY <1>1, <1>7, <1>8, <1>9 DEF SameNode
  <2> QED
    BY <1>8, <2>1, <2>2, <2>3
<1>13. CASE s.nodes[n].nlookup = 0
  <2>1. r = UnrefNode(s, n) /\ Good(s, {n})
    BY <1>7, <1>8, <1>13
  <2>2. Fits(s, k)
    <3>1. ListFits(s, k)
      <4>1. {m \in Live(s) : k[m] = 0 /\ s.nodes[m].nlookup > 0} \ {n}
              = {m \in Live(s) : k[m] = 0 /\ s.nodes[m].nlookup > 0}
        BY <1>13
      <4> QED
        BY <1>12, <4>1 DEF ListFits
    <3> QED
      BY <1>9, <1>10, <1>11, <3>1 DEF Fits
  <2> HIDE DEF r
  <2>3. n \in {n} /\ {n} \ {n} = {}
    OBVIOUS
  <2>4. Good(r, {n} \ {n}) /\ \E G : Without(s, r, G) /\ Unused(s, G, {n} \ {n})
    BY <2>1, <2>3, UnrefKeeps
  <2>5. PICK G : Without(s, r, G) /\ Unused(s, G, {})
    BY <2>3, <2>4
  <2>6. Fits(r, k)
    BY <1>1, <1>8, <2>2, <2>5, LossFits
  <2>7. SameRest(f, r)
    BY <1>8, <2>5 DEF Without, SameRest
  <2> QED
    BY <1>5, <2>3, <2>4, <2>6, <2>7, AgreeIs DEF r, s, k, l
<1>14. CASE s.nodes[n].nlookup # 0 /\ mode = "remember" /\ s.nodes[n].nlookup = 1
  <2> DEFINE t == RemoveLru(s, n)
             q == Append(t.lru_table, n)
             u == [t EXCEPT !.lru_table = q]
  <2>1. r = u /\ Good(s, {})
    BY <1>7, <1>8, <1>14
  <2>2. /\ IsState(s) /\ s.lru_table \in Seq(Live(s)) /\ Distinct(s.lru_table)
    BY <2>1 DEF Good, Typed
  <2>3. /\ IsState(t) /\ t.nodes = s.nodes /\ SameRest(s, t)
        /\ t.id_table = s.id_table /\ t.name_table = s.name_table
        /\ t.lru_table \in Seq(Live(s)) /\ Distinct(t.lru_table)
        /\ Elements(t.lru_table) = Elements(s.lru_table) \ {n}
    BY <2>2, RemoveLruKeeps
  <2> HIDE DEF r, t
  <2>4. q \in Seq(Live(s)) /\ Elements(q) = Elements(t.lru_table) \cup {n} /\ Distinct(q)
    BY <1>4, <1>8, <2>3, AppendElements
  <2> HIDE DEF q
  <2>5. Fields(u, t.nodes, t.ctr, t.generation, t.id_table, t.name_table, q)
    BY <2>3, StateUpdates
  <2> HIDE DEF u
  <2>6. /\ IsState(u) /\ u.nodes = s.nodes /\ SameRest(s, u)
        /\ u.id_table = s.id_table /\ u.name_table = s.name_table
        /\ u.lru_table = q
    BY <2>3, <2>5 DEF Fields, SameRest
  <2>7. Good(u, {})
    BY <2>1, <2>4, <2>6, ListChanged
  <2>8. Live(u) = Live(s) /\ \A m \in Live(u) : Balanced(u, k, m)
    BY <1>10, <2>6 DEF Live, Balanced
  <2>9. ListFits(u, k)
    <3>1. Elements(q) = {m \in Live(s) : k[m] = 0 /\ s.nodes[m].nlookup > 0}
      BY <1>4, <1>8, <1>12, <1>14, <2>3, <2>4
    <3> QED
      BY <2>6, <2>8, <3>1 DEF ListFits
  <2>10. Agree(u, k)
    BY <1>9, <1>11, <2>7, <2>8, <2>9 DEF Agree
  <2>11. SameRest(f, u)
    BY <1>8, <2>6 DEF SameRest
  <2> QED
    BY <1>5, <2>1, <2>10, <2>11 DEF r, s, k, l
<1>15. CASE s.nodes[n].nlookup # 0 /\ ~(mode = "remember" /\ s.nodes[n].nlookup = 1)
  <2>1. r = s
    BY <1>15
  <2>2. l > 0 /\ Good(s, {})
    BY <1>6, <1>7, <1>8, <1>15
  <2>3. ListFits(s, k)
    <3>1. mode = "remember" => FALSE
      <4>1. mode = "remember" => k[n] = 0 /\ Balanced(s, k, n)
        BY <1>4, <1>8, <1>10, <1>12
      <4> QED
        BY <1>8, <1>15, <4>1 DEF Balanced, HeldByName
    <3> QED
      BY <3>1 DEF ListFits
  <2>4. Agree(s, k)
    BY <1>9, <1>10, <1>11, <2>2, <2>3 DEF Agree
  <2> HIDE DEF r
  <2> QED
    BY <1>5, <1>8, <2>1, <2>4 DEF r, s, k, l
<1> QED
  BY <1>13, <1>14, <1>15

-----------------------------------------------------------------------------
(* fuse_clean_cache                                                         *)

(* r is s after n, which was on the list, was pruned or left.               *)
Pruning(s, r, n) ==
  /\ Agree(r, known) /\ SameRest(s, r)
  /\ Elements(s.lru_table) \ {n} \subseteq Elements(r.lru_table)

(* A node of the list without entries below it goes.                        *)
LEMMA PruneKeeps ==
  ASSUME mode = "remember", NEW s, Agree(s, known), NEW n \in Elements(s.lru_table)
  PROVE  Pruning(s, Prune(s, n), n)
<1> DEFINE u == [s EXCEPT !.nodes[n].nlookup = 0]
           v == UnhashName(u, n)
           r == UnrefNode(v, n)
<1>1. /\ Good(s, {}) /\ Fits(s, known) /\ Live(s) \subseteq Ids
      /\ \A m \in Live(s) : /\ s.nodes[m].nlookup \in Nat /\ known[m] \in Nat
                            /\ s.nodes[m].refctr \in Nat
                            /\ Balanced(s, known, m)
  BY AgreeIs, AgreeMeans DEF Fits
<1>2. Elements(s.lru_table) = {m \in Live(s) : known[m] = 0 /\ s.nodes[m].nlookup > 0}
  BY <1>1 DEF Fits, ListFits
<1>3. n \in Live(s) /\ known[n] = 0 /\ s.nodes[n].nlookup > 0
  BY <1>2
<1>4. Prune(s, n) = IF s.nodes[n].refctr > 1 THEN s ELSE r
  BY DEF Prune
<1>5. CASE s.nodes[n].refctr > 1
  BY <1>4, <1>5 DEF Pruning, SameRest
<1>6. CASE ~(s.nodes[n].refctr > 1)
  <2>1. Prune(s, n) = r
    BY <1>4, <1>6
  <2>2. n # Root
    <3>1. s.nodes[n].name # NoName
      BY <1>1, <1>3 DEF Balanced, HeldByName
    <3> QED
      BY <1>1, <3>1 DEF Good, Tree
  <2>3. /\ Changed(s, u, n) /\ Good(u, {n})
        /\ NodeIs(u.nodes[n], s.nodes[n].name, s.nodes[n].parent, 0, s.nodes[n].refctr)
        /\ \A m \in Live(u) \ {n} : SameNode(s, u, m)
    <3>1. 0 \in Nat /\ 0 = 0
      OBVIOUS
    <3> HIDE DEF u
    <3> QED
      BY <1>1, <1>3, <2>2, <3>1, NowHeld DEF u
  <2> HIDE DEF u
  <2>4. /\ Live(u) = Live(s) /\ SameRest(s, u) /\ u.lru_table = s.lru_table
        /\ u.nodes[n].nlookup = 0
    BY <2>3 DEF Changed, NodeIs
  <2>5. u.nodes[n].parent # n
    BY <1>3, <2>3, <2>4, NoLoop
  <2>6. Good(v, {n}) /\ \E G : Unhashed(u, v, n, G) /\ Unused(u, G, {n})
    BY <1>3, <2>3, <2>4, <2>5, UnhashKeeps
  <2>7. PICK G : Unhashed(u, v, n, G) /\ Unused(u, G, {n})
    BY <2>6
  <2> HIDE DEF v
  <2>8. /\ Live(v) = Live(s) \ G /\ SameRest(s, v) /\ n \notin G
        /\ \A m \in Live(v) \ {n} : SameNode(s, v, m)
        /\ v.nodes[n].name = NoName /\ v.nodes[n].parent = None /\ v.nodes[n].nlookup = 0
        /\ Elements(v.lru_table) = Elements(s.lru_table) \ G
        /\ \A m \in G : m \in Live(s) /\ u.nodes[m].nlookup = 0
    BY <1>3, <2>3, <2>4, <2>7 DEF Unhashed, Unused, SameRest, SameNode
  <2>9. n \in Live(v) /\ n # None
    BY <1>1, <1>3, <2>8 DEF Ids, None
  <2>10. Kids(s, n) = {}
    <3>1. CountOf(s, {}, n) = s.nodes[n].refctr
      BY <1>1, <1>3 DEF Good, Counted
    <3>2. IsFiniteSet(Kids(s, n)) /\ Cardinality(Kids(s, n)) \in Nat
      BY <1>1, KidsFinite DEF Good
    <3>3. Cardinality(Kids(s, n)) = 0
      BY <1>1, <1>3, <1>6, <3>1, <3>2 DEF CountOf
    <3> QED
      BY <3>2, <3>3, FS_EmptySet
  <2>11. Kids(v, n) = {}
    BY <2>8, <2>9, <2>10 DEF Kids, SameNode
  <2>12. v.nodes[n].refctr <= 1
    <3>1. v.nodes[n].refctr = CountOf(v, {n}, n) /\ Cardinality(Kids(v, n)) = 0
      BY <2>6, <2>9, <2>11, FS_EmptySet DEF Good, Counted
    <3> QED
      BY <2>8, <3>1 DEF CountOf
  <2>13. n \notin Live(r)
    BY <2>6, <2>9, <2>12, UnrefGone
  <2>14. n \in {n} /\ {n} \ {n} = {}
    OBVIOUS
  <2>15. Good(r, {n} \ {n}) /\ \E X : Without(v, r, X) /\ Unused(v, X, {n} \ {n})
    BY <2>6, <2>14, UnrefKeeps
  <2>16. PICK X : Without(v, r, X) /\ Unused(v, X, {})
    BY <2>14, <2>15
  <2> HIDE DEF r
  <2>17. Without(s, r, G \cup X) /\ n \in X
    <3>1. Live(r) = Live(v) \ X /\ \A m \in Live(r) : SameNode(v, r, m) /\ m # n
      BY <2>13, <2>16 DEF Without
    <3>2. Live(r) = Live(s) \ (G \cup X) /\ n \in X
      BY <2>8, <2>9, <2>13, <3>1
    <3>3. \A m \in Live(r) : SameNode(s, r, m)
      BY <2>8, <3>1 DEF SameNode
    <3>4. SameRest(s, r) /\ Elements(r.lru_table) = Elements(s.lru_table) \ (G \cup X)
      BY <2>8, <2>16 DEF Without, SameRest
    <3> QED
      BY <3>2, <3>3, <3>4 DEF Without
  <2> DEFINE Y == G \cup X
  <2>18. \A m \in Y \ {n} : m \in Live(s) /\ s.nodes[m].nlookup = 0
    <3>1. ASSUME NEW m \in X, m # n PROVE m \in Live(s) /\ s.nodes[m].nlookup = 0
      BY <2>8, <2>16, <3>1 DEF Unused, SameNode
    <3>2. ASSUME NEW m \in G, m # n PROVE m \in Live(s) /\ s.nodes[m].nlookup = 0
      BY <2>3, <2>4, <2>8, <3>2 DEF SameNode
    <3> QED
      BY <3>1, <3>2
  <2>19. n \in Y /\ Without(s, r, Y)
    BY <2>17
  <2> HIDE DEF Y
  <2>20. /\ Live(r) = Live(s) \ Y /\ SameRest(s, r)
         /\ \A m \in Live(r) : SameNode(s, r, m)
         /\ Elements(r.lru_table) = Elements(s.lru_table) \ Y
    BY <2>19 DEF Without
  <2>21. \A m \in Live(r) : Balanced(r, known, m)
    BY <1>1, <2>20 DEF Balanced, HeldByName, SameNode
  <2>22. ASSUME NEW m \in Ids, known[m] > 0 PROVE m \in Live(r)
    <3>1. m \in Live(s) /\ m # n
      BY <1>1, <1>3, <2>22 DEF Fits
    <3>2. s.nodes[m].nlookup # 0
      BY <1>1, <2>22, <3>1 DEF Balanced, HeldByName
    <3> QED
      BY <2>18, <2>20, <3>1, <3>2
  <2>23. ListFits(r, known)
    <3>1. {m \in Live(r) : known[m] = 0 /\ r.nodes[m].nlookup > 0}
            = {m \in Live(s) : known[m] = 0 /\ s.nodes[m].nlookup > 0} \ Y
      BY <2>20 DEF SameNode
    <3> QED
      BY <1>2, <2>20, <3>1 DEF ListFits
  <2>24. Agree(r, known)
    BY <1>1, <2>14, <2>15, <2>21, <2>22, <2>23 DEF Agree, Fits
  <2>25. Elements(s.lru_table) \ {n} \subseteq Elements(r.lru_table)
    BY <1>2, <2>18, <2>20
  <2> QED
    BY <2>1, <2>20, <2>24, <2>25 DEF Pruning
<1> QED
  BY <1>5, <1>6

(* g holds what is left after each of the first m nodes of the list.        *)
PrunedAre(s, g, m) ==
  g = [i \in 0 .. m |-> IF i = 0 THEN s ELSE Prune(g[i - 1], s.lru_table[i])]

(* There is such a function for any number of nodes.                        *)
LEMMA PrunedExist ==
  ASSUME NEW s, NEW n \in Nat
  PROVE  \E g : PrunedAre(s, g, n)
<1> DEFINE E(g, m) == g = [i \in 0 .. m |-> IF i = 0 THEN s
                                            ELSE Prune(g[i - 1], s.lru_table[i])]
           S == {m \in Nat : \E g : E(g, m)}
<1>1. 0 \in S
  <2> DEFINE h == [i \in 0 .. 0 |-> s]
  <2>1. E(h, 0)
    OBVIOUS
  <2> QED
    BY <2>1
<1>2. ASSUME NEW m \in Nat, m \in S
      PROVE  m + 1 \in S
  <2>1. PICK g : E(g, m)
    BY <1>2
  <2> DEFINE h == [i \in 0 .. m + 1 |-> IF i = m + 1 THEN Prune(g[m], s.lru_table[m + 1])
                                        ELSE g[i]]
  <2>2. ASSUME NEW i \in 0 .. m + 1
        PROVE  h[i] = IF i = 0 THEN s ELSE Prune(h[i - 1], s.lru_table[i])
    <3>1. CASE i = m + 1
      <4>1. i # 0 /\ i - 1 = m /\ m \in 0 .. m + 1 /\ m # m + 1
        BY <3>1
      <4> QED
        BY <3>1, <4>1
    <3>2. CASE i \in 0 .. m
      <4>1. i # m + 1 /\ (i # 0 => i - 1 \in 0 .. m + 1 /\ i - 1 # m + 1)
        BY <3>2
      <4>2. g[i] = IF i = 0 THEN s ELSE Prune(g[i - 1], s.lru_table[i])
        BY <2>1, <3>2
      <4> QED
        BY <4>1, <4>2
    <3> QED
      BY <3>1, <3>2
  <2>3. DOMAIN h = 0 .. m + 1 /\ h = [i \in 0 .. m + 1 |-> h[i]]
    OBVIOUS
  <2> HIDE DEF h
  <2>4. E(h, m + 1)
    BY <2>2, <2>3
  <2> QED
    BY <2>4
<1>3. Nat \subseteq S
  <2> HIDE DEF S
  <2> QED
    BY <1>1, <1>2, NumbersInduction
<1> QED
  BY <1>3 DEF PrunedAre

(* Whatever has been pruned, what comes later on the list is still there.   *)
LEMMA PrunedKeeps ==
  ASSUME mode = "remember", Agree(f, known), NEW count \in 1 .. Len(f.lru_table)
  PROVE  LET r == Pruned(f)[count] IN Agree(r, known) /\ SameRest(f, r)
<1> DEFINE q == f.lru_table
           n == Len(q)
           g == CHOOSE h : PrunedAre(f, h, n)
<1>1. q \in Seq(Live(f)) /\ Distinct(q)
  BY AgreeMeans
<1>2. n \in Nat /\ DOMAIN q = 1 .. n
  BY <1>1
<1>3. Pruned(f) = g
  BY DEF Pruned, PrunedAre
<1> HIDE DEF n
<1>4. PrunedAre(f, g, n)
  <2>1. \E h : PrunedAre(f, h, n)
    BY <1>2, PrunedExist
  <2> QED
    BY <2>1
<1> HIDE DEF g
<1> DEFINE Left(k) == /\ Agree(g[k], known) /\ SameRest(f, g[k])
                      /\ \A j \in k + 1 .. n : q[j] \in Elements(g[k].lru_table)
           S == {k \in Nat : k <= n => Left(k)}
<1>5. 0 \in S
  <2>1. g[0] = f
    BY <1>2, <1>4 DEF PrunedAre
  <2>2. \A j \in 1 .. n : q[j] \in Elements(q)
    BY <1>2 DEF Elements
  <2>3. Left(0)
    BY <1>2, <2>1, <2>2 DEF SameRest
  <2> QED
    BY <2>3
<1>6. ASSUME NEW k \in Nat, k \in S
      PROVE  k + 1 \in S
  <2> SUFFICES ASSUME k + 1 <= n PROVE Left(k + 1)
    OBVIOUS
  <2>1. Left(k)
    BY <1>2, <1>6
  <2>2. /\ k + 1 \in 0 .. n /\ k + 1 # 0 /\ (k + 1) - 1 = k
        /\ k + 1 \in DOMAIN q /\ k + 1 \in k + 1 .. n
    BY <1>2
  <2>3. g[k + 1] = Prune(g[k], q[k + 1])
    BY <1>4, <2>2 DEF PrunedAre
  <2>4. Pruning(g[k], g[k + 1], q[k + 1])
    BY <2>1, <2>2, <2>3, PruneKeeps
  <2>5. \A j \in k + 2 .. n : q[j] # q[k + 1] /\ j \in k + 1 .. n
    BY <1>1, <1>2, <2>2 DEF Distinct
  <2>6. \A j \in k + 2 .. n : q[j] \in Elements(g[k + 1].lru_table)
    BY <2>1, <2>4, <2>5 DEF Pruning
  <2>7. (k + 1) + 1 = k + 2
    OBVIOUS
  <2> QED
    BY <2>1, <2>4, <2>6, <2>7 DEF Pruning, SameRest
<1>7. Nat \subseteq S
  <2> HIDE DEF S
  <2> QED
    BY <1>5, <1>6, NumbersInduction
<1>8. count \in Nat /\ count <= n
  BY <1>2 DEF n
<1>9. Left(count)
  BY <1>7, <1>8
<1> QED
  BY <1>3, <1>9

-----------------------------------------------------------------------------
(* fuse_new_common: the first state.                                        *)

(* One node, in the table of ids and in no chain of names.                  *)
LEMMA FirstState ==
  LET s == [nodes |-> [n \in {Root} |-> NewNode], ctr |-> 0, generation |-> 0,
            id_table |-> NewTable(MinSize), name_table |-> NewTable(MinSize),
            lru_table |-> <<>>]
      r == HashId(IncLookup(s, Root), Root, TRUE)
  IN /\ Good(r, {}) /\ Live(r) = {Root} /\ r.ctr = 0 /\ r.generation = 0
     /\ r.nodes[Root].name = NoName /\ r.nodes[Root].nlookup = 1
     /\ Elements(r.lru_table) = {}
<1> DEFINE s == [nodes |-> [n \in {Root} |-> NewNode], ctr |-> 0, generation |-> 0,
                 id_table |-> NewTable(MinSize), name_table |-> NewTable(MinSize),
                 lru_table |-> <<>>]
           u == IncLookup(s, Root)
           r == HashId(u, Root, TRUE)
<1>1. Fields(s, [n \in {Root} |-> NewNode], 0, 0, NewTable(MinSize), NewTable(MinSize), <<>>)
  BY DEF Fields, IsState
<1> HIDE DEF s
<1>2. /\ Live(s) = {Root} /\ s.nodes[Root] = NewNode /\ NewNode \in NodeRecords
      /\ NewNode.nlookup = 0 /\ NewNode.refctr = 0
      /\ NewNode.name = NoName /\ NewNode.parent = None
  BY <1>1 DEF Fields, Live, NewNode, NodeRecords
<1>3. Nodes(s) /\ Root \in Live(s)
  BY <1>1, <1>2 DEF Nodes, Fields
<1> DEFINE t == [s EXCEPT !.nodes[Root].refctr = 1]
           v == [t EXCEPT !.nodes[Root].nlookup = 1]
<1>4. Changed(s, t, Root) /\ NodeIs(t.nodes[Root], NoName, None, 0, 1)
  <2>1. 1 \in Nat
    OBVIOUS
  <2> HIDE DEF t
  <2> QED
    BY <1>2, <1>3, <2>1, ChangeFields DEF t
<1>5. u = v
  <2>1. NewNode.refctr + (IF NewNode.nlookup = 0 THEN 1 ELSE 0) = 1
    BY <1>2
  <2>2. t.nodes[Root].nlookup + 1 = 1
    BY <1>4 DEF NodeIs
  <2> QED
    BY <1>2, <2>1, <2>2 DEF IncLookup
<1> HIDE DEF t
<1>6. Changed(t, v, Root) /\ NodeIs(v.nodes[Root], NoName, None, 1, 1)
  <2>1. 1 \in Nat /\ Nodes(t) /\ Root \in Live(t)
    BY <1>3, <1>4 DEF Changed
  <2> HIDE DEF v
  <2>2. NodeIs(v.nodes[Root], t.nodes[Root].name, t.nodes[Root].parent, 1, t.nodes[Root].refctr)
    BY <2>1, ChangeFields DEF v
  <2>3. Changed(t, v, Root)
    BY <2>1, ChangeFields DEF v
  <2> QED
    BY <1>4, <2>2, <2>3 DEF NodeIs
<1> HIDE DEF u, v
<1>7. /\ Nodes(u) /\ Live(u) = {Root} /\ NodeIs(u.nodes[Root], NoName, None, 1, 1)
      /\ u.ctr = 0 /\ u.generation = 0 /\ u.lru_table = <<>>
      /\ u.id_table = NewTable(MinSize) /\ u.name_table = NewTable(MinSize)
  BY <1>1, <1>2, <1>4, <1>5, <1>6 DEF Changed, Fields, SameRest
<1>8. Typed(u)
  <2>1. IdLimit \in Nat /\ IdLimit >= 2
    BY NodeTableAssumption
  <2>2. Live(u) \subseteq Ids /\ 0 \in 0 .. IdLimit - 1
    BY <1>7, <2>1 DEF Ids, Root
  <2>3. <<>> \in Seq(Live(u)) /\ Distinct(<<>>)
    BY DEF Distinct
  <2> QED
    BY <1>7, <2>2, <2>3 DEF Typed, Nodes
<1>9. Tree(u)
  BY <1>7 DEF Tree, HasPlace, NodeIs
<1>10. Counted(u, {})
  <2>1. Kids(u, Root) = {}
    BY <1>7 DEF Kids, NodeIs, Root, None
  <2>2. Cardinality(Kids(u, Root)) = 0
    BY <2>1, FS_EmptySet
  <2> QED
    BY <1>7, <2>2 DEF Counted, CountOf, NodeIs
<1>11. NamesFound(u)
  <2>1. Named(u) = {}
    BY <1>7 DEF Named, NodeIs
  <2> QED
    BY <1>7, <2>1, NewTableHolds DEF NamesFound
<1>12. Base(u, {})
  BY <1>8, <1>9, <1>10, <1>11 DEF Base
<1>13. Holding(u.id_table, Live(u) \ {Root}, IdHashes(u))
  <2>1. Live(u) \ {Root} = {}
    BY <1>7
  <2> QED
    BY <1>7, <2>1, NewTableHolds
<1>14. Good(r, {}) /\ r.nodes = u.nodes /\ SameRest(u, r) /\ r.lru_table = u.lru_table
  <2>1. Root \in Live(u) /\ TRUE \in BOOLEAN
    BY <1>7
  <2> HIDE DEF r
  <2> QED
    BY <1>12, <1>13, <2>1, HashIdKeeps DEF r
<1> HIDE DEF r
<1>15. Elements(<<>>) = {}
  BY DEF Elements
<1> QED
  BY <1>7, <1>14, <1>15 DEF r, u, s, Live, SameRest, NodeIs

-----------------------------------------------------------------------------
(* The invariant.                                                           *)

(* The kernel gives back all references of a remembered node at once, and   *)
(* names vanish without its help only where they hold no reference.         *)
Usual == "remember" \notin Piecemeal /\ Behind \subseteq {"forget"}

(* The id that was given out last is not above the counter. The first one,  *)
(* the root's, is no number that the counter has reached.                   *)
Passed(g, c, h, d) ==
  \/ g > h \/ (g = h /\ c >= d)
  \/ g = 0 /\ c = 0 /\ h = 0 /\ d = Root
GivenOut ==
  last[1] \in Nat /\ last[2] \in Nat /\ Passed(f.generation, f.ctr, last[1], last[2])

(* The inductive invariant.                                                 *)
TablesInv ==
  /\ mode \in Modes /\ aborted = FALSE /\ Agree(f, known)
  /\ f.generation <= MaxWraps /\ GivenOut

(* A later id than one that has passed another is later than that one.      *)
LEMMA LaterPassed ==
  \A g, c, h, d, i, e \in Nat :
    Passed(h, d, i, e) /\ Later(g, c, h, d) /\ c # Root
      => Later(g, c, i, e) /\ Passed(g, c, i, e)
BY DEF Later, Passed, Root

(* The invariant holds at the start.                                        *)
LEMMA TablesInit == TableInit => TablesInv
<1> DEFINE s == [nodes |-> [n \in {Root} |-> NewNode], ctr |-> 0, generation |-> 0,
                 id_table |-> NewTable(MinSize), name_table |-> NewTable(MinSize),
                 lru_table |-> <<>>]
           r == HashId(IncLookup(s, Root), Root, TRUE)
<1> SUFFICES ASSUME TableInit PROVE TablesInv
  OBVIOUS
<1>1. /\ mode \in Modes /\ f = r /\ known = [id \in Ids |-> IF id = Root THEN 1 ELSE 0]
      /\ last = <<0, Root>> /\ aborted = FALSE
  BY DEF TableInit
<1> HIDE DEF s
<1>2. /\ Good(r, {}) /\ Live(r) = {Root} /\ r.ctr = 0 /\ r.generation = 0
      /\ r.nodes[Root].name = NoName /\ r.nodes[Root].nlookup = 1
      /\ Elements(r.lru_table) = {}
  BY FirstState DEF s
<1> HIDE DEF r
<1>3. Root \in Ids
  BY <1>2 DEF Good, Typed
<1>4. known \in [Ids -> 0 .. MaxLookup] /\ known[Root] = 1
  BY <1>1, <1>3, NodeTableAssumption
<1>5. \A n \in Live(f) : Balanced(f, known, n)
  BY <1>1, <1>2, <1>4 DEF Balanced, HeldByName
<1>6. \A n \in Ids : known[n] > 0 => n \in Live(f)
  BY <1>1, <1>2
<1>7. ListFits(f, known)
  BY <1>1, <1>2, <1>4 DEF ListFits
<1>8. GivenOut
  BY <1>1, <1>2 DEF GivenOut, Passed, Root
<1>9. f.generation <= MaxWraps
  BY <1>1, <1>2, NodeTableAssumption
<1> QED
  BY <1>1, <1>2, <1>4, <1>5, <1>6, <1>7, <1>8, <1>9 DEF TablesInv, Agree

-----------------------------------------------------------------------------
(* Every step preserves the invariant, and ids do not return.               *)

(* What the invariant says of a directory that the kernel names.            *)
LEMMA DirIs ==
  ASSUME TablesInv, NEW d \in Dirs
  PROVE  /\ d \in Live(f) /\ known[d] > 0
         /\ d = Root \/ f.nodes[d].parent = Root
         /\ Agree(f, known) /\ Good(f, {})
BY DEF TablesInv, Agree, Dirs

(* A step that leaves the counters of ids alone.                            *)
LEMMA InvNext ==
  ASSUME TablesInv, NEW r, NEW k, Agree(r, k), SameRest(f, r), f' = r, known' = k,
         mode' = mode, last' = last, aborted' = aborted
  PROVE  TablesInv'
<1>1. Agree(f, known)'
  BY DEF Agree, Balanced, HeldByName, ListFits
<1> QED
  BY <1>1 DEF TablesInv, GivenOut, SameRest

(* find_node, for a node that is there.                                     *)
LEMMA FindOldStep ==
  ASSUME TablesInv, NEW n \in Named(f), FindOld(n)
  PROVE  TablesInv' /\ last' = last
<1> DEFINE s == IF mode = "remember" /\ f.nodes[n].nlookup = 1 THEN RemoveLru(f, n) ELSE f
           r == IncLookup(s, n)
           k == [known EXCEPT ![n] = @ + 1]
<1>1. /\ known[n] < MaxLookup /\ f' = r /\ known' = k
      /\ mode' = mode /\ last' = last /\ aborted' = aborted
  BY DEF FindOld
<1>2. Agree(r, k) /\ SameRest(f, r)
  BY <1>1, FindOldKeeps DEF TablesInv
<1> HIDE DEF r, k
<1> QED
  BY <1>1, <1>2, InvNext

(* A step that gives out a later id.                                        *)
LEMMA LaterThanLast ==
  ASSUME TablesInv, NEW r, Typed(r), Later(r.generation, r.ctr, f.generation, f.ctr),
         r.ctr \in Ids, r.ctr \notin Live(f)
  PROVE  /\ Later(r.generation, r.ctr, last[1], last[2])
         /\ Passed(r.generation, r.ctr, last[1], last[2])
         /\ r.generation \in Nat /\ r.ctr \in Nat
<1>1. Good(f, {})
  BY DEF TablesInv, Agree
<1>2. r.ctr # Root
  BY <1>1 DEF Good, Tree
<1>3. f.generation \in Nat /\ f.ctr \in Nat /\ r.generation \in Nat /\ r.ctr \in Nat
  BY <1>1, NodeTableAssumption DEF Good, Typed
<1>4. last[1] \in Nat /\ last[2] \in Nat /\ Passed(f.generation, f.ctr, last[1], last[2])
  BY DEF TablesInv, GivenOut
<1>5. ASSUME NEW g \in Nat, NEW c \in Nat, NEW h \in Nat, NEW d \in Nat, c # Root,
             Later(g, c, h, d)
      PROVE  \A i, e \in Nat : Passed(h, d, i, e) => Later(g, c, i, e) /\ Passed(g, c, i, e)
  BY <1>5, LaterPassed
<1>6. \A i, e \in Nat : Passed(f.generation, f.ctr, i, e)
        => Later(r.generation, r.ctr, i, e) /\ Passed(r.generation, r.ctr, i, e)
  BY <1>2, <1>3, <1>5
<1>7. /\ Later(r.generation, r.ctr, last[1], last[2])
      /\ Passed(r.generation, r.ctr, last[1], last[2])
  BY <1>4, <1>6
<1> QED
  BY <1>3, <1>7

(* find_node makes a node.                                                  *)
LEMMA FindNewStep ==
  ASSUME TablesInv, NEW d \in Dirs, NEW a \in Names, FindNew(d, a)
  PROVE  TablesInv' /\ Later(last'[1], last'[2], last[1], last[2])
<1>1. PICK memory \in BOOLEAN : f' = Created(d, a, memory)
  BY DEF FindNew
<1> DEFINE r == Created(d, a, memory)
           n == r.ctr
           k == [known EXCEPT ![n] = 1]
<1>2. /\ Cardinality(Live(f)) < MaxNodes /\ WithNextId(f).generation <= MaxWraps
      /\ known' = k /\ last' = <<f'.generation, f'.ctr>> /\ mode' = mode /\ aborted' = aborted
  BY <1>1 DEF FindNew
<1>3. Good(r, {}) /\ Makes(f, r, n, d, a) /\ r.generation = WithNextId(f).generation
  BY <1>2, DirIs, CreatedKeeps
<1>4. f' = r
  BY <1>1
<1> HIDE DEF r
<1>5. Agree(r, k)
  BY <1>3, DirIs, FindNewKeeps
<1> HIDE DEF k
<1>6. Agree(f, known)'
  BY <1>2, <1>4, <1>5 DEF Agree, Balanced, HeldByName, ListFits
<1>7. last' = <<r.generation, n>> /\ last'[1] = r.generation /\ last'[2] = n
  BY <1>2, <1>4
<1>8. /\ Later(r.generation, n, last[1], last[2])
      /\ r.generation \in Nat /\ n \in Nat
  <2>1. Typed(r) /\ Later(r.generation, n, f.generation, f.ctr) /\ n \in Ids /\ n \notin Live(f)
    BY <1>3 DEF Good, Makes
  <2> QED
    BY <2>1, LaterThanLast
<1>9. GivenOut'
  <2>1. Passed(r.generation, n, r.generation, n)
    BY <1>8 DEF Passed
  <2> QED
    BY <1>4, <1>7, <1>8, <2>1 DEF GivenOut
<1>10. TablesInv'
  BY <1>2, <1>3, <1>4, <1>6, <1>9 DEF TablesInv
<1> QED
  BY <1>7, <1>8, <1>10

(* find_node has no memory: the id is lost.                                 *)
LEMMA FindFailsStep ==
  ASSUME TablesInv, NEW d \in Dirs, NEW a \in Names, FindFails(d, a)
  PROVE  TablesInv' /\ last' = last
<1> DEFINE r == WithNextId(f)
<1>1. /\ Cardinality(Live(f)) < MaxNodes /\ r.generation <= MaxWraps /\ f' = r
      /\ known' = known /\ last' = last /\ mode' = mode /\ aborted' = aborted
  BY DEF FindFails
<1>2. /\ Good(r, {}) /\ r.nodes = f.nodes /\ r.lru_table = f.lru_table
      /\ r.ctr \in Ids /\ r.ctr \notin Live(f)
      /\ Later(r.generation, r.ctr, f.generation, f.ctr)
  BY <1>1, DirIs, NextIdKeeps
<1> HIDE DEF r
<1>3. Agree(r, known)
  BY <1>2, DirIs, FindFailsKeeps
<1>4. Agree(f, known)'
  BY <1>1, <1>3 DEF Agree, Balanced, HeldByName, ListFits
<1>5. Passed(r.generation, r.ctr, last[1], last[2])
  BY <1>2, LaterThanLast DEF Good
<1>6. GivenOut'
  BY <1>1, <1>5 DEF GivenOut, TablesInv
<1> QED
  BY <1>1, <1>4, <1>6 DEF TablesInv

(* remove_node                                                              *)
LEMMA RemoveNameStep ==
  ASSUME Usual, TablesInv, NEW d \in Dirs, NEW a \in Names, RemoveName(d, a)
  PROVE  TablesInv' /\ last' = last
<1> DEFINE n == LookupNode(f, d, a)
           r == UnlinkNode(f, n)
<1>1. /\ n # None /\ (known[n] > 0 \/ mode \in Behind)
      /\ Unlinkable(f, n) => f' = r /\ aborted' = aborted
      /\ mode' = mode /\ known' = known /\ last' = last
  BY DEF RemoveName, Seen
<1>2. n \in Named(f)
  BY <1>1, DirIs, LookupFinds
<1>3. known[n] > 0 \/ mode = "forget"
  BY <1>1 DEF Usual
<1> HIDE DEF n
<1>4. Unlinkable(f, n) /\ Agree(r, known) /\ SameRest(f, r)
  BY <1>2, <1>3, DirIs, UnlinkKeeps
<1> HIDE DEF r
<1> QED
  BY <1>1, <1>4, InvNext

(* rename_node                                                              *)
LEMMA RenameStep ==
  ASSUME Usual, TablesInv, NEW d \in Dirs, NEW e \in Dirs, NEW a \in Names, NEW b \in Names,
         Rename(d, a, e, b)
  PROVE  TablesInv' /\ last' = last
<1> DEFINE n == LookupNode(f, d, a)
           old == LookupNode(f, e, b)
           s == IF old = None THEN f ELSE UnlinkNode(f, old)
<1>1. /\ n # None /\ known[n] > 0 /\ n # old /\ n # e
      /\ e = Root \/ \A m \in Live(f) : f.nodes[m].parent # n
      /\ old # None => (known[old] > 0 \/ mode \in Behind)
      /\ old = None \/ Unlinkable(f, old) =>
           /\ \E memory \in BOOLEAN : f' = HashName(UnhashName(s, n), n, e, b, memory)
           /\ aborted' = aborted
      /\ mode' = mode /\ known' = known /\ last' = last
  BY DEF Rename, Seen
<1>2. /\ Agree(f, known) /\ Good(f, {}) /\ d \in Live(f) /\ e \in Live(f)
      /\ known[d] > 0 /\ known[e] > 0 /\ (e = Root \/ f.nodes[e].parent = Root)
  BY DirIs
<1>3. n \in Named(f) /\ (old # None => old \in Named(f) /\ f.nodes[old].parent = e)
  BY <1>1, <1>2, LookupFinds
<1>4. n \in Live(f) /\ f.nodes[n].name # NoName /\ n # None /\ Live(f) \subseteq Ids
  BY <1>1, <1>2, <1>3 DEF Named, Good, Typed
<1> HIDE DEF n, old
<1>5. /\ old = None \/ Unlinkable(f, old)
      /\ Agree(s, known) /\ SameRest(f, s)
      /\ Live(s) \subseteq Live(f)
      /\ \A m \in Live(s) : m # old => SameNode(f, s, m)
      /\ old \in Live(s) => s.nodes[old].parent \in {None, f.nodes[old].parent}
  <2>1. CASE old = None
    BY <1>2, <2>1 DEF SameRest, SameNode
  <2>2. CASE old # None
    <3>1. known[old] > 0 \/ mode = "forget"
      BY <1>1, <2>2 DEF Usual
    <3>2. s = UnlinkNode(f, old)
      BY <2>2
    <3> HIDE DEF s
    <3> QED
      BY <1>2, <1>3, <2>2, <3>1, <3>2, UnlinkKeeps
  <2> QED
    BY <2>1, <2>2
<1>6. PICK memory \in BOOLEAN : f' = HashName(UnhashName(s, n), n, e, b, memory)
  BY <1>1, <1>5
<1> HIDE DEF s
<1>7. n \in Live(s) /\ e \in Live(s)
  BY <1>1, <1>2, <1>4, <1>5 DEF Agree
<1>8. SameNode(f, s, n) /\ n \in Named(s)
  BY <1>1, <1>4, <1>5, <1>7 DEF SameNode, Named
<1>9. \/ e = Root
      \/ s.nodes[e].parent \in {None, Root} /\ Kids(s, n) = {}
  <2> SUFFICES ASSUME e # Root
               PROVE  s.nodes[e].parent \in {None, Root} /\ Kids(s, n) = {}
    OBVIOUS
  <2>1. e # old
    <3>1. f.nodes[e].parent # e
      BY <1>2, NoLoop
    <3> QED
      BY <1>2, <1>3, <1>4, <3>1 DEF Ids, None
  <2>2. s.nodes[e].parent = f.nodes[e].parent
    BY <1>5, <1>7, <2>1 DEF SameNode
  <2>3. ASSUME NEW m \in Live(s) PROVE s.nodes[m].parent # n
    <3>1. m \in Live(f) /\ f.nodes[m].parent # n
      BY <1>1, <1>5
    <3>2. CASE m = old
      BY <1>4, <1>5, <3>1, <3>2
    <3>3. CASE m # old
      BY <1>5, <3>1, <3>3 DEF SameNode
    <3> QED
      BY <3>2, <3>3
  <2> QED
    BY <1>2, <2>2, <2>3 DEF Kids
<1> DEFINE r == HashName(UnhashName(s, n), n, e, b, memory)
<1>10. Agree(r, known) /\ SameRest(s, r)
  BY <1>1, <1>2, <1>5, <1>7, <1>8, <1>9, RenameKeeps
<1>11. f' = r /\ aborted' = aborted
  BY <1>1, <1>5, <1>6
<1> HIDE DEF r
<1>12. SameRest(f, r)
  BY <1>5, <1>10 DEF SameRest
<1> QED
  BY <1>1, <1>10, <1>11, <1>12, InvNext

(* forget_node                                                              *)
LEMMA ForgetStep ==
  ASSUME Usual, TablesInv, NEW n \in Ids, NEW count, Forget(n, count)
  PROVE  TablesInv' /\ last' = last
<1> DEFINE k == [known EXCEPT ![n] = @ - count]
           s == [f EXCEPT !.nodes[n].nlookup = @ - count]
           r == IF s.nodes[n].nlookup = 0 THEN UnrefNode(s, n)
                ELSE IF mode = "remember" /\ s.nodes[n].nlookup = 1
                THEN [RemoveLru(s, n) EXCEPT !.lru_table = Append(@, n)]
                ELSE s
<1>1. /\ n # Root /\ count \in 1 .. known[n] /\ (mode \in Piecemeal \/ count = known[n])
      /\ known' = k /\ mode' = mode /\ last' = last
      /\ Found(f, n) /\ ~(f.nodes[n].nlookup < count) => f' = r /\ aborted' = aborted
  BY DEF Forget
<1>2. count = known[n] \/ mode # "remember"
  BY <1>1 DEF Usual
<1>3. Found(f, n) /\ ~(f.nodes[n].nlookup < count) /\ Agree(r, k) /\ SameRest(f, r)
  BY <1>1, <1>2, ForgetKeeps DEF TablesInv
<1> HIDE DEF r, k
<1> QED
  BY <1>1, <1>3, InvNext

(* fuse_clean_cache                                                         *)
LEMMA CleanStep ==
  ASSUME TablesInv, NEW count, Clean(count)
  PROVE  TablesInv' /\ last' = last
<1> DEFINE q == f.lru_table
           r == Pruned(f)[count]
<1>1. /\ mode = "remember" /\ count \in 1 .. Len(q)
      /\ (\A i \in 1 .. count : f.nodes[q[i]].nlookup = 1) => f' = r /\ aborted' = aborted
      /\ known' = known /\ mode' = mode /\ last' = last
  BY DEF Clean
<1>2. Agree(f, known)
  BY DEF TablesInv
<1>3. ASSUME NEW i \in 1 .. count PROVE f.nodes[q[i]].nlookup = 1
  <2>1. q \in Seq(Live(f))
    BY <1>2, AgreeMeans
  <2>2. i \in DOMAIN q /\ q[i] \in Elements(q)
    BY <1>1, <2>1 DEF Elements
  <2>3. q[i] \in Live(f) /\ known[q[i]] = 0 /\ f.nodes[q[i]].nlookup > 0
    BY <1>1, <1>2, <2>2 DEF Agree, ListFits
  <2>4. Balanced(f, known, q[i])
    BY <1>2, <2>3 DEF Agree
  <2> QED
    BY <2>3, <2>4 DEF Balanced, HeldByName
<1>4. Agree(r, known) /\ SameRest(f, r)
  BY <1>1, <1>2, PrunedKeeps
<1> HIDE DEF r
<1> QED
  BY <1>1, <1>3, <1>4, InvNext

(* Any step.                                                                *)
LEMMA TablesStep ==
  ASSUME Usual, TablesInv, TableNext
  PROVE  TablesInv' /\ (last' = last \/ Later(last'[1], last'[2], last[1], last[2]))
<1>1. ASSUME NEW d \in Dirs, NEW a \in Names, FindOld(LookupNode(f, d, a))
      PROVE  TablesInv' /\ last' = last
  <2>1. LookupNode(f, d, a) \in Named(f)
    BY <1>1, DirIs, LookupFinds DEF FindOld
  <2> QED
    BY <1>1, <2>1, FindOldStep
<1>2. ASSUME NEW n \in Ids, FindDot(n) PROVE TablesInv' /\ last' = last
  BY <1>2, FindOldStep DEF FindDot, Named
<1> QED
  BY <1>1, <1>2, FindNewStep, FindFailsStep, RemoveNameStep, RenameStep, ForgetStep, CleanStep
     DEF TableNext

(* A step that changes nothing.                                             *)
LEMMA TablesStutter == TablesInv /\ UNCHANGED tableVars => TablesInv'
BY DEF TablesInv, tableVars, GivenOut, Agree, Balanced, HeldByName, ListFits

-----------------------------------------------------------------------------
(* What the invariant is for.                                               *)

(* A sequence that holds nothing twice is as long as it has elements.       *)
LEMMA DistinctLength ==
  ASSUME NEW S, NEW q \in Seq(S), Distinct(q)
  PROVE  ToSet(q) = Elements(q) /\ Len(q) = Cardinality(Elements(q))
<1>1. Len(q) \in Nat /\ DOMAIN q = 1 .. Len(q) /\ q = [i \in 1 .. Len(q) |-> q[i]]
  OBVIOUS
<1>2. q \in [1 .. Len(q) -> Elements(q)]
  BY <1>1 DEF Elements
<1>3. q \in Bijection(1 .. Len(q), Elements(q))
  BY <1>1, <1>2 DEF Bijection, Injection, Surjection, IsInjective, Distinct, Elements
<1>4. ExistsBijection(1 .. Len(q), Elements(q))
  BY <1>3 DEF ExistsBijection
<1>5. Cardinality(Elements(q)) = Len(q)
  BY <1>1, <1>4, FS_CountingElements
<1>6. ToSet(q) = Elements(q)
  BY DEF ToSet, Elements
<1> QED
  BY <1>5, <1>6

(* The properties of the model follow.                                      *)
LEMMA TablesHold == TablesInv => EveryNodeFound /\ KernelNodesStay /\ LruIsUnused
<1> SUFFICES ASSUME TablesInv PROVE EveryNodeFound /\ KernelNodesStay /\ LruIsUnused
  OBVIOUS
<1>1. Agree(f, known) /\ aborted = FALSE
  BY DEF TablesInv
<1>2. Good(f, {})
  BY <1>1 DEF Agree
<1>3. EveryNodeFound
  BY <1>2 DEF Good, IdsFound, NamesFound, Holding, Named, EveryNodeFound
<1>4. KernelNodesStay
  BY <1>1 DEF Agree, KernelNodesStay
<1>5. LruIsUnused
  <2>1. ToSet(f.lru_table) = Elements(f.lru_table)
        /\ Len(f.lru_table) = Cardinality(Elements(f.lru_table))
    BY <1>1, AgreeMeans, DistinctLength
  <2> QED
    BY <1>1, <2>1 DEF Agree, ListFits, LruIsUnused
<1> QED
  BY <1>3, <1>4, <1>5

(* What the state of the two tables and of the nodes may be.                *)
LEMMA TablesTyped == TablesInv => TableTypeOK
<1> SUFFICES ASSUME TablesInv PROVE TableTypeOK
  OBVIOUS
<1>1. Agree(f, known) /\ aborted = FALSE /\ mode \in Modes /\ f.generation <= MaxWraps
  BY DEF TablesInv
<1>2. Good(f, {}) /\ known \in [Ids -> 0 .. MaxLookup]
  BY <1>1 DEF Agree
<1>3. /\ f.lru_table \in Seq(Live(f)) /\ Live(f) \subseteq Ids
      /\ f.ctr \in 0 .. IdLimit - 1 /\ f.generation \in Nat
  BY <1>2 DEF Good, Typed
<1>4. ASSUME NEW t, NEW T, T \subseteq Live(f), NEW H, Holding(t, T, H) PROVE TableOK(t)
  <2>1. /\ IsTable(t) /\ t.use = Cardinality(T)
        /\ \A b \in 0 .. t.size - 1 : t.array[b] = {n \in T : Bucket(t, H[n]) = b}
    BY <1>4, HoldingBuckets
  <2>2. Cardinality(T) \in Nat
    BY <1>2, <1>4, HashesAreNumbers, FS_CardinalityType DEF Good
  <2>3. t.size \in Nat
    BY <2>1, SizeParts DEF IsTable
  <2>4. \A b \in 0 .. t.size - 1 : t.array[b] \in SUBSET Ids
    BY <1>3, <1>4, <2>1
  <2> QED
    BY <2>1, <2>2, <2>3, <2>4 DEF TableOK, IsTable
<1>5. TableOK(f.id_table) /\ TableOK(f.name_table)
  BY <1>2, <1>4 DEF Good, IdsFound, NamesFound, Named
<1>6. f.generation \in 0 .. MaxWraps
  BY <1>1, <1>3, NodeTableAssumption
<1> QED
  BY <1>1, <1>2, <1>3, <1>5, <1>6 DEF TableTypeOK

(* The inductive invariant of the node table: the tables, the tree, the     *)
(* counts, the list and the references of the kernel fit together.          *)
THEOREM TablesInvariant == Usual /\ TableSpec => []TablesInv
<1> SUFFICES ASSUME Usual PROVE TableSpec => []TablesInv
  OBVIOUS
<1>1. TablesInv /\ [TableNext]_tableVars => TablesInv'
  BY TablesStep, TablesStutter
<1> QED
  BY <1>1, TablesInit, PTL DEF TableSpec

(* Through every split, merge, doubling and halving of the two tables every *)
(* node is found by its id and by its name, and nothing else is.            *)
THEOREM NodesFound == Usual /\ TableSpec => []EveryNodeFound
BY TablesInvariant, TablesHold, PTL

(* A node the kernel holds is never taken away: get_node finds it, the      *)
(* assertions of forget_node, unlink_node and fuse_clean_cache hold.        *)
THEOREM NodesStay == Usual /\ TableSpec => []KernelNodesStay
BY TablesInvariant, TablesHold, PTL

(* In remember mode the list holds exactly the nodes that the kernel does   *)
(* not know any more, each of them once.                                    *)
THEOREM ListIsUnused == Usual /\ TableSpec => []LruIsUnused
BY TablesInvariant, TablesHold, PTL

(* Types: every value stays in its range.                                   *)
THEOREM TypesHold == Usual /\ TableSpec => []TableTypeOK
BY TablesInvariant, TablesTyped, PTL

(* next_id: an id that is given out again comes under a later generation.   *)
THEOREM IdsAreNew == Usual /\ TableSpec => IdsNeverReturn
<1> SUFFICES ASSUME Usual PROVE TableSpec => IdsNeverReturn
  OBVIOUS
<1>1. TablesInv /\ [TableNext]_tableVars =>
        [last' # last => \/ last'[1] > last[1]
                         \/ last'[1] = last[1] /\ last'[2] > last[2]]_tableVars
  BY TablesStep DEF Later
<1>2. TableSpec => []TablesInv
  BY TablesInvariant
<1> QED
  BY <1>1, <1>2, PTL DEF TableSpec, IdsNeverReturn

=============================================================================
