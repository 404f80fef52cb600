----------------------------- MODULE SessionLoop -----------------------------
(***************************************************************************)
(* The multithreaded session loop of lib/fuse_loop_mt.c: a pool of workers *)
(* that read requests from /dev/fuse, grows when none of them is available *)
(* and shrinks when too many are, and the main thread that waits for the   *)
(* session to exit, stops the workers, joins them and tears the mount down.*)
(* Every action of a worker is one critical section of mt->lock or the     *)
(* outcome of one read of the device.                                      *)
(***************************************************************************)
EXTENDS Integers, FiniteSets

CONSTANTS
  Workers,   (* the threads the process can create; one more fails         *)
  MaxAvail,  (* how many workers may be available at once: 10 in the code  *)
  WakeUp     (* how the main thread stops a worker: "cancel" is            *)
             (* pthread_cancel, "signal" is the pthread_kill(SIGUSR1) that *)
             (* the Android patch of mount.fusedroid puts in its place     *)

ASSUME SessionLoopAssumption ==
  /\ IsFiniteSet(Workers) /\ MaxAvail \in Nat \ {0}
  /\ WakeUp \in {"cancel", "signal"}

VARIABLES
  mounted,   (* the kernel still has the mount                             *)
  exited,    (* se->exited                                                 *)
  mpc,       (* what the main thread is doing                              *)
  exit,      (* mt->exit                                                   *)
  error,     (* mt->error # 0                                              *)
  finish,    (* the value of the semaphore mt->finish                      *)
  numavail,  (* mt->numavail                                               *)
  list,      (* the workers of the list mt->main                           *)
  wpc,        (* what each worker is doing                                  *)
  isforget,  (* its request is a FORGET                                    *)
  wake       (* a pthread_cancel of it is pending                          *)

loopVars == <<mounted, exited, mpc, exit, error, finish, numavail, list, wpc, isforget, wake>>

(* free: no such thread.  got: a request was read.  leaving: out of the    *)
(* loop, before sem_post.  ended: returned or cancelled, not yet joined.   *)
WorkerPCs == {"free", "top", "reading", "got", "processing", "leaving", "ended"}
MainPCs == {"start", "check", "semwait", "stop", "join", "teardown", "done", "killed"}

LoopTypeOK ==
  /\ mounted \in BOOLEAN /\ exited \in BOOLEAN
  /\ exit \in BOOLEAN /\ error \in BOOLEAN
  /\ mpc \in MainPCs
  /\ finish \in Nat /\ numavail \in Nat
  /\ list \subseteq Workers
  /\ wpc \in [Workers -> WorkerPCs]
  /\ isforget \in [Workers -> BOOLEAN] /\ wake \in [Workers -> BOOLEAN]

LoopInit ==
  /\ mounted = TRUE /\ exited = FALSE
  /\ mpc = "start" /\ exit = FALSE /\ error = FALSE
  /\ finish = 0 /\ numavail = 0 /\ list = {}
  /\ wpc = [w \in Workers |-> "free"]
  /\ isforget = [w \in Workers |-> FALSE]
  /\ wake = [w \in Workers |-> FALSE]

(* A process that a signal has killed takes no more steps.                 *)
Alive == mpc # "killed"

At(w, p) == Alive /\ wpc[w] = p

-----------------------------------------------------------------------------
(* fuse_loop_start_thread with mt->lock held: it fails, and the caller in  *)
(* fuse_do_work ignores that, when the process can create no more threads. *)
(* loc stands for wpc and n for numavail in the middle of the section.      *)
StartsWorker(loc, n) ==
  \/ \E w \in Workers :
       /\ loc[w] = "free"
       /\ wpc' = [loc EXCEPT ![w] = "top"]
       /\ list' = list \cup {w}
       /\ numavail' = n + 1
       /\ isforget' = [isforget EXCEPT ![w] = FALSE]
       /\ wake' = [wake EXCEPT ![w] = FALSE]
  \/ /\ \A w \in Workers : loc[w] # "free"
     /\ wpc' = loc /\ numavail' = n
     /\ UNCHANGED <<list, isforget, wake>>

(* The condition of the loop of fuse_do_work.                              *)
LoopHead(w) ==
  /\ At(w, "top")
  /\ wpc' = [wpc EXCEPT ![w] = IF exited THEN "leaving" ELSE "reading"]
  /\ UNCHANGED <<mounted, exited, mpc, exit, error, finish, numavail, list, isforget, wake>>

(* A request was read; fuse_kern_chan_receive drops it once the session    *)
(* has exited.                                                             *)
ReadRequest(w) ==
  /\ At(w, "reading") /\ mounted
  /\ IF exited THEN wpc' = [wpc EXCEPT ![w] = "leaving"] /\ UNCHANGED isforget
               ELSE /\ wpc' = [wpc EXCEPT ![w] = "got"]
                    /\ \E f \in BOOLEAN : isforget' = [isforget EXCEPT ![w] = f]
  /\ UNCHANGED <<mounted, exited, mpc, exit, error, finish, numavail, list, wake>>

(* EINTR: round the loop again.  ENOENT, a request that was interrupted,   *)
(* restarts the read at once and changes nothing.                          *)
ReadInterrupted(w) ==
  /\ At(w, "reading") /\ mounted
  /\ wpc' = [wpc EXCEPT ![w] = IF exited THEN "leaving" ELSE "top"]
  /\ UNCHANGED <<mounted, exited, mpc, exit, error, finish, numavail, list, isforget, wake>>

(* ENODEV: the file system was unmounted.                                  *)
ReadNoDevice(w) ==
  /\ At(w, "reading") /\ ~mounted
  /\ exited' = TRUE
  /\ wpc' = [wpc EXCEPT ![w] = "leaving"]
  /\ UNCHANGED <<mounted, mpc, exit, error, finish, numavail, list, isforget, wake>>

(* Any other error, or a short read.  Once the session has exited the      *)
(* error is not looked at.                                                 *)
ReadFails(w) ==
  /\ At(w, "reading")
  /\ exited' = TRUE
  /\ error' = (error \/ ~exited)
  /\ wpc' = [wpc EXCEPT ![w] = "leaving"]
  /\ UNCHANGED <<mounted, mpc, exit, finish, numavail, list, isforget, wake>>

(* The read is where the worker can be cancelled; it then ends without     *)
(* posting the semaphore.                                                  *)
ReadCancelled(w) ==
  /\ At(w, "reading") /\ wake[w]
  /\ wpc' = [wpc EXCEPT ![w] = "ended"]
  /\ UNCHANGED <<mounted, exited, mpc, exit, error, finish, numavail, list, isforget, wake>>

(* The first critical section of fuse_do_work: n workers stay available.   *)
TakeRequest(w, n, stops, starts) ==
  /\ At(w, "got")
  /\ LET loc == [wpc EXCEPT ![w] = "processing"]
     IN  \/ /\ stops
            /\ wpc' = [wpc EXCEPT ![w] = "ended"]
            /\ UNCHANGED <<numavail, list, isforget, wake>>
         \/ ~stops /\ starts /\ StartsWorker(loc, n)
         \/ /\ ~stops /\ ~starts
            /\ wpc' = loc /\ numavail' = n
            /\ UNCHANGED <<list, isforget, wake>>
  /\ UNCHANGED <<mounted, exited, mpc, exit, error, finish>>

(* A FORGET does not take its worker from the available ones, so that a    *)
(* burst of them starts no threads.                                        *)
AvailDuring(w) == IF isforget[w] THEN numavail ELSE numavail - 1

GotIgnoringExit(w) == TakeRequest(w, AvailDuring(w), FALSE, AvailDuring(w) = 0)
GotCountingForget(w) == TakeRequest(w, numavail - 1, exit, numavail = 1)
GotStartingLate(w) == TakeRequest(w, AvailDuring(w), exit, AvailDuring(w) < 0)

Got(w) == TakeRequest(w, AvailDuring(w), exit, AvailDuring(w) = 0)

(* The second critical section of fuse_do_work, after the request has been *)
(* processed: a worker too many leaves the list and detaches itself, or,   *)
(* when the main thread is about to join it, returns as it is.             *)
Release(w, n, Max, leaves) ==
  /\ At(w, "processing")
  /\ \/ /\ n <= Max
        /\ wpc' = [wpc EXCEPT ![w] = "top"] /\ numavail' = n /\ UNCHANGED list
     \/ /\ n > Max /\ ~leaves
        /\ wpc' = [wpc EXCEPT ![w] = "ended"] /\ numavail' = n /\ UNCHANGED list
     \/ /\ n > Max /\ leaves
        /\ wpc' = [wpc EXCEPT ![w] = "free"] /\ numavail' = n - 1 /\ list' = list \ {w}
  /\ UNCHANGED <<mounted, exited, mpc, exit, error, finish, isforget, wake>>

AvailAfter(w) == IF isforget[w] THEN numavail ELSE numavail + 1

FinishKeepingCount(w) == Release(w, numavail, MaxAvail, ~exit)
FinishIgnoringExit(w) == Release(w, AvailAfter(w), MaxAvail, TRUE)
FinishOneMore(w) == Release(w, AvailAfter(w), MaxAvail + 1, ~exit)

Finish(w) == Release(w, AvailAfter(w), MaxAvail, ~exit)

LeaveSilently(w) ==
  /\ At(w, "leaving")
  /\ wpc' = [wpc EXCEPT ![w] = "ended"]
  /\ UNCHANGED <<mounted, exited, mpc, exit, error, finish, numavail, list, isforget, wake>>

(* Out of the loop: sem_post(&mt->finish).                                 *)
Leave(w) ==
  /\ At(w, "leaving")
  /\ wpc' = [wpc EXCEPT ![w] = "ended"]
  /\ finish' = finish + 1
  /\ UNCHANGED <<mounted, exited, mpc, exit, error, numavail, list, isforget, wake>>

-----------------------------------------------------------------------------
(* The main thread: fuse_session_loop_mt and the teardown that follows it. *)

(* The first worker; the loop is not entered when it cannot be created.    *)
StartLoop ==
  /\ mpc = "start"
  /\ StartsWorker(wpc, numavail)
  /\ mpc' = IF list' = {} THEN "teardown" ELSE "check"
  /\ UNCHANGED <<mounted, exited, exit, error, finish>>

MainChecks ==
  /\ mpc = "check"
  /\ mpc' = IF exited THEN "stop" ELSE "semwait"
  /\ UNCHANGED <<mounted, exited, exit, error, finish, numavail, list, wpc, isforget, wake>>

SemWait ==
  /\ mpc = "semwait" /\ finish > 0
  /\ finish' = finish - 1
  /\ mpc' = "check"
  /\ UNCHANGED <<mounted, exited, exit, error, numavail, list, wpc, isforget, wake>>

(* Every worker of the list is told to stop, and mt->exit is set, in one   *)
(* critical section.  pthread_cancel is remembered until the worker reads. *)
(* mount.fusedroid installs no handler for SIGUSR1, so the signal kills    *)
(* the process when one of the threads it is sent to still runs.           *)
StopWorkers ==
  /\ mpc = "stop"
  /\ exit' = TRUE
  /\ IF WakeUp = "signal" /\ \E w \in list : wpc[w] # "ended"
     THEN mpc' = "killed" /\ UNCHANGED wake
     ELSE mpc' = "join" /\ wake' = [w \in Workers |-> wake[w] \/ w \in list]
  /\ UNCHANGED <<mounted, exited, error, finish, numavail, list, wpc, isforget>>

(* fuse_join_worker: pthread_join waits for the worker to end.             *)
JoinWorker ==
  /\ mpc = "join"
  /\ \E w \in list :
       /\ wpc[w] = "ended"
       /\ wpc' = [wpc EXCEPT ![w] = "free"]
       /\ list' = list \ {w}
  /\ UNCHANGED <<mounted, exited, mpc, exit, error, finish, numavail, isforget, wake>>

LoopReturnsEarly ==
  /\ mpc = "join" /\ \A w \in list : wpc[w] # "top"
  /\ mpc' = "teardown"
  /\ exited' = FALSE
  /\ UNCHANGED <<mounted, exit, error, finish, numavail, list, wpc, isforget, wake>>

(* All workers are joined: mt is destroyed and the session reset.          *)
LoopReturns ==
  /\ mpc = "join" /\ list = {}
  /\ mpc' = "teardown"
  /\ exited' = FALSE
  /\ UNCHANGED <<mounted, exit, error, finish, numavail, list, wpc, isforget, wake>>

(* fuse_teardown_common unmounts and destroys the session.                 *)
Teardown ==
  /\ mpc = "teardown"
  /\ mounted' = FALSE
  /\ mpc' = "done"
  /\ UNCHANGED <<exited, exit, error, finish, numavail, list, wpc, isforget, wake>>

-----------------------------------------------------------------------------
(* Outside events.                                                         *)

(* SIGHUP, SIGINT or SIGTERM: exit_handler runs in the main thread, the    *)
(* only one that does not block them.  It interrupts a sem_wait that is    *)
(* already blocked, and not one that is about to be called.                *)
TermSignal ==
  /\ mpc \notin {"done", "killed"}
  /\ exited' = TRUE
  /\ mpc' \in IF mpc = "semwait" THEN {"check", "semwait"} ELSE {mpc}
  /\ UNCHANGED <<mounted, exit, error, finish, numavail, list, wpc, isforget, wake>>

(* The kernel drops the mount: a umount of the mount point.                *)
Unmount ==
  /\ mounted /\ mpc # "done"
  /\ mounted' = FALSE
  /\ UNCHANGED <<exited, mpc, exit, error, finish, numavail, list, wpc, isforget, wake>>

WorkerStep(w) ==
  \/ LoopHead(w) \/ ReadRequest(w) \/ ReadInterrupted(w) \/ ReadNoDevice(w) \/ ReadFails(w)
  \/ ReadCancelled(w) \/ Got(w) \/ Finish(w) \/ Leave(w)

MainStep ==
  \/ StartLoop \/ MainChecks \/ SemWait \/ StopWorkers
  \/ JoinWorker \/ LoopReturns \/ Teardown

LoopNext == (\E w \in Workers : WorkerStep(w)) \/ MainStep \/ TermSignal \/ Unmount

LoopSpec == LoopInit /\ [][LoopNext]_loopVars

(* Threads are scheduled, handlers return, and a read that can fail or be  *)
(* cancelled does.  No request, signal or unmount is bound to arrive.      *)
WorkerMoves(w) ==
  LoopHead(w) \/ ReadNoDevice(w) \/ ReadCancelled(w) \/ Got(w) \/ Finish(w) \/ Leave(w)

Fairness == WF_loopVars(MainStep) /\ \A w \in Workers : WF_loopVars(WorkerMoves(w))

FairLoopSpec == LoopSpec /\ Fairness

-----------------------------------------------------------------------------
(* numavail counts exactly the workers of the list that are not busy with  *)
(* a request other than a FORGET, through every start, every shrinking of  *)
(* the pool and every exit path, up to the joins that no longer count.     *)
Busy(w) == wpc[w] = "processing" /\ ~isforget[w]

Available == {w \in list : ~Busy(w)}

AvailCount ==
  mpc \notin {"join", "teardown", "done"} => numavail = Cardinality(Available)

(* While the loop serves, some worker of the list is not busy, so that the *)
(* next request will be read, unless the process can create no thread.     *)
ReaderLeft ==
  mpc \in {"check", "semwait"} /\ Available = {} => list = Workers

(* The pool never keeps more than MaxAvail idle workers.                   *)
PoolBounded == ~exit => Cardinality(Available) <= MaxAvail

(* fuse_join_worker reads the list without mt->lock and joins its threads: *)
(* once mt->exit is set no worker may enter the list, or leave it and      *)
(* detach by itself; it only loses workers that have ended and are joined. *)
ExitFreezesPool ==
  [][exit => list' \subseteq list /\ \A w \in list \ list' : wpc[w] = "ended"]_loopVars

(* mt lives on the stack of fuse_session_loop_mt: when that returns, no    *)
(* thread may be left that will still read mt or post its semaphore.       *)
NoWorkerAtReturn ==
  mpc \in {"teardown", "done"} => \A w \in Workers : wpc[w] = "free"

(* An unmount from outside makes the process leave its loop and finish,    *)
(* however many workers are idle, busy or just starting at that moment.    *)
UnmountEndsLoop == ~mounted ~> mpc = "done"

(* fuse.h: fuse_main registers an exit handler to unmount the file system  *)
(* on program exit.  However the process ends, the mount must be gone.     *)
UnmountedAtEnd == mpc \in {"done", "killed"} => ~mounted
=============================================================================
