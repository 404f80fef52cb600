----------------------------- MODULE PosixLocks -----------------------------
(***************************************************************************)
(* Advisory record locks of one file in the high-level library (fuse.c):   *)
(* the file system grants and releases locks, and the library keeps a list *)
(* of them in node->locks, so that it can answer F_GETLK itself and drop   *)
(* what an owner holds when it closes the file. A request changes the file *)
(* system's locks first, without f->lock, and the list later, under it.    *)
(***************************************************************************)
EXTENDS Naturals, Sequences, SequencesExt, FiniteSets

CONSTANTS
  Threads,    \* threads that serve lock requests
  OwnerOf,    \* the lock owner whose requests a thread serves
  OffsetMax,  \* OFFSET_MAX: a range up to here has length 0
  Idle,       \* no request
  NoMemory,   \* malloc may fail in locks_insert
  FlushFails  \* the file system may fail to unlock at a close

Offsets == 0 .. OffsetMax
Owners == {OwnerOf[t] : t \in Threads}
Types == {"R", "W", "U"}  \* F_RDLCK, F_WRLCK, F_UNLCK

\* struct lock
Locks == {l \in [owner : Owners, type : Types, start : Offsets, end : Offsets] :
            l.start <= l.end}

ASSUME PosixLocksAssumption ==
  /\ DOMAIN OwnerOf = Threads
  /\ OffsetMax \in Nat /\ NoMemory \in BOOLEAN /\ FlushFails \in BOOLEAN
  /\ Idle \notin Locks

VARIABLES
  held,     \* the file system's locks: a type for each owner and byte
  locks,    \* node->locks
  pending,  \* what a thread has done in the file system and not yet listed
  kept      \* owners whose locks the file system kept when they were flushed

vars == <<held, locks, pending, kept>>

-----------------------------------------------------------------------------
(***************************************************************************)
(* The list.                                                               *)
(***************************************************************************)

OverlapOpen(l, m) == m.start < l.end /\ l.start < m.end  \* mutant: ends left out
Overlap(l, m) == m.start <= l.end /\ l.start <= m.end
Against(l, m) == l.owner # m.owner /\ Overlap(l, m) /\ "W" \in {l.type, m.type}

\* locks_conflict: the first lock in the way, if there is one.
LocksConflict(list, lock) ==
  LET them == {i \in DOMAIN list : Against(list[i], lock)}
  IN {list[i] : i \in {j \in them : \A k \in them : j <= k}}

\* l comes before m, and is not to be merged with it: locks of one type that
\* touch are.
Before(l, m) ==
  IF l.type = m.type THEN l.end + 1 < m.start ELSE l.end < m.start

\* What lock leaves of l, in front and behind.
InFront(l, lock) == [l EXCEPT !.end = lock.start - 1]
BehindAt(l, lock) == [l EXCEPT !.start = lock.end]  \* mutant: one byte too many
Behind(l, lock) == [l EXCEPT !.start = lock.end + 1]

\* One round of the loop of locks_insert. before: the list up to *lp; after:
\* what follows once the loop has ended; lock: the new lock, which grows;
\* listed: the new lock is in the list already (goto out).
InsertStep(a, l) ==
  LET lock == a.lock
      keep(m) == [a EXCEPT !.before = Append(@, m)]
      end(m) == [a EXCEPT !.after = Append(@, m), !.ended = TRUE]
      grown == [lock EXCEPT !.start = IF l.start < @ THEN l.start ELSE @,
                            !.end = IF @ < l.end THEN l.end ELSE @]
      within(m, n) == n.start <= m.start /\ m.end <= n.end
  IN IF a.ended THEN [a EXCEPT !.after = Append(@, l)]
     ELSE IF l.owner # lock.owner \/ Before(l, lock) THEN keep(l)
     ELSE IF Before(lock, l) THEN end(l)
     ELSE IF l.type = lock.type
     THEN IF within(lock, l) THEN [end(l) EXCEPT !.listed = TRUE]
                             ELSE [a EXCEPT !.lock = grown]
     ELSE IF within(l, lock) THEN a
     ELSE IF l.end <= lock.end THEN keep(InFront(l, lock))
     ELSE IF lock.start <= l.start THEN end(Behind(l, lock))
     ELSE [end(Behind(l, lock)) EXCEPT !.before = Append(@, InFront(l, lock))]

\* locks_insert
LocksInsert(list, lock) ==
  LET round[i \in 0 .. Len(list)] ==
        IF i = 0 THEN [before |-> <<>>, after |-> <<>>, lock |-> lock,
                       ended |-> FALSE, listed |-> FALSE]
        ELSE InsertStep(round[i - 1], list[i])
      a == round[Len(list)]
      new == IF a.listed \/ lock.type = "U" THEN <<>> ELSE <<a.lock>>
  IN a.before \o new \o a.after

\* Everything is unlocked without memory.
NeedsMemory(lock) == ~(lock.type = "U" /\ lock.start = 0 /\ lock.end = OffsetMax)

-----------------------------------------------------------------------------
(***************************************************************************)
(* The file system behind fuse_fs_lock: one lock per owner and byte.       *)
(***************************************************************************)

Covered(l) == l.start .. l.end
FsLock(l) ==
  [held EXCEPT ![l.owner] = [b \in Offsets |->
     IF b \in Covered(l) THEN l.type ELSE @[b]]]
FsConflictWith(l, owners) ==
  \E o \in owners \ {l.owner}, b \in Covered(l) :
    \/ held[o][b] = "W"
    \/ held[o][b] = "R" /\ l.type = "W"
FsConflict(l) == FsConflictWith(l, Owners)

Init ==
  /\ held = [o \in Owners |-> [b \in Offsets |-> "U"]]
  /\ locks = <<>>
  /\ pending = [t \in Threads |-> Idle]
  /\ kept = {}

\* fuse_lock_common of a SETLK or SETLKW: granted at once or after a wait.
SetLock(t, l) ==
  /\ pending[t] = Idle /\ l.owner = OwnerOf[t]
  /\ l.type = "U" \/ ~FsConflict(l)
  /\ held' = FsLock(l)
  /\ pending' = [pending EXCEPT ![t] = l]
  /\ UNCHANGED <<locks, kept>>

\* The file system's part of fuse_flush_common: at a close by the owner. A
\* failure other than ENOSYS changes nothing of what follows, so that the
\* list loses what the file system has kept.
Flush(t) ==
  LET o == OwnerOf[t]
      all == [owner |-> o, type |-> "U", start |-> 0, end |-> OffsetMax]
  IN /\ pending[t] = Idle
     /\ \/ held' = FsLock(all) /\ kept' = kept \ {o}
        \/ FlushFails /\ kept' = kept \cup {o} /\ UNCHANGED held
     /\ pending' = [pending EXCEPT ![t] = all]
     /\ UNCHANGED locks

\* The second part of fuse_lib_setlk and fuse_flush_common. That locks_insert
\* had no memory is not looked at: the request succeeds all the same.
List(t) ==
  /\ pending[t] # Idle
  /\ \/ locks' = LocksInsert(locks, pending[t])
     \/ NoMemory /\ NeedsMemory(pending[t]) /\ UNCHANGED locks
  /\ pending' = [pending EXCEPT ![t] = Idle]
  /\ UNCHANGED <<held, kept>>

Next ==
  \E t \in Threads :
    \/ \E l \in Locks : SetLock(t, l)
    \/ Flush(t)
    \/ List(t)

Spec == Init /\ [][Next]_vars

-----------------------------------------------------------------------------

TypeOK ==
  /\ held \in [Owners -> [Offsets -> Types]]
  /\ locks \in Seq(Locks)
  /\ pending \in [Threads -> Locks \cup {Idle}]
  /\ kept \subseteq Owners

Settled(o) == \A t \in Threads : OwnerOf[t] = o => pending[t] = Idle

\* Of every owner without a request under way the list says, byte by byte,
\* what the file system says, after any sequence of locks that split, cut,
\* merge and replace each other, and of other owners' requests in between
\* (fuse_lib_setlk, fuse_flush_common, locks_insert). When the file system
\* failed to unlock at a close, the list may lack what it kept, but still
\* has no lock that the file system has not.
ListFollowsFs ==
  \A o \in Owners : Settled(o) =>
    \A b \in Offsets :
      LET types == {l.type : l \in {m \in ToSet(locks) : m.owner = o /\ b \in Covered(m)}}
      IN \/ types = {held[o][b]} \ {"U"}
         \/ o \in kept /\ types = {}

\* With no request under way, F_GETLK answers from the list what the file
\* system would answer, but for locks it kept at a close, and the lock it
\* reports is one that somebody holds from its first byte to its last
\* (fuse_lib_getlk, locks_conflict).
GetlkAgrees ==
  (\A o \in Owners : Settled(o)) =>
    \A l \in Locks : l.type # "U" =>
      /\ LocksConflict(locks, l) # {} => FsConflict(l)
      /\ FsConflictWith(l, Owners \ kept) => LocksConflict(locks, l) # {}
      /\ \A c \in LocksConflict(locks, l) :
           \A b \in Covered(c) : held[c.owner][b] = c.type
=============================================================================
