------------------------- MODULE PosixLocks_proofs -------------------------
(* The list of locks of PosixLocks for any owners, any offsets and any      *)
(* sequence of requests: what locks_insert makes of a list, by induction    *)
(* over the rounds of its loop, and from it that the list and the file      *)
(* system say the same.                                                     *)
EXTENDS PosixLocks, WellFoundedInduction, SequenceTheorems, TLAPS

(* A set of numbers that is not empty has a least element.                  *)
LEMMA LeastNumber ==
  ASSUME NEW T, T \subseteq Nat, T # {}
  PROVE  \E x \in T : \A y \in T : x <= y
  <1> DEFINE R == OpToRel(<, Nat)
  <1>1. \E x \in T : \A y \in T : ~(<<y, x>> \in R)
    BY NatLessThanWellFounded, WFMin
  <1>2. PICK x \in T : \A y \in T : ~(<<y, x>> \in R)
    BY <1>1
  <1>3. ASSUME NEW y \in T, y < x
        PROVE  FALSE
    <2>1. <<y, x>> \in R
      BY <1>3 DEF OpToRel
    <2> QED
      BY <1>2, <2>1
  <1> HIDE DEF R
  <1>4. \A y \in T : ~(y < x)
    BY <1>3
  <1> QED
    BY <1>2, <1>4

(* Induction, about a set of numbers in the place of a property of them.    *)
LEMMA NumbersInduction ==
  ASSUME NEW S, 0 \in S, \A n \in Nat : n \in S => n + 1 \in S
  PROVE  Nat \subseteq S
  <1> SUFFICES ASSUME Nat \ S # {}
               PROVE  FALSE
    OBVIOUS
  <1>1. PICK x \in Nat \ S : \A y \in Nat \ S : x <= y
    BY LeastNumber
  <1>2. x # 0 /\ x - 1 \in Nat
    BY <1>1
  <1>3. x - 1 \in S
    BY <1>1, <1>2
  <1> QED
    BY <1>1, <1>2, <1>3

-----------------------------------------------------------------------------
(* A lock that is held, two locks of which the first is entirely before the *)
(* second unless they have different owners, and a list in that order.      *)
Held == {l \in Locks : l.type # "U"}
Apart(x, y) == x.owner = y.owner => x.end < y.start
Sorted(s) == \A i, j \in DOMAIN s : i < j => Apart(s[i], s[j])

(* What a set of locks says of a byte.                                      *)
Says(S, o, b, ty) == \E z \in S : z.owner = o /\ b \in Covered(z) /\ z.type = ty

(* One element more at the end of a list.                                   *)
LEMMA Appended ==
  ASSUME NEW s \in Seq(Held), NEW x \in Held
  PROVE  /\ Append(s, x) \in Seq(Held)
         /\ ToSet(Append(s, x)) = ToSet(s) \cup {x}
         /\ Sorted(s) /\ (\A y \in ToSet(s) : Apart(y, x)) => Sorted(Append(s, x))
  <1> DEFINE t == Append(s, x)
  <1>1. t \in Seq(Held) /\ Len(t) = Len(s) + 1 /\ DOMAIN t = 1 .. Len(s) + 1
        /\ DOMAIN s = 1 .. Len(s)
        /\ (\A i \in 1 .. Len(s) : t[i] = s[i]) /\ t[Len(s) + 1] = x /\ Len(s) \in Nat
    OBVIOUS
  <1> HIDE DEF t
  <1>2. ToSet(t) = ToSet(s) \cup {x}
    <2>1. ASSUME NEW y \in ToSet(t)
          PROVE  y \in ToSet(s) \cup {x}
      <3>1. PICK i \in 1 .. Len(s) + 1 : y = t[i]
        BY <2>1, <1>1 DEF ToSet
      <3>2. CASE i \in 1 .. Len(s)
        BY <3>1, <3>2, <1>1 DEF ToSet
      <3>3. CASE i = Len(s) + 1
        BY <3>1, <3>3, <1>1
      <3> QED
        BY <3>1, <3>2, <3>3, <1>1
    <2>2. ASSUME NEW y \in ToSet(s)
          PROVE  y \in ToSet(t)
      <3>1. PICK i \in 1 .. Len(s) : y = s[i]
        BY <2>2, <1>1 DEF ToSet
      <3>2. i \in 1 .. Len(s) + 1 /\ y = t[i]
        BY <3>1, <1>1
      <3> QED
        BY <3>2, <1>1 DEF ToSet
    <2>3. x \in ToSet(t)
      <3>1. Len(s) + 1 \in DOMAIN t
        BY <1>1
      <3> QED
        BY <3>1, <1>1 DEF ToSet
    <2> QED
      BY <2>1, <2>2, <2>3
  <1>3. ASSUME Sorted(s), \A y \in ToSet(s) : Apart(y, x)
        PROVE  Sorted(t)
    <2> SUFFICES ASSUME NEW i \in DOMAIN t, NEW j \in DOMAIN t, i < j
                 PROVE  Apart(t[i], t[j])
      BY DEF Sorted
    <2>1. i \in 1 .. Len(s) /\ t[i] = s[i]
      BY <1>1
    <2>2. CASE j \in 1 .. Len(s)
      BY <1>1, <1>3, <2>1, <2>2 DEF Sorted
    <2>3. CASE j = Len(s) + 1
      <3>1. s[i] \in ToSet(s)
        BY <2>1, <1>1 DEF ToSet
      <3> QED
        BY <1>1, <1>3, <2>1, <2>3, <3>1
    <2> QED
      BY <2>2, <2>3, <1>1
  <1> QED
    BY <1>1, <1>2, <1>3 DEF t

-----------------------------------------------------------------------------
(* The loop of locks_insert. a is what it has after k rounds over list, lock *)
(* the new lock before it grew.                                             *)

(* Everything has its type; a grown lock keeps its owner and type.          *)
Typed(a, lock) ==
  /\ a.before \in Seq(Held) /\ a.after \in Seq(Held)
  /\ a.lock \in Locks /\ a.lock.owner = lock.owner /\ a.lock.type = lock.type
  /\ a.ended \in BOOLEAN /\ a.listed \in BOOLEAN
  /\ a = [before |-> a.before, after |-> a.after, lock |-> a.lock,
          ended |-> a.ended, listed |-> a.listed]

(* What has been passed is in order, and the new lock fits in between.      *)
Ordered(a) ==
  /\ Sorted(a.before) /\ Sorted(a.after)
  /\ \A x \in ToSet(a.before), y \in ToSet(a.after) : Apart(x, y)
  /\ ~a.ended => ToSet(a.after) = {} /\ ~a.listed
Fits(a) ==
  /\ \A x \in ToSet(a.before) : Apart(x, a.lock)
  /\ a.ended /\ ~a.listed => \A y \in ToSet(a.after) : Apart(a.lock, y)

(* What is still to come is behind what has been passed, and behind the new  *)
(* lock once the loop has ended.                                            *)
Ahead(a, list, k) ==
  \A j \in DOMAIN list : j > k =>
    /\ \A x \in ToSet(a.before) \cup ToSet(a.after) : Apart(x, list[j])
    /\ a.ended => Apart(a.lock, list[j])

(* The lock has grown over locks of its type only: nothing that is still to  *)
(* come lies under what it has gained.                                      *)
Grown(a, list, lock, k) ==
  /\ a.lock.start <= lock.start /\ lock.end <= a.lock.end
  /\ \A j \in DOMAIN list : j > k /\ list[j].owner = lock.owner =>
       /\ a.lock.end = lock.end \/ a.lock.end < list[j].start
       /\ a.lock.start = lock.start \/ lock.start <= list[j].start
  /\ lock.type = "U" => a.lock = lock

(* Other owners' locks are what they were.                                  *)
Passed(list, k) == {list[i] : i \in 1 .. k}
Kept(a) == ToSet(a.before) \cup ToSet(a.after)
Others(a, list, lock, k) ==
  {z \in Kept(a) : z.owner # lock.owner} = {z \in Passed(list, k) : z.owner # lock.owner}

(* The owner's own are: the new lock where it is, the old ones elsewhere.    *)
Own(a, list, lock, k) ==
  \A b \in Offsets, ty \in {"R", "W"} :
    \/ Says(Kept(a), lock.owner, b, ty)
    \/ ~a.listed /\ b \in Covered(a.lock) /\ ty = a.lock.type
    <=>
    \/ b \in Covered(lock) /\ ty = lock.type
    \/ b \notin Covered(lock) /\ Says(Passed(list, k), lock.owner, b, ty)

(* The invariant of the loop.                                               *)
Round(a, list, lock, k) ==
  /\ Typed(a, lock) /\ Ordered(a) /\ Fits(a) /\ Ahead(a, list, k)
  /\ Grown(a, list, lock, k) /\ Others(a, list, lock, k) /\ Own(a, list, lock, k)

(* The ways a round can go. c is the state after it.                        *)
KeepsAs(a, c, x) ==
  /\ c.before = Append(a.before, x) /\ c.after = a.after
  /\ c.lock = a.lock /\ c.ended = a.ended /\ c.listed = a.listed
EndsAs(a, c, x) ==
  /\ c.before = a.before /\ c.after = Append(a.after, x)
  /\ c.lock = a.lock /\ c.ended = TRUE
SplitsAs(a, c, x, y) ==
  /\ c.before = Append(a.before, x) /\ c.after = Append(a.after, y)
  /\ c.lock = a.lock /\ c.ended = TRUE /\ c.listed = a.listed
GrowsOver(a, c, l) ==
  /\ c.before = a.before /\ c.after = a.after /\ c.ended = a.ended /\ c.listed = a.listed
  /\ c.lock = [a.lock EXCEPT !.start = IF l.start < @ THEN l.start ELSE @,
                             !.end = IF @ < l.end THEN l.end ELSE @]
Within(m, n) == n.start <= m.start /\ m.end <= n.end
Whole(c) == c = [before |-> c.before, after |-> c.after, lock |-> c.lock,
                 ended |-> c.ended, listed |-> c.listed]

(* A round goes one of these ways and no other.                             *)
LEMMA Ways ==
  ASSUME NEW a, NEW lock, NEW l \in Held, Typed(a, lock), NEW c, c = InsertStep(a, l)
  PROVE  /\ Whole(c)
         /\ \/ a.ended /\ EndsAs(a, c, l) /\ c.listed = a.listed
            \/ ~a.ended /\ (l.owner # a.lock.owner \/ Before(l, a.lock)) /\ KeepsAs(a, c, l)
            \/ /\ ~a.ended /\ l.owner = a.lock.owner /\ ~Before(l, a.lock)
               /\ \/ Before(a.lock, l) /\ EndsAs(a, c, l) /\ c.listed = a.listed
                  \/ /\ ~Before(a.lock, l) /\ l.type = a.lock.type
                     /\ \/ Within(a.lock, l) /\ EndsAs(a, c, l) /\ c.listed = TRUE
                        \/ GrowsOver(a, c, l)
                  \/ /\ ~Before(a.lock, l) /\ l.type # a.lock.type
                     /\ \/ Within(l, a.lock) /\ c = a
                        \/ /\ ~Within(l, a.lock) /\ l.end <= a.lock.end
                           /\ KeepsAs(a, c, InFront(l, a.lock))
                        \/ /\ l.end > a.lock.end /\ a.lock.start <= l.start
                           /\ EndsAs(a, c, Behind(l, a.lock)) /\ c.listed = a.listed
                        \/ /\ l.end > a.lock.end /\ l.start < a.lock.start
                           /\ SplitsAs(a, c, InFront(l, a.lock), Behind(l, a.lock))
  <1>0. a.lock.start \in Nat /\ a.lock.end \in Nat /\ l.start \in Nat /\ l.end \in Nat
    BY PosixLocksAssumption DEF Typed, Locks, Held, Offsets
  <1> DEFINE Is == a = [before |-> a.before, after |-> a.after, lock |-> a.lock,
                        ended |-> a.ended, listed |-> a.listed]
  <1>1. Is /\ a.ended \in BOOLEAN
    BY DEF Typed
  <1>2. CASE a.ended
    BY <1>1, <1>2 DEF InsertStep, Whole, EndsAs
  <1>3. CASE ~a.ended /\ (l.owner # a.lock.owner \/ Before(l, a.lock))
    BY <1>1, <1>3 DEF InsertStep, Whole, KeepsAs
  <1>4. CASE ~a.ended /\ l.owner = a.lock.owner /\ ~Before(l, a.lock)
    <2>1. CASE Before(a.lock, l)
      BY <1>1, <1>4, <2>1 DEF InsertStep, Whole, EndsAs
    <2>2. CASE ~Before(a.lock, l) /\ l.type = a.lock.type
      <3>1. CASE Within(a.lock, l)
        BY <1>1, <1>4, <2>2, <3>1 DEF InsertStep, Whole, EndsAs, Within
      <3>2. CASE ~Within(a.lock, l)
        BY <1>1, <1>4, <2>2, <3>2 DEF InsertStep, Whole, GrowsOver, Within
      <3> QED
        BY <3>1, <3>2
    <2>3. CASE ~Before(a.lock, l) /\ l.type # a.lock.type
      <3>1. CASE Within(l, a.lock)
        BY <1>1, <1>4, <2>3, <3>1 DEF InsertStep, Whole, Within
      <3>2. CASE ~Within(l, a.lock) /\ l.end <= a.lock.end
        BY <1>1, <1>4, <2>3, <3>2 DEF InsertStep, Whole, KeepsAs, Within
      <3>3. CASE ~(l.end <= a.lock.end) /\ a.lock.start <= l.start
        <4>1. ~Within(l, a.lock) /\ l.end > a.lock.end
          BY <1>0, <3>3 DEF Within
        <4>2. EndsAs(a, c, Behind(l, a.lock)) /\ c.listed = a.listed /\ Whole(c)
          BY <1>1, <1>4, <2>3, <3>3, <4>1 DEF InsertStep, Whole, EndsAs, Within
        <4> QED
          BY <1>4, <2>3, <3>3, <4>1, <4>2
      <3>4. CASE ~(l.end <= a.lock.end) /\ ~(a.lock.start <= l.start)
        <4>1. ~Within(l, a.lock) /\ l.end > a.lock.end /\ l.start < a.lock.start
          BY <1>0, <3>4 DEF Within
        <4>2. SplitsAs(a, c, InFront(l, a.lock), Behind(l, a.lock)) /\ Whole(c)
          BY <1>1, <1>4, <2>3, <3>4, <4>1 DEF InsertStep, Whole, SplitsAs, Within
        <4> QED
          BY <1>4, <2>3, <3>4, <4>1, <4>2
      <3> QED
        BY <3>1, <3>2, <3>3, <3>4, <1>4, <2>3
    <2> QED
      BY <2>1, <2>2, <2>3, <1>4
  <1> QED
    BY <1>1, <1>2, <1>3, <1>4

(* What a round does to the two lists.                                      *)
LEMMA Keeping ==
  ASSUME NEW a, NEW c, NEW lock, NEW x \in Held, Typed(a, lock), Ordered(a), ~a.ended,
         KeepsAs(a, c, x), Whole(c), \A y \in ToSet(a.before) : Apart(y, x)
  PROVE  Typed(c, lock) /\ Ordered(c) /\ Kept(c) = Kept(a) \cup {x}
         /\ ToSet(c.before) = ToSet(a.before) \cup {x} /\ ToSet(c.after) = ToSet(a.after)
  <1>1. /\ c.before \in Seq(Held) /\ ToSet(c.before) = ToSet(a.before) \cup {x}
        /\ Sorted(c.before)
    BY Appended DEF Typed, Ordered, KeepsAs
  <1>2. c.after = a.after
    BY DEF KeepsAs
  <1> QED
    BY <1>1, <1>2 DEF Typed, Ordered, KeepsAs, Whole, Kept

(* The same for a lock that goes behind the new one.                        *)
LEMMA Ending ==
  ASSUME NEW a, NEW c, NEW lock, NEW x \in Held, c.listed \in BOOLEAN,
         Typed(a, lock), Ordered(a), EndsAs(a, c, x), Whole(c),
         \A y \in ToSet(a.before) \cup ToSet(a.after) : Apart(y, x)
  PROVE  Typed(c, lock) /\ Ordered(c) /\ Kept(c) = Kept(a) \cup {x}
         /\ ToSet(c.before) = ToSet(a.before) /\ ToSet(c.after) = ToSet(a.after) \cup {x}
  <1>1. /\ c.after \in Seq(Held) /\ ToSet(c.after) = ToSet(a.after) \cup {x}
        /\ Sorted(c.after)
    BY Appended DEF Typed, Ordered, EndsAs
  <1>2. c.before = a.before
    BY DEF EndsAs
  <1> QED
    BY <1>1, <1>2 DEF Typed, Ordered, EndsAs, Whole, Kept

(* The two halves, in what is kept.                                         *)
HasSplit(a, c, x, y) ==
  /\ Kept(c) = Kept(a) \cup {x, y}
  /\ ToSet(c.before) = ToSet(a.before) \cup {x} /\ ToSet(c.after) = {y}

(* The same for a lock that the new one splits.                             *)
LEMMA Splitting ==
  ASSUME NEW a, NEW c, NEW lock, NEW x \in Held, NEW y \in Held,
         Typed(a, lock), Ordered(a), ~a.ended, SplitsAs(a, c, x, y), Whole(c),
         \A z \in ToSet(a.before) : Apart(z, x), \A z \in ToSet(a.before) : Apart(z, y),
         Apart(x, y)
  PROVE  Typed(c, lock) /\ Ordered(c) /\ HasSplit(a, c, x, y)
  <1>1. /\ c.before \in Seq(Held) /\ ToSet(c.before) = ToSet(a.before) \cup {x}
        /\ Sorted(c.before)
    BY Appended DEF Typed, Ordered, SplitsAs
  <1>2. ToSet(a.after) = {} /\ ~a.listed
    BY DEF Ordered
  <1>3. /\ c.after \in Seq(Held) /\ ToSet(c.after) = ToSet(a.after) \cup {y}
        /\ Sorted(c.after)
    BY <1>2, Appended DEF Typed, Ordered, SplitsAs
  <1> QED
    BY <1>1, <1>2, <1>3 DEF Typed, Ordered, SplitsAs, Whole, Kept, HasSplit

(* What a round has to say of the new lock and of what is still to come.    *)
Rest(a, list, lock, k) ==
  Fits(a) /\ Ahead(a, list, k) /\ Grown(a, list, lock, k) /\ Others(a, list, lock, k)
  /\ Own(a, list, lock, k)

(* One more lock has been passed, and those after it are behind it.         *)
LEMMA OneMore ==
  ASSUME NEW list \in Seq(Held), Sorted(list), NEW k \in Nat, k + 1 \in DOMAIN list
  PROVE  /\ Passed(list, k + 1) = Passed(list, k) \cup {list[k + 1]}
         /\ list[k + 1] \in Held
         /\ \A j \in DOMAIN list : j > k + 1 => j > k /\ Apart(list[k + 1], list[j])
         /\ k + 1 > k
         /\ \A j \in DOMAIN list : list[j] \in Held
  <1>1. /\ list[k + 1] \in Held /\ DOMAIN list \subseteq Nat
        /\ \A j \in DOMAIN list : list[j] \in Held
    OBVIOUS
  <1>2. Passed(list, k + 1) = Passed(list, k) \cup {list[k + 1]}
    <2>1. 1 .. k + 1 = 1 .. k \cup {k + 1}
      OBVIOUS
    <2> QED
      BY <2>1 DEF Passed
  <1>3. \A j \in DOMAIN list : j > k + 1 => j > k /\ Apart(list[k + 1], list[j])
    BY <1>1 DEF Sorted
  <1> QED
    BY <1>1, <1>2, <1>3

(* What one lock more adds to what a set says.                              *)
LEMMA SaysMore ==
  ASSUME NEW S, NEW x, NEW o, NEW b, NEW ty
  PROVE  Says(S \cup {x}, o, b, ty)
           <=> \/ Says(S, o, b, ty)
               \/ x.owner = o /\ b \in Covered(x) /\ x.type = ty
  BY DEF Says

(* A lock that stays as it is, in front of the new one or behind it.        *)
LEMMA RestOfSame ==
  ASSUME NEW list \in Seq(Held), Sorted(list), NEW lock \in Locks, NEW k \in Nat,
         k + 1 \in DOMAIN list, NEW a, Round(a, list, lock, k), NEW c, NEW l, l = list[k + 1],
         Kept(c) = Kept(a) \cup {l}, c.lock = a.lock,
         c.listed = a.listed, l.owner = lock.owner => l.end < a.lock.start \/ a.lock.end < l.start
  PROVE  Grown(c, list, lock, k + 1) /\ Others(c, list, lock, k + 1) /\ Own(c, list, lock, k + 1)
  <1>0. /\ Passed(list, k + 1) = Passed(list, k) \cup {l} /\ l \in Held
        /\ \A j \in DOMAIN list : j > k + 1 => j > k /\ Apart(l, list[j])
    BY OneMore
  <1>1. Grown(c, list, lock, k + 1)
    BY <1>0 DEF Round, Grown
  <1>2. Others(c, list, lock, k + 1)
    BY <1>0 DEF Round, Others
  <1>3. Own(c, list, lock, k + 1)
    <2> SUFFICES ASSUME NEW b \in Offsets, NEW ty \in {"R", "W"}
                 PROVE  \/ Says(Kept(c), lock.owner, b, ty)
                        \/ ~c.listed /\ b \in Covered(c.lock) /\ ty = c.lock.type
                        <=>
                        \/ b \in Covered(lock) /\ ty = lock.type
                        \/ b \notin Covered(lock) /\ Says(Passed(list, k + 1), lock.owner, b, ty)
      BY DEF Own
    <2>1. \/ Says(Kept(a), lock.owner, b, ty)
          \/ ~a.listed /\ b \in Covered(a.lock) /\ ty = a.lock.type
          <=>
          \/ b \in Covered(lock) /\ ty = lock.type
          \/ b \notin Covered(lock) /\ Says(Passed(list, k), lock.owner, b, ty)
      BY DEF Round, Own
    <2>2. Says(Kept(c), lock.owner, b, ty)
            <=> \/ Says(Kept(a), lock.owner, b, ty)
                \/ l.owner = lock.owner /\ b \in Covered(l) /\ l.type = ty
      BY SaysMore
    <2>3. Says(Passed(list, k + 1), lock.owner, b, ty)
            <=> \/ Says(Passed(list, k), lock.owner, b, ty)
                \/ l.owner = lock.owner /\ b \in Covered(l) /\ l.type = ty
      <3>1. Passed(list, k + 1) = Passed(list, k) \cup {l}
        BY <1>0
      <3>2. Says(Passed(list, k) \cup {l}, lock.owner, b, ty)
              <=> \/ Says(Passed(list, k), lock.owner, b, ty)
                  \/ l.owner = lock.owner /\ b \in Covered(l) /\ l.type = ty
        BY DEF Says
      <3> QED
        BY <3>1, <3>2
    <2>4. l.owner = lock.owner /\ b \in Covered(l) => b \notin Covered(lock)
      <3>1. /\ a.lock.start <= lock.start /\ lock.end <= a.lock.end
            /\ a.lock \in Locks
        BY DEF Round, Grown, Typed
      <3> QED
        BY <1>0, <3>1, PosixLocksAssumption DEF Covered, Locks, Held, Offsets
    <2> QED
      BY <2>1, <2>2, <2>3, <2>4
  <1> QED
    BY <1>1, <1>2, <1>3

(* The rounds after the loop has ended.                                     *)
LEMMA RoundAfter ==
  ASSUME NEW list \in Seq(Held), Sorted(list), NEW lock \in Locks, NEW k \in Nat,
         k + 1 \in DOMAIN list, NEW a, Round(a, list, lock, k), NEW c, Whole(c),
         a.ended, EndsAs(a, c, list[k + 1]), c.listed = a.listed
  PROVE  Round(c, list, lock, k + 1)
  <1> DEFINE l == list[k + 1]
  <1>0. /\ Passed(list, k + 1) = Passed(list, k) \cup {l} /\ l \in Held
        /\ \A j \in DOMAIN list : j > k + 1 => j > k /\ Apart(l, list[j])
        /\ k + 1 > k
    BY OneMore
  <1> HIDE DEF l
  <1>1. \A y \in ToSet(a.before) \cup ToSet(a.after) : Apart(y, l)
    BY <1>0 DEF Round, Ahead, l
  <1>2. Typed(c, lock) /\ Ordered(c) /\ Kept(c) = Kept(a) \cup {l}
        /\ ToSet(c.before) = ToSet(a.before) /\ ToSet(c.after) = ToSet(a.after) \cup {l}
    <2>1. c.listed \in BOOLEAN
      BY DEF Round, Typed, EndsAs
    <2>2. Typed(a, lock) /\ Ordered(a) /\ l \in Held /\ EndsAs(a, c, l)
      BY <1>0 DEF Round, EndsAs, l
    <2> QED
      BY <1>1, <2>1, <2>2, Ending
  <1>3. c.lock = a.lock /\ c.listed = a.listed /\ c.ended
    BY DEF EndsAs
  <1>4. Apart(a.lock, l)
    BY <1>0 DEF Round, Ahead, l
  <1>5. Fits(c)
    BY <1>2, <1>3, <1>4 DEF Round, Fits
  <1>6. Ahead(c, list, k + 1)
    BY <1>0, <1>2, <1>3 DEF Round, Ahead
  <1>7. Grown(c, list, lock, k + 1) /\ Others(c, list, lock, k + 1) /\ Own(c, list, lock, k + 1)
    <2>1. l.owner = lock.owner => l.end < a.lock.start \/ a.lock.end < l.start
      BY <1>4 DEF Apart, Round, Typed
    <2> QED
      BY <1>2, <1>3, <2>1, RestOfSame DEF l
  <1> QED
    BY <1>2, <1>5, <1>6, <1>7 DEF Round

(* A lock of another owner, or one entirely in front of the new one.        *)
LEMMA RoundPast ==
  ASSUME NEW list \in Seq(Held), Sorted(list), NEW lock \in Locks, NEW k \in Nat,
         k + 1 \in DOMAIN list, NEW a, Round(a, list, lock, k), NEW c, Whole(c),
         ~a.ended, KeepsAs(a, c, list[k + 1]),
         list[k + 1].owner # a.lock.owner \/ Before(list[k + 1], a.lock)
  PROVE  Round(c, list, lock, k + 1)
  <1> DEFINE l == list[k + 1]
  <1>0. /\ Passed(list, k + 1) = Passed(list, k) \cup {l} /\ l \in Held
        /\ \A j \in DOMAIN list : j > k + 1 => j > k /\ Apart(l, list[j])
        /\ k + 1 > k
    BY OneMore
  <1> HIDE DEF l
  <1>1. \A y \in ToSet(a.before) \cup ToSet(a.after) : Apart(y, l)
    BY <1>0 DEF Round, Ahead, l
  <1>2. Typed(c, lock) /\ Ordered(c) /\ Kept(c) = Kept(a) \cup {l}
        /\ ToSet(c.before) = ToSet(a.before) \cup {l} /\ ToSet(c.after) = ToSet(a.after)
    BY <1>0, <1>1, Keeping DEF Round, l
  <1>3. c.lock = a.lock /\ c.listed = a.listed /\ c.ended = a.ended
    BY DEF KeepsAs
  <1>4. Apart(l, a.lock)
    BY <1>0, PosixLocksAssumption
    DEF Round, Typed, Before, Apart, l, Held, Locks, Offsets
  <1>5. Fits(c)
    BY <1>2, <1>3, <1>4 DEF Round, Fits
  <1>6. Ahead(c, list, k + 1)
    BY <1>0, <1>2, <1>3 DEF Round, Ahead
  <1>7. Grown(c, list, lock, k + 1) /\ Others(c, list, lock, k + 1) /\ Own(c, list, lock, k + 1)
    <2>1. l.owner = lock.owner => l.end < a.lock.start \/ a.lock.end < l.start
      BY <1>4 DEF Apart, Round, Typed
    <2> QED
      BY <1>2, <1>3, <2>1, RestOfSame DEF l
  <1> QED
    BY <1>2, <1>5, <1>6, <1>7 DEF Round

(* The first lock behind the new one.                                       *)
LEMMA RoundBehind ==
  ASSUME NEW list \in Seq(Held), Sorted(list), NEW lock \in Locks, NEW k \in Nat,
         k + 1 \in DOMAIN list, NEW a, Round(a, list, lock, k), NEW c, Whole(c),
         ~a.ended, EndsAs(a, c, list[k + 1]), c.listed = a.listed, list[k + 1].owner = lock.owner,
         Before(a.lock, list[k + 1])
  PROVE  Round(c, list, lock, k + 1)
  <1> DEFINE l == list[k + 1]
  <1>0. /\ Passed(list, k + 1) = Passed(list, k) \cup {l} /\ l \in Held
        /\ \A j \in DOMAIN list : j > k + 1 => j > k /\ Apart(l, list[j])
        /\ k + 1 > k /\ \A j \in DOMAIN list : list[j] \in Held
    BY OneMore
  <1> HIDE DEF l
  <1>1. \A y \in ToSet(a.before) \cup ToSet(a.after) : Apart(y, l)
    BY <1>0 DEF Round, Ahead, l
  <1>2. Typed(c, lock) /\ Ordered(c) /\ Kept(c) = Kept(a) \cup {l}
        /\ ToSet(c.before) = ToSet(a.before) /\ ToSet(c.after) = ToSet(a.after) \cup {l}
    <2>1. c.listed \in BOOLEAN
      BY DEF Round, Typed, EndsAs
    <2>2. Typed(a, lock) /\ Ordered(a) /\ l \in Held /\ EndsAs(a, c, l)
      BY <1>0 DEF Round, EndsAs, l
    <2> QED
      BY <1>1, <2>1, <2>2, Ending
  <1>3. c.lock = a.lock /\ c.listed = a.listed /\ c.ended /\ ToSet(a.after) = {}
    BY DEF EndsAs, Round, Ordered
  <1>4. a.lock.end < l.start
    BY <1>0, PosixLocksAssumption DEF Round, Typed, Before, l, Held, Locks, Offsets
  <1>5. Fits(c)
    BY <1>2, <1>3, <1>4 DEF Round, Fits, Apart
  <1>6. Ahead(c, list, k + 1)
    <2> SUFFICES ASSUME NEW j \in DOMAIN list, j > k + 1
                 PROVE  /\ \A x \in ToSet(c.before) \cup ToSet(c.after) : Apart(x, list[j])
                        /\ Apart(a.lock, list[j])
      BY <1>3 DEF Ahead
    <2>1. \A x \in ToSet(c.before) \cup ToSet(c.after) : Apart(x, list[j])
      BY <1>0, <1>2, <1>3 DEF Round, Ahead
    <2>2. Apart(a.lock, list[j])
      <3>1. a.lock.owner = l.owner /\ a.lock.end \in Nat
        BY PosixLocksAssumption DEF Round, Typed, Locks, Offsets, l
      <3>2. Apart(l, list[j]) /\ list[j] \in Held
        BY <1>0
      <3>3. /\ l.start \in Nat /\ l.end \in Nat /\ l.start <= l.end /\ list[j].start \in Nat
        BY <1>0, <3>2, PosixLocksAssumption DEF Held, Locks, Offsets
      <3> QED
        BY <1>4, <3>1, <3>2, <3>3 DEF Apart
    <2> QED
      BY <2>1, <2>2
  <1>7. Grown(c, list, lock, k + 1) /\ Others(c, list, lock, k + 1) /\ Own(c, list, lock, k + 1)
    BY <1>2, <1>3, <1>4, RestOfSame DEF l
  <1> QED
    BY <1>2, <1>5, <1>6, <1>7 DEF Round

(* A lock of its type that covers the new one.                              *)
LEMMA RoundListed ==
  ASSUME NEW list \in Seq(Held), Sorted(list), NEW lock \in Locks, NEW k \in Nat,
         k + 1 \in DOMAIN list, NEW a, Round(a, list, lock, k), NEW c, Whole(c),
         ~a.ended, list[k + 1].owner = lock.owner,
         ~Before(list[k + 1], a.lock), ~Before(a.lock, list[k + 1]),
         list[k + 1].type = lock.type, Within(a.lock, list[k + 1]),
         EndsAs(a, c, list[k + 1]), c.listed = TRUE
  PROVE  Round(c, list, lock, k + 1)
  <1> DEFINE l == list[k + 1]
  <1>0. /\ Passed(list, k + 1) = Passed(list, k) \cup {l} /\ l \in Held
        /\ \A j \in DOMAIN list : j > k + 1 => j > k /\ Apart(l, list[j])
        /\ k + 1 > k /\ \A j \in DOMAIN list : list[j] \in Held
    BY OneMore
  <1> HIDE DEF l
  <1>1. \A y \in ToSet(a.before) \cup ToSet(a.after) : Apart(y, l)
    BY <1>0 DEF Round, Ahead, l
  <1>2. /\ l \in Locks /\ l.owner = lock.owner /\ a.lock \in Locks
        /\ a.lock.owner = lock.owner /\ a.lock.type = lock.type
        /\ ToSet(a.after) = {} /\ ~a.listed
    BY <1>0 DEF Round, Typed, Ordered, Held, l
  <1>3. /\ l.start \in Nat /\ l.end \in Nat /\ l.start <= l.end
        /\ a.lock.start \in Nat /\ a.lock.end \in Nat /\ a.lock.start <= a.lock.end
        /\ lock.start \in Nat /\ lock.end \in Nat /\ lock.start <= lock.end
    BY <1>2, PosixLocksAssumption DEF Locks, Offsets
  <1>4. /\ a.lock.start <= lock.start /\ lock.end <= a.lock.end
        /\ a.lock.end = lock.end \/ a.lock.end < l.start
        /\ a.lock.start = lock.start \/ lock.start <= l.start
        /\ lock.type = "U" => a.lock = lock
    BY <1>0 DEF Round, Grown, l
  <1>5. /\ Typed(c, lock) /\ Ordered(c) /\ Kept(c) = Kept(a) \cup {l}
        /\ ToSet(c.before) = ToSet(a.before) /\ ToSet(c.after) = ToSet(a.after) \cup {l}
        /\ c.lock = a.lock /\ c.listed /\ c.ended
    <2>0. c.listed \in BOOLEAN
      BY DEF EndsAs
    <2>1. c.listed /\ c.ended /\ c.lock = a.lock
      BY DEF EndsAs
    <2>2. Typed(a, lock) /\ Ordered(a) /\ l \in Held /\ EndsAs(a, c, l)
      BY <1>0 DEF Round, EndsAs, l
    <2>3. /\ Typed(c, lock) /\ Ordered(c) /\ Kept(c) = Kept(a) \cup {l}
          /\ ToSet(c.before) = ToSet(a.before) /\ ToSet(c.after) = ToSet(a.after) \cup {l}
      BY <1>1, <2>0, <2>2, Ending
    <2> QED
      BY <2>1, <2>3
  <1>6. Fits(c)
    BY <1>5 DEF Round, Fits
  <1>7. Ahead(c, list, k + 1)
    <2> SUFFICES ASSUME NEW j \in DOMAIN list, j > k + 1
                 PROVE  /\ \A x \in ToSet(c.before) \cup ToSet(c.after) : Apart(x, list[j])
                        /\ Apart(a.lock, list[j])
      BY <1>5 DEF Ahead
    <2>1. \A x \in ToSet(c.before) \cup ToSet(c.after) : Apart(x, list[j])
      BY <1>0, <1>5 DEF Round, Ahead
    <2>2. Apart(a.lock, list[j])
      <3>1. Apart(l, list[j]) /\ list[j] \in Held
        BY <1>0
      <3>2. list[j].start \in Nat /\ a.lock.end <= l.end
        BY <3>1, PosixLocksAssumption DEF Held, Locks, Offsets, Within, l
      <3> QED
        BY <1>2, <1>3, <3>1, <3>2 DEF Apart
    <2> QED
      BY <2>1, <2>2
  <1>8. Grown(c, list, lock, k + 1) /\ Others(c, list, lock, k + 1)
    BY <1>0, <1>2, <1>5 DEF Round, Grown, Others
  <1>9. Own(c, list, lock, k + 1)
    <2> SUFFICES ASSUME NEW b \in Offsets, NEW ty \in {"R", "W"}
                 PROVE  \/ Says(Kept(c), lock.owner, b, ty)
                        \/ ~c.listed /\ b \in Covered(c.lock) /\ ty = c.lock.type
                        <=>
                        \/ b \in Covered(lock) /\ ty = lock.type
                        \/ b \notin Covered(lock) /\ Says(Passed(list, k + 1), lock.owner, b, ty)
      BY DEF Own
    <2>1. \/ Says(Kept(a), lock.owner, b, ty)
          \/ ~a.listed /\ b \in Covered(a.lock) /\ ty = a.lock.type
          <=>
          \/ b \in Covered(lock) /\ ty = lock.type
          \/ b \notin Covered(lock) /\ Says(Passed(list, k), lock.owner, b, ty)
      BY DEF Round, Own
    <2>2. Says(Kept(c), lock.owner, b, ty)
            <=> \/ Says(Kept(a), lock.owner, b, ty)
                \/ l.owner = lock.owner /\ b \in Covered(l) /\ l.type = ty
      BY <1>5 DEF Says
    <2>3. Says(Passed(list, k + 1), lock.owner, b, ty)
            <=> \/ Says(Passed(list, k), lock.owner, b, ty)
                \/ l.owner = lock.owner /\ b \in Covered(l) /\ l.type = ty
      BY <1>0 DEF Says
    <2>4. b \in Nat /\ (b \in Covered(l) <=> l.start <= b /\ b <= l.end)
          /\ (b \in Covered(lock) <=> lock.start <= b /\ b <= lock.end)
          /\ (b \in Covered(a.lock) <=> a.lock.start <= b /\ b <= a.lock.end)
      BY <1>3, PosixLocksAssumption DEF Covered, Offsets
    <2>5. l.start <= a.lock.start /\ a.lock.end <= l.end /\ l.type = lock.type
      BY DEF Within, l
    <2> QED
      BY <1>2, <1>3, <1>4, <1>5, <2>1, <2>2, <2>3, <2>4, <2>5
  <1> QED
    BY <1>5, <1>6, <1>7, <1>8, <1>9 DEF Round

(* A lock of its type that overlaps or touches the new one, which grows.    *)
LEMMA RoundGrown ==
  ASSUME NEW list \in Seq(Held), Sorted(list), NEW lock \in Locks, NEW k \in Nat,
         k + 1 \in DOMAIN list, NEW a, Round(a, list, lock, k), NEW c, Whole(c),
         ~a.ended, list[k + 1].owner = lock.owner,
         ~Before(list[k + 1], a.lock), ~Before(a.lock, list[k + 1]),
         list[k + 1].type = lock.type, GrowsOver(a, c, list[k + 1])
  PROVE  Round(c, list, lock, k + 1)
  <1> DEFINE l == list[k + 1]
  <1>0. /\ Passed(list, k + 1) = Passed(list, k) \cup {l} /\ l \in Held
        /\ \A j \in DOMAIN list : j > k + 1 => j > k /\ Apart(l, list[j])
        /\ k + 1 > k /\ \A j \in DOMAIN list : list[j] \in Held
    BY OneMore
  <1> HIDE DEF l
  <1>1. \A y \in ToSet(a.before) \cup ToSet(a.after) : Apart(y, l)
    BY <1>0 DEF Round, Ahead, l
  <1>2. /\ l \in Locks /\ l.owner = lock.owner /\ a.lock \in Locks
        /\ a.lock.owner = lock.owner /\ a.lock.type = lock.type
        /\ ToSet(a.after) = {} /\ ~a.listed
    BY <1>0 DEF Round, Typed, Ordered, Held, l
  <1>3. /\ l.start \in Nat /\ l.end \in Nat /\ l.start <= l.end
        /\ a.lock.start \in Nat /\ a.lock.end \in Nat /\ a.lock.start <= a.lock.end
        /\ lock.start \in Nat /\ lock.end \in Nat /\ lock.start <= lock.end
    BY <1>2, PosixLocksAssumption DEF Locks, Offsets
  <1>4. /\ a.lock.start <= lock.start /\ lock.end <= a.lock.end
        /\ a.lock.end = lock.end \/ a.lock.end < l.start
        /\ a.lock.start = lock.start \/ lock.start <= l.start
        /\ lock.type = "U" => a.lock = lock
    BY <1>0 DEF Round, Grown, l
  <1>5. /\ c.before = a.before /\ c.after = a.after /\ ~c.ended /\ ~c.listed
        /\ c.ended = a.ended /\ c.listed = a.listed /\ c.lock \in Locks
        /\ c.lock.owner = lock.owner /\ c.lock.type = lock.type
        /\ c.lock.start = (IF l.start < a.lock.start THEN l.start ELSE a.lock.start)
        /\ c.lock.end = (IF a.lock.end < l.end THEN l.end ELSE a.lock.end)
    <2>1. /\ c.before = a.before /\ c.after = a.after /\ ~c.ended /\ ~c.listed
          /\ c.ended = a.ended /\ c.listed = a.listed
      BY <1>2 DEF GrowsOver
    <2>2. c.lock = [a.lock EXCEPT !.start = IF l.start < @ THEN l.start ELSE @,
                                  !.end = IF @ < l.end THEN l.end ELSE @]
      BY DEF GrowsOver, l
    <2> DEFINE first == IF l.start < a.lock.start THEN l.start ELSE a.lock.start
               final == IF a.lock.end < l.end THEN l.end ELSE a.lock.end
    <2>3. first \in Offsets /\ final \in Offsets /\ first <= final
      BY <1>2, <1>3 DEF Locks
    <2>4. c.lock = [a.lock EXCEPT !.start = first, !.end = final]
      BY <2>2
    <2> HIDE DEF first, final
    <2>5. /\ c.lock \in Locks /\ c.lock.owner = lock.owner /\ c.lock.type = lock.type
          /\ c.lock.start = first /\ c.lock.end = final
      BY <1>2, <2>3, <2>4 DEF Locks
    <2> QED
      BY <2>1, <2>5 DEF first, final
  <1>10. a.lock.start <= l.end + 1 /\ l.start <= a.lock.end + 1 /\ l.type = lock.type
    BY <1>2, <1>3 DEF Before, l
  <1>6. Typed(c, lock) /\ Ordered(c)
    BY <1>5 DEF Round, Typed, Ordered, Whole
  <1>7. Fits(c) /\ Ahead(c, list, k + 1)
    <2>1. \A x \in ToSet(c.before) : Apart(x, c.lock)
      <3> SUFFICES ASSUME NEW x \in ToSet(a.before), x.owner = lock.owner
                   PROVE  x.end < c.lock.start
        BY <1>5 DEF Apart
      <3>1. x.end < a.lock.start /\ x.end < l.start
        BY <1>1, <1>2 DEF Round, Fits, Apart
      <3> QED
        BY <1>5, <3>1
    <2>2. Ahead(c, list, k + 1)
      BY <1>0, <1>5 DEF Round, Ahead
    <2> QED
      BY <2>1, <2>2, <1>5 DEF Fits
  <1>8. Grown(c, list, lock, k + 1) /\ Others(c, list, lock, k + 1)
    <2>1. c.lock.start <= lock.start /\ lock.end <= c.lock.end
      BY <1>3, <1>4, <1>5
    <2>2. ASSUME NEW j \in DOMAIN list, j > k + 1, list[j].owner = lock.owner
          PROVE  /\ c.lock.end = lock.end \/ c.lock.end < list[j].start
                 /\ c.lock.start = lock.start \/ lock.start <= list[j].start
      <3>1. l.end < list[j].start
        BY <1>0, <1>2, <2>2 DEF Apart
      <3>2. /\ a.lock.end = lock.end \/ a.lock.end < list[j].start
            /\ a.lock.start = lock.start \/ lock.start <= list[j].start
        BY <1>0, <2>2 DEF Round, Grown
      <3>3. list[j].start \in Nat
        BY <1>0, PosixLocksAssumption DEF Held, Locks, Offsets
      <3> QED
        BY <1>3, <1>4, <1>10, <1>5, <3>1, <3>2, <3>3
    <2>3. lock.type # "U"
      BY <1>0 DEF Held, l
    <2>4. Others(c, list, lock, k + 1)
      BY <1>0, <1>2, <1>5 DEF Round, Others, Kept
    <2> QED
      BY <2>1, <2>2, <2>3, <2>4 DEF Grown
  <1>9. Own(c, list, lock, k + 1)
    <2> SUFFICES ASSUME NEW b \in Offsets, NEW ty \in {"R", "W"}
                 PROVE  \/ Says(Kept(c), lock.owner, b, ty)
                        \/ ~c.listed /\ b \in Covered(c.lock) /\ ty = c.lock.type
                        <=>
                        \/ b \in Covered(lock) /\ ty = lock.type
                        \/ b \notin Covered(lock) /\ Says(Passed(list, k + 1), lock.owner, b, ty)
      BY DEF Own
    <2>1. \/ Says(Kept(a), lock.owner, b, ty)
          \/ ~a.listed /\ b \in Covered(a.lock) /\ ty = a.lock.type
          <=>
          \/ b \in Covered(lock) /\ ty = lock.type
          \/ b \notin Covered(lock) /\ Says(Passed(list, k), lock.owner, b, ty)
      BY DEF Round, Own
    <2>2. Says(Kept(c), lock.owner, b, ty)
            <=> \/ Says(Kept(a), lock.owner, b, ty)
                \/ FALSE
      BY <1>5 DEF Says, Kept
    <2>3. Says(Passed(list, k + 1), lock.owner, b, ty)
            <=> \/ Says(Passed(list, k), lock.owner, b, ty)
                \/ l.owner = lock.owner /\ b \in Covered(l) /\ l.type = ty
      BY <1>0 DEF Says
    <2>4. b \in Nat /\ (b \in Covered(l) <=> l.start <= b /\ b <= l.end)
          /\ (b \in Covered(lock) <=> lock.start <= b /\ b <= lock.end)
          /\ (b \in Covered(a.lock) <=> a.lock.start <= b /\ b <= a.lock.end)
      BY <1>3, PosixLocksAssumption DEF Covered, Offsets
    <2>5. /\ c.lock.start = (IF l.start < a.lock.start THEN l.start ELSE a.lock.start)
          /\ c.lock.end = (IF a.lock.end < l.end THEN l.end ELSE a.lock.end)
          /\ c.lock.start \in Nat /\ c.lock.end \in Nat
      BY <1>3, <1>5
    <2>6. b \in Covered(c.lock) <=> c.lock.start <= b /\ b <= c.lock.end
      BY <2>4, <2>5 DEF Covered
    <2>7. b \in Covered(c.lock) <=> b \in Covered(l) \/ b \in Covered(a.lock)
      <3>1. c.lock.start <= b /\ b <= c.lock.end
              <=> \/ l.start <= b /\ b <= l.end
                  \/ a.lock.start <= b /\ b <= a.lock.end
        <4>1. b \in Nat
          BY <2>4
        <4> QED
          <5>1. CASE l.start < a.lock.start /\ a.lock.end < l.end
            BY <1>3, <1>10, <2>5, <4>1, <5>1
          <5>2. CASE l.start < a.lock.start /\ ~(a.lock.end < l.end)
            BY <1>3, <1>10, <2>5, <4>1, <5>2
          <5>3. CASE ~(l.start < a.lock.start) /\ a.lock.end < l.end
            BY <1>3, <1>10, <2>5, <4>1, <5>3
          <5>4. CASE ~(l.start < a.lock.start) /\ ~(a.lock.end < l.end)
            BY <1>3, <1>10, <2>5, <4>1, <5>4
          <5> QED
            BY <5>1, <5>2, <5>3, <5>4
      <3> QED
        BY <2>4, <2>6, <3>1
    <2>8. b \in Covered(lock) => b \in Covered(a.lock)
      BY <1>3, <1>4, <2>4
    <2> QED
      BY <1>2, <1>5, <1>10, <2>1, <2>2, <2>3, <2>7, <2>8
  <1> QED
    BY <1>6, <1>7, <1>8, <1>9 DEF Round

(* A lock of another type under the new one.                                *)
LEMMA RoundSwallowed ==
  ASSUME NEW list \in Seq(Held), Sorted(list), NEW lock \in Locks, NEW k \in Nat,
         k + 1 \in DOMAIN list, NEW a, Round(a, list, lock, k), NEW c, Whole(c),
         ~a.ended, list[k + 1].owner = lock.owner,
         ~Before(list[k + 1], a.lock), ~Before(a.lock, list[k + 1]),
         list[k + 1].type # lock.type, Within(list[k + 1], a.lock), c = a
  PROVE  Round(c, list, lock, k + 1)
  <1> DEFINE l == list[k + 1]
  <1>0. /\ Passed(list, k + 1) = Passed(list, k) \cup {l} /\ l \in Held
        /\ \A j \in DOMAIN list : j > k + 1 => j > k /\ Apart(l, list[j])
        /\ k + 1 > k /\ \A j \in DOMAIN list : list[j] \in Held
    BY OneMore
  <1> HIDE DEF l
  <1>1. \A y \in ToSet(a.before) \cup ToSet(a.after) : Apart(y, l)
    BY <1>0 DEF Round, Ahead, l
  <1>2. /\ l \in Locks /\ l.owner = lock.owner /\ a.lock \in Locks
        /\ a.lock.owner = lock.owner /\ a.lock.type = lock.type
        /\ ToSet(a.after) = {} /\ ~a.listed
    BY <1>0 DEF Round, Typed, Ordered, Held, l
  <1>3. /\ l.start \in Nat /\ l.end \in Nat /\ l.start <= l.end
        /\ a.lock.start \in Nat /\ a.lock.end \in Nat /\ a.lock.start <= a.lock.end
        /\ lock.start \in Nat /\ lock.end \in Nat /\ lock.start <= lock.end
    BY <1>2, PosixLocksAssumption DEF Locks, Offsets
  <1>4. /\ a.lock.start <= lock.start /\ lock.end <= a.lock.end
        /\ a.lock.end = lock.end \/ a.lock.end < l.start
        /\ a.lock.start = lock.start \/ lock.start <= l.start
        /\ lock.type = "U" => a.lock = lock
    BY <1>0 DEF Round, Grown, l
  <1>5. Typed(c, lock) /\ Ordered(c) /\ Fits(c)
    BY DEF Round
  <1>7. Ahead(c, list, k + 1) /\ Grown(c, list, lock, k + 1) /\ Others(c, list, lock, k + 1)
    BY <1>0, <1>2 DEF Round, Ahead, Grown, Others
  <1>9. Own(c, list, lock, k + 1)
    <2> SUFFICES ASSUME NEW b \in Offsets, NEW ty \in {"R", "W"}
                 PROVE  \/ Says(Kept(c), lock.owner, b, ty)
                        \/ ~c.listed /\ b \in Covered(c.lock) /\ ty = c.lock.type
                        <=>
                        \/ b \in Covered(lock) /\ ty = lock.type
                        \/ b \notin Covered(lock) /\ Says(Passed(list, k + 1), lock.owner, b, ty)
      BY DEF Own
    <2>1. \/ Says(Kept(a), lock.owner, b, ty)
          \/ ~a.listed /\ b \in Covered(a.lock) /\ ty = a.lock.type
          <=>
          \/ b \in Covered(lock) /\ ty = lock.type
          \/ b \notin Covered(lock) /\ Says(Passed(list, k), lock.owner, b, ty)
      BY DEF Round, Own
    <2>2. Says(Kept(c), lock.owner, b, ty)
            <=> \/ Says(Kept(a), lock.owner, b, ty)
                \/ FALSE
      BY <1>5 DEF Says
    <2>3. Says(Passed(list, k + 1), lock.owner, b, ty)
            <=> \/ Says(Passed(list, k), lock.owner, b, ty)
                \/ l.owner = lock.owner /\ b \in Covered(l) /\ l.type = ty
      BY <1>0 DEF Says
    <2>4. b \in Nat /\ (b \in Covered(l) <=> l.start <= b /\ b <= l.end)
          /\ (b \in Covered(lock) <=> lock.start <= b /\ b <= lock.end)
          /\ (b \in Covered(a.lock) <=> a.lock.start <= b /\ b <= a.lock.end)
      BY <1>3, PosixLocksAssumption DEF Covered, Offsets
    <2>5. a.lock.start <= l.start /\ l.end <= a.lock.end
      BY DEF Within, l
    <2>6. b \in Covered(l) => b \in Covered(lock)
      BY <1>3, <1>4, <2>4, <2>5
    <2> QED
      BY <1>2, <2>1, <2>2, <2>3, <2>6
  <1> QED
    BY <1>5, <1>7, <1>9 DEF Round

(* A lock of another type that the new one cuts at its end.                 *)
LEMMA RoundFront ==
  ASSUME NEW list \in Seq(Held), Sorted(list), NEW lock \in Locks, NEW k \in Nat,
         k + 1 \in DOMAIN list, NEW a, Round(a, list, lock, k), NEW c, Whole(c),
         ~a.ended, list[k + 1].owner = lock.owner,
         ~Before(list[k + 1], a.lock), ~Before(a.lock, list[k + 1]),
         list[k + 1].type # lock.type, ~Within(list[k + 1], a.lock),
         list[k + 1].end <= a.lock.end,
         KeepsAs(a, c, InFront(list[k + 1], a.lock))
  PROVE  Round(c, list, lock, k + 1)
  <1> DEFINE l == list[k + 1]
  <1>0. /\ Passed(list, k + 1) = Passed(list, k) \cup {l} /\ l \in Held
        /\ \A j \in DOMAIN list : j > k + 1 => j > k /\ Apart(l, list[j])
        /\ k + 1 > k /\ \A j \in DOMAIN list : list[j] \in Held
    BY OneMore
  <1> HIDE DEF l
  <1>1. \A y \in ToSet(a.before) \cup ToSet(a.after) : Apart(y, l)
    BY <1>0 DEF Round, Ahead, l
  <1>2. /\ l \in Locks /\ l.owner = lock.owner /\ a.lock \in Locks
        /\ a.lock.owner = lock.owner /\ a.lock.type = lock.type
        /\ ToSet(a.after) = {} /\ ~a.listed
    BY <1>0 DEF Round, Typed, Ordered, Held, l
  <1>3. /\ l.start \in Nat /\ l.end \in Nat /\ l.start <= l.end
        /\ a.lock.start \in Nat /\ a.lock.end \in Nat /\ a.lock.start <= a.lock.end
        /\ lock.start \in Nat /\ lock.end \in Nat /\ lock.start <= lock.end
    BY <1>2, PosixLocksAssumption DEF Locks, Offsets
  <1>4. /\ a.lock.start <= lock.start /\ lock.end <= a.lock.end
        /\ a.lock.end = lock.end \/ a.lock.end < l.start
        /\ a.lock.start = lock.start \/ lock.start <= l.start
        /\ lock.type = "U" => a.lock = lock
    BY <1>0 DEF Round, Grown, l
  <1> DEFINE x == InFront(l, a.lock)
  <1>5. l.start < a.lock.start /\ l.end <= a.lock.end
        /\ a.lock.start <= l.end
    BY <1>2, <1>3 DEF Within, Before, l
  <1>6. /\ x \in Held /\ x.owner = lock.owner /\ x.type = l.type
        /\ x.start = l.start /\ x.end = a.lock.start - 1 /\ x.start <= x.end
    <2>1. /\ l.start < a.lock.start
          /\ a.lock.start - 1 \in Offsets /\ l.start <= a.lock.start - 1
      BY <1>2, <1>3, <1>5, PosixLocksAssumption DEF Locks, Offsets
    <2>2. x = [l EXCEPT !.end = a.lock.start - 1]
      BY DEF InFront, x
    <2> HIDE DEF x
    <2> QED
      BY <1>0, <1>2, <2>1, <2>2 DEF Held, Locks
  <1>8. KeepsAs(a, c, x)
    BY DEF l
  <1> HIDE DEF x
  <1>10. \A z \in ToSet(a.before) : Apart(z, x)
    BY <1>1, <1>2, <1>6 DEF Apart
  <1>11. Typed(c, lock) /\ Ordered(c) /\ Kept(c) = Kept(a) \cup {x}
         /\ ToSet(c.before) = ToSet(a.before) \cup {x} /\ ToSet(c.after) = ToSet(a.after)
    <2>1. Typed(a, lock) /\ Ordered(a) /\ x \in Held
      BY <1>6 DEF Round
    <2> QED
      BY <1>8, <1>10, <2>1, Keeping
  <1>12. c.lock = a.lock /\ c.listed = a.listed /\ c.ended = a.ended
    BY <1>8 DEF KeepsAs
  <1>13. Fits(c)
    <2>1. Apart(x, a.lock)
      BY <1>3, <1>6 DEF Apart
    <2> QED
      BY <1>11, <1>12, <2>1 DEF Round, Fits
  <1>14. Ahead(c, list, k + 1)
    <2> SUFFICES ASSUME NEW j \in DOMAIN list, j > k + 1
                 PROVE  \A z \in ToSet(c.before) \cup ToSet(c.after) : Apart(z, list[j])
      BY <1>12 DEF Ahead
    <2>1. Apart(x, list[j])
      <3>1. Apart(l, list[j]) /\ list[j] \in Held
        BY <1>0
      <3>2. list[j].start \in Nat
        BY <3>1, PosixLocksAssumption DEF Held, Locks, Offsets
      <3> QED
        BY <1>2, <1>3, <1>5, <1>6, <3>1, <3>2 DEF Apart
    <2>2. \A z \in ToSet(a.before) \cup ToSet(a.after) : Apart(z, list[j])
      BY <1>0 DEF Round, Ahead
    <2> QED
      BY <1>11, <2>1, <2>2
  <1>15. Grown(c, list, lock, k + 1) /\ Others(c, list, lock, k + 1)
    BY <1>0, <1>2, <1>6, <1>11, <1>12 DEF Round, Grown, Others
  <1>9. Own(c, list, lock, k + 1)
    <2> SUFFICES ASSUME NEW b \in Offsets, NEW ty \in {"R", "W"}
                 PROVE  \/ Says(Kept(c), lock.owner, b, ty)
                        \/ ~c.listed /\ b \in Covered(c.lock) /\ ty = c.lock.type
                        <=>
                        \/ b \in Covered(lock) /\ ty = lock.type
                        \/ b \notin Covered(lock) /\ Says(Passed(list, k + 1), lock.owner, b, ty)
      BY DEF Own
    <2>1. \/ Says(Kept(a), lock.owner, b, ty)
          \/ ~a.listed /\ b \in Covered(a.lock) /\ ty = a.lock.type
          <=>
          \/ b \in Covered(lock) /\ ty = lock.type
          \/ b \notin Covered(lock) /\ Says(Passed(list, k), lock.owner, b, ty)
      BY DEF Round, Own
    <2>2. Says(Kept(c), lock.owner, b, ty)
            <=> \/ Says(Kept(a), lock.owner, b, ty)
                \/ x.owner = lock.owner /\ b \in Covered(x) /\ x.type = ty
      BY <1>11 DEF Says
    <2>3. Says(Passed(list, k + 1), lock.owner, b, ty)
            <=> \/ Says(Passed(list, k), lock.owner, b, ty)
                \/ l.owner = lock.owner /\ b \in Covered(l) /\ l.type = ty
      BY <1>0 DEF Says
    <2>4. b \in Nat /\ (b \in Covered(l) <=> l.start <= b /\ b <= l.end)
          /\ (b \in Covered(lock) <=> lock.start <= b /\ b <= lock.end)
          /\ (b \in Covered(a.lock) <=> a.lock.start <= b /\ b <= a.lock.end)
      BY <1>3, PosixLocksAssumption DEF Covered, Offsets
    <2>5. b \in Covered(x) <=> l.start <= b /\ b < a.lock.start
      BY <1>3, <1>6, <2>4 DEF Covered
    <2>6. b \in Covered(l) <=> b \in Covered(x) \/ (b \in Covered(l) /\ b \in Covered(lock))
      BY <1>3, <1>4, <1>5, <2>4, <2>5
    <2>7. b \in Covered(x) => b \notin Covered(lock)
      BY <1>3, <1>4, <2>4, <2>5
    <2> QED
      BY <1>2, <1>6, <1>12, <2>1, <2>2, <2>3, <2>6, <2>7
  <1> QED
    BY <1>9, <1>11, <1>13, <1>14, <1>15 DEF Round

(* A lock of another type that the new one cuts at its start.               *)
LEMMA RoundCut ==
  ASSUME NEW list \in Seq(Held), Sorted(list), NEW lock \in Locks, NEW k \in Nat,
         k + 1 \in DOMAIN list, NEW a, Round(a, list, lock, k), NEW c, Whole(c),
         ~a.ended, list[k + 1].owner = lock.owner,
         ~Before(list[k + 1], a.lock), ~Before(a.lock, list[k + 1]),
         list[k + 1].type # lock.type, list[k + 1].end > a.lock.end,
         a.lock.start <= list[k + 1].start,
         EndsAs(a, c, Behind(list[k + 1], a.lock)), c.listed = a.listed
  PROVE  Round(c, list, lock, k + 1)
  <1> DEFINE l == list[k + 1]
  <1>0. /\ Passed(list, k + 1) = Passed(list, k) \cup {l} /\ l \in Held
        /\ \A j \in DOMAIN list : j > k + 1 => j > k /\ Apart(l, list[j])
        /\ k + 1 > k /\ \A j \in DOMAIN list : list[j] \in Held
    BY OneMore
  <1> HIDE DEF l
  <1>1. \A y \in ToSet(a.before) \cup ToSet(a.after) : Apart(y, l)
    BY <1>0 DEF Round, Ahead, l
  <1>2. /\ l \in Locks /\ l.owner = lock.owner /\ a.lock \in Locks
        /\ a.lock.owner = lock.owner /\ a.lock.type = lock.type
        /\ ToSet(a.after) = {} /\ ~a.listed
    BY <1>0 DEF Round, Typed, Ordered, Held, l
  <1>3. /\ l.start \in Nat /\ l.end \in Nat /\ l.start <= l.end
        /\ a.lock.start \in Nat /\ a.lock.end \in Nat /\ a.lock.start <= a.lock.end
        /\ lock.start \in Nat /\ lock.end \in Nat /\ lock.start <= lock.end
    BY <1>2, PosixLocksAssumption DEF Locks, Offsets
  <1>4. /\ a.lock.start <= lock.start /\ lock.end <= a.lock.end
        /\ a.lock.end = lock.end \/ a.lock.end < l.start
        /\ a.lock.start = lock.start \/ lock.start <= l.start
        /\ lock.type = "U" => a.lock = lock
    BY <1>0 DEF Round, Grown, l
  <1> DEFINE y == Behind(l, a.lock)
  <1>5. a.lock.end < l.end /\ a.lock.start <= l.start /\ l.start <= a.lock.end
    BY <1>2, <1>3 DEF Within, Before, l
  <1>7. /\ y \in Held /\ y.owner = lock.owner /\ y.type = l.type
        /\ y.start = a.lock.end + 1 /\ y.end = l.end /\ y.start <= y.end
    <2>1. a.lock.end + 1 \in Offsets /\ a.lock.end + 1 <= l.end
      BY <1>2, <1>3, <1>5, PosixLocksAssumption DEF Locks, Offsets
    <2>2. y = [l EXCEPT !.start = a.lock.end + 1]
      BY DEF Behind, y
    <2> HIDE DEF y
    <2> QED
      BY <1>0, <1>2, <2>1, <2>2 DEF Held, Locks
  <1>8. EndsAs(a, c, y)
    BY DEF l
  <1> HIDE DEF y
  <1>10. \A z \in ToSet(a.before) \cup ToSet(a.after) : Apart(z, y)
    <2> SUFFICES ASSUME NEW z \in ToSet(a.before), z.owner = lock.owner
                 PROVE  z.end < y.start
      BY <1>2, <1>7 DEF Apart
    <2>1. z.end < a.lock.start
      BY <1>2 DEF Round, Fits, Apart
    <2>2. z.end \in Nat
      BY PosixLocksAssumption DEF Round, Typed, ToSet, Held, Locks, Offsets
    <2> QED
      BY <1>3, <1>7, <2>1, <2>2
  <1>11. Typed(c, lock) /\ Ordered(c) /\ Kept(c) = Kept(a) \cup {y}
         /\ ToSet(c.before) = ToSet(a.before) /\ ToSet(c.after) = ToSet(a.after) \cup {y}
    <2>0. c.listed \in BOOLEAN
      BY DEF Round, Typed
    <2>1. Typed(a, lock) /\ Ordered(a) /\ y \in Held
      BY <1>7 DEF Round
    <2> QED
      BY <1>8, <1>10, <2>0, <2>1, Ending
  <1>12. c.lock = a.lock /\ c.listed = a.listed /\ c.ended
    BY <1>8 DEF EndsAs
  <1>13. Fits(c)
    <2>1. Apart(a.lock, y)
      BY <1>3, <1>7 DEF Apart
    <2> QED
      BY <1>2, <1>11, <1>12, <2>1 DEF Round, Fits
  <1>14. Ahead(c, list, k + 1)
    <2> SUFFICES ASSUME NEW j \in DOMAIN list, j > k + 1
                 PROVE  /\ \A z \in ToSet(c.before) \cup ToSet(c.after) : Apart(z, list[j])
                        /\ Apart(a.lock, list[j])
      BY <1>12 DEF Ahead
    <2>1. Apart(y, list[j]) /\ Apart(a.lock, list[j])
      <3>1. Apart(l, list[j]) /\ list[j] \in Held
        BY <1>0
      <3>2. list[j].start \in Nat
        BY <3>1, PosixLocksAssumption DEF Held, Locks, Offsets
      <3> QED
        BY <1>2, <1>3, <1>5, <1>7, <3>1, <3>2 DEF Apart
    <2>2. \A z \in ToSet(a.before) \cup ToSet(a.after) : Apart(z, list[j])
      BY <1>0 DEF Round, Ahead
    <2> QED
      BY <1>11, <2>1, <2>2
  <1>15. Grown(c, list, lock, k + 1) /\ Others(c, list, lock, k + 1)
    BY <1>0, <1>2, <1>7, <1>11, <1>12 DEF Round, Grown, Others
  <1>9. Own(c, list, lock, k + 1)
    <2> SUFFICES ASSUME NEW b \in Offsets, NEW ty \in {"R", "W"}
                 PROVE  \/ Says(Kept(c), lock.owner, b, ty)
                        \/ ~c.listed /\ b \in Covered(c.lock) /\ ty = c.lock.type
                        <=>
                        \/ b \in Covered(lock) /\ ty = lock.type
                        \/ b \notin Covered(lock) /\ Says(Passed(list, k + 1), lock.owner, b, ty)
      BY DEF Own
    <2>1. \/ Says(Kept(a), lock.owner, b, ty)
          \/ ~a.listed /\ b \in Covered(a.lock) /\ ty = a.lock.type
          <=>
          \/ b \in Covered(lock) /\ ty = lock.type
          \/ b \notin Covered(lock) /\ Says(Passed(list, k), lock.owner, b, ty)
      BY DEF Round, Own
    <2>2. Says(Kept(c), lock.owner, b, ty)
            <=> \/ Says(Kept(a), lock.owner, b, ty)
                \/ y.owner = lock.owner /\ b \in Covered(y) /\ y.type = ty
      BY <1>11 DEF Says
    <2>3. Says(Passed(list, k + 1), lock.owner, b, ty)
            <=> \/ Says(Passed(list, k), lock.owner, b, ty)
                \/ l.owner = lock.owner /\ b \in Covered(l) /\ l.type = ty
      BY <1>0 DEF Says
    <2>4. b \in Nat /\ (b \in Covered(l) <=> l.start <= b /\ b <= l.end)
          /\ (b \in Covered(lock) <=> lock.start <= b /\ b <= lock.end)
          /\ (b \in Covered(a.lock) <=> a.lock.start <= b /\ b <= a.lock.end)
      BY <1>3, PosixLocksAssumption DEF Covered, Offsets
    <2>5. b \in Covered(y) <=> a.lock.end < b /\ b <= l.end
      BY <1>3, <1>7, <2>4 DEF Covered
    <2>6. b \in Covered(l) <=> b \in Covered(y) \/ (b \in Covered(l) /\ b \in Covered(lock))
      BY <1>3, <1>4, <1>5, <2>4, <2>5
    <2>7. b \in Covered(y) => b \notin Covered(lock)
      BY <1>3, <1>4, <2>4, <2>5
    <2> QED
      BY <1>2, <1>7, <1>12, <2>1, <2>2, <2>3, <2>6, <2>7
  <1> QED
    BY <1>9, <1>11, <1>13, <1>14, <1>15 DEF Round

(* A lock of another type that the new one splits.                          *)
LEMMA RoundSplit ==
  ASSUME NEW list \in Seq(Held), Sorted(list), NEW lock \in Locks, NEW k \in Nat,
         k + 1 \in DOMAIN list, NEW a, Round(a, list, lock, k), NEW c, Whole(c),
         ~a.ended, list[k + 1].owner = lock.owner,
         ~Before(list[k + 1], a.lock), ~Before(a.lock, list[k + 1]),
         list[k + 1].type # lock.type, list[k + 1].end > a.lock.end,
         list[k + 1].start < a.lock.start,
         SplitsAs(a, c, InFront(list[k + 1], a.lock), Behind(list[k + 1], a.lock))
  PROVE  Round(c, list, lock, k + 1)
  <1> DEFINE l == list[k + 1]
  <1>0. /\ Passed(list, k + 1) = Passed(list, k) \cup {l} /\ l \in Held
        /\ \A j \in DOMAIN list : j > k + 1 => j > k /\ Apart(l, list[j])
        /\ k + 1 > k /\ \A j \in DOMAIN list : list[j] \in Held
    BY OneMore
  <1> HIDE DEF l
  <1>1. \A y \in ToSet(a.before) \cup ToSet(a.after) : Apart(y, l)
    BY <1>0 DEF Round, Ahead, l
  <1>2. /\ l \in Locks /\ l.owner = lock.owner /\ a.lock \in Locks
        /\ a.lock.owner = lock.owner /\ a.lock.type = lock.type
        /\ ToSet(a.after) = {} /\ ~a.listed
    BY <1>0 DEF Round, Typed, Ordered, Held, l
  <1>3. /\ l.start \in Nat /\ l.end \in Nat /\ l.start <= l.end
        /\ a.lock.start \in Nat /\ a.lock.end \in Nat /\ a.lock.start <= a.lock.end
        /\ lock.start \in Nat /\ lock.end \in Nat /\ lock.start <= lock.end
    BY <1>2, PosixLocksAssumption DEF Locks, Offsets
  <1>4. /\ a.lock.start <= lock.start /\ lock.end <= a.lock.end
        /\ a.lock.end = lock.end \/ a.lock.end < l.start
        /\ a.lock.start = lock.start \/ lock.start <= l.start
        /\ lock.type = "U" => a.lock = lock
    BY <1>0 DEF Round, Grown, l
  <1> DEFINE x == InFront(l, a.lock)
             y == Behind(l, a.lock)
  <1>5. a.lock.end < l.end /\ l.start < a.lock.start /\ a.lock.start <= l.end
    BY <1>2, <1>3 DEF l
  <1>6. /\ x \in Held /\ x.owner = lock.owner /\ x.type = l.type
        /\ x.start = l.start /\ x.end = a.lock.start - 1 /\ x.start <= x.end
    <2>1. /\ l.start < a.lock.start
          /\ a.lock.start - 1 \in Offsets /\ l.start <= a.lock.start - 1
      BY <1>2, <1>3, <1>5, PosixLocksAssumption DEF Locks, Offsets
    <2>2. x = [l EXCEPT !.end = a.lock.start - 1]
      BY DEF InFront, x
    <2> HIDE DEF x
    <2> QED
      BY <1>0, <1>2, <2>1, <2>2 DEF Held, Locks
  <1>7. /\ y \in Held /\ y.owner = lock.owner /\ y.type = l.type
        /\ y.start = a.lock.end + 1 /\ y.end = l.end /\ y.start <= y.end
    <2>1. a.lock.end + 1 \in Offsets /\ a.lock.end + 1 <= l.end
      BY <1>2, <1>3, <1>5, PosixLocksAssumption DEF Locks, Offsets
    <2>2. y = [l EXCEPT !.start = a.lock.end + 1]
      BY DEF Behind, y
    <2> HIDE DEF y
    <2> QED
      BY <1>0, <1>2, <2>1, <2>2 DEF Held, Locks
  <1>8. SplitsAs(a, c, x, y)
    BY DEF l
  <1> HIDE DEF x, y
  <1>10. /\ \A z \in ToSet(a.before) : Apart(z, x) /\ Apart(z, y)
         /\ Apart(x, y)
    <2>1. Apart(x, y)
      BY <1>3, <1>6, <1>7 DEF Apart
    <2>2. ASSUME NEW z \in ToSet(a.before), z.owner = lock.owner
          PROVE  z.end < x.start /\ z.end < y.start
      <3>1. z.end < l.start
        BY <1>1, <1>2, <2>2 DEF Apart
      <3>2. z.end \in Nat
        BY PosixLocksAssumption DEF Round, Typed, ToSet, Held, Locks, Offsets
      <3>3. x.start = l.start /\ y.start = a.lock.end + 1
        BY <1>6, <1>7
      <3> QED
        BY <1>3, <1>5, <3>1, <3>2, <3>3
    <2> QED
      BY <1>6, <1>7, <2>1, <2>2 DEF Apart
  <1>11. Typed(c, lock) /\ Ordered(c) /\ Kept(c) = Kept(a) \cup {x, y}
         /\ ToSet(c.before) = ToSet(a.before) \cup {x} /\ ToSet(c.after) = {y}
    <2>1. Typed(a, lock) /\ Ordered(a) /\ x \in Held /\ y \in Held
      BY <1>6, <1>7 DEF Round
    <2>2. \A z \in ToSet(a.before) : Apart(z, x)
      BY <1>10
    <2>3. \A z \in ToSet(a.before) : Apart(z, y)
      BY <1>10
    <2>4. Apart(x, y)
      BY <1>10
    <2>5. ~a.ended /\ Whole(c)
      OBVIOUS
    <2>6. Typed(c, lock) /\ Ordered(c) /\ HasSplit(a, c, x, y)
      BY <1>8, <2>1, <2>2, <2>3, <2>4, <2>5, Splitting
    <2> QED
      BY <2>6 DEF HasSplit
  <1>12. c.lock = a.lock /\ c.listed = a.listed /\ c.ended
    BY <1>8 DEF SplitsAs
  <1>13. Fits(c)
    <2>1. Apart(x, a.lock) /\ Apart(a.lock, y)
      BY <1>3, <1>6, <1>7 DEF Apart
    <2> QED
      BY <1>2, <1>11, <1>12, <2>1 DEF Round, Fits
  <1>14. Ahead(c, list, k + 1)
    <2> SUFFICES ASSUME NEW j \in DOMAIN list, j > k + 1
                 PROVE  /\ \A z \in ToSet(c.before) \cup ToSet(c.after) : Apart(z, list[j])
                        /\ Apart(a.lock, list[j])
      BY <1>12 DEF Ahead
    <2>1. Apart(x, list[j]) /\ Apart(y, list[j]) /\ Apart(a.lock, list[j])
      <3>1. Apart(l, list[j]) /\ list[j] \in Held
        BY <1>0
      <3>2. list[j].start \in Nat
        BY <3>1, PosixLocksAssumption DEF Held, Locks, Offsets
      <3> QED
        BY <1>2, <1>3, <1>5, <1>6, <1>7, <3>1, <3>2 DEF Apart
    <2>2. \A z \in ToSet(a.before) \cup ToSet(a.after) : Apart(z, list[j])
      BY <1>0 DEF Round, Ahead
    <2> QED
      BY <1>11, <2>1, <2>2
  <1>15. Grown(c, list, lock, k + 1) /\ Others(c, list, lock, k + 1)
    BY <1>0, <1>2, <1>6, <1>7, <1>11, <1>12 DEF Round, Grown, Others
  <1>9. Own(c, list, lock, k + 1)
    <2> SUFFICES ASSUME NEW b \in Offsets, NEW ty \in {"R", "W"}
                 PROVE  \/ Says(Kept(c), lock.owner, b, ty)
                        \/ ~c.listed /\ b \in Covered(c.lock) /\ ty = c.lock.type
                        <=>
                        \/ b \in Covered(lock) /\ ty = lock.type
                        \/ b \notin Covered(lock) /\ Says(Passed(list, k + 1), lock.owner, b, ty)
      BY DEF Own
    <2>1. \/ Says(Kept(a), lock.owner, b, ty)
          \/ ~a.listed /\ b \in Covered(a.lock) /\ ty = a.lock.type
          <=>
          \/ b \in Covered(lock) /\ ty = lock.type
          \/ b \notin Covered(lock) /\ Says(Passed(list, k), lock.owner, b, ty)
      BY DEF Round, Own
    <2>2. Says(Kept(c), lock.owner, b, ty)
            <=> \/ Says(Kept(a), lock.owner, b, ty)
                \/ x.owner = lock.owner /\ b \in Covered(x) /\ x.type = ty
                \/ y.owner = lock.owner /\ b \in Covered(y) /\ y.type = ty
      BY <1>11 DEF Says
    <2>3. Says(Passed(list, k + 1), lock.owner, b, ty)
            <=> \/ Says(Passed(list, k), lock.owner, b, ty)
                \/ l.owner = lock.owner /\ b \in Covered(l) /\ l.type = ty
      BY <1>0 DEF Says
    <2>4. b \in Nat /\ (b \in Covered(l) <=> l.start <= b /\ b <= l.end)
          /\ (b \in Covered(lock) <=> lock.start <= b /\ b <= lock.end)
          /\ (b \in Covered(a.lock) <=> a.lock.start <= b /\ b <= a.lock.end)
      BY <1>3, PosixLocksAssumption DEF Covered, Offsets
    <2>5. /\ b \in Covered(x) <=> l.start <= b /\ b < a.lock.start
          /\ b \in Covered(y) <=> a.lock.end < b /\ b <= l.end
      BY <1>3, <1>6, <1>7, <2>4 DEF Covered
    <2>6. b \in Covered(l)
            <=> b \in Covered(x) \/ b \in Covered(y) \/ (b \in Covered(l) /\ b \in Covered(lock))
      <3>1. a.lock.start = lock.start /\ a.lock.end = lock.end
        BY <1>3, <1>4, <1>5
      <3> QED
        BY <1>3, <1>5, <2>4, <2>5, <3>1
    <2>7. b \in Covered(x) \/ b \in Covered(y) => b \notin Covered(lock)
      BY <1>3, <1>4, <2>4, <2>5
    <2> QED
      BY <1>2, <1>6, <1>7, <1>12, <2>1, <2>2, <2>3, <2>6, <2>7
  <1> QED
    BY <1>9, <1>11, <1>13, <1>14, <1>15 DEF Round

(* Whichever way it goes, a round keeps all this.                           *)
LEMMA RoundHolds ==
  ASSUME NEW list \in Seq(Held), Sorted(list), NEW lock \in Locks, NEW k \in Nat,
         k + 1 \in DOMAIN list, NEW a, Round(a, list, lock, k)
  PROVE  Round(InsertStep(a, list[k + 1]), list, lock, k + 1)
  <1> DEFINE l == list[k + 1]
             c == InsertStep(a, l)
  <1>1. l \in Held
    BY OneMore
  <1>2. Typed(a, lock) /\ a.lock.owner = lock.owner /\ a.lock.type = lock.type
    BY DEF Round, Typed
  <1> HIDE DEF c
  <1>3. Whole(c)
    BY <1>1, <1>2, Ways DEF c
  <1> SUFFICES Round(c, list, lock, k + 1)
    BY DEF c
  <1>4. CASE a.ended /\ EndsAs(a, c, l) /\ c.listed = a.listed
    BY <1>3, <1>4, RoundAfter
  <1>5. CASE ~a.ended /\ (l.owner # a.lock.owner \/ Before(l, a.lock)) /\ KeepsAs(a, c, l)
    BY <1>3, <1>5, RoundPast
  <1>6. ASSUME ~a.ended, l.owner = lock.owner, ~Before(l, a.lock),
               Before(a.lock, l), EndsAs(a, c, l), c.listed = a.listed
        PROVE  Round(c, list, lock, k + 1)
    BY <1>3, <1>6, RoundBehind
  <1>7. ASSUME ~a.ended, l.owner = lock.owner, ~Before(l, a.lock),
               ~Before(a.lock, l), l.type = lock.type
        PROVE  /\ Within(a.lock, l) /\ EndsAs(a, c, l) /\ c.listed = TRUE
                    => Round(c, list, lock, k + 1)
               /\ GrowsOver(a, c, l) => Round(c, list, lock, k + 1)
    BY <1>3, <1>7, RoundListed, RoundGrown
  <1>8. ASSUME ~a.ended, l.owner = lock.owner, ~Before(l, a.lock),
               ~Before(a.lock, l), l.type # lock.type
        PROVE  /\ Within(l, a.lock) /\ c = a => Round(c, list, lock, k + 1)
               /\ ~Within(l, a.lock) /\ l.end <= a.lock.end /\ KeepsAs(a, c, InFront(l, a.lock))
                    => Round(c, list, lock, k + 1)
    BY <1>3, <1>8, RoundSwallowed, RoundFront
  <1>9. ASSUME ~a.ended, l.owner = lock.owner, ~Before(l, a.lock),
               ~Before(a.lock, l), l.type # lock.type, l.end > a.lock.end
        PROVE  /\ a.lock.start <= l.start /\ EndsAs(a, c, Behind(l, a.lock))
                    /\ c.listed = a.listed => Round(c, list, lock, k + 1)
               /\ l.start < a.lock.start
                    /\ SplitsAs(a, c, InFront(l, a.lock), Behind(l, a.lock))
                    => Round(c, list, lock, k + 1)
    BY <1>3, <1>9, RoundCut, RoundSplit
  <1> HIDE DEF l
  <1> QED
    BY <1>1, <1>2, <1>4, <1>5, <1>6, <1>7, <1>8, <1>9, Ways DEF c

-----------------------------------------------------------------------------
(* All rounds.                                                              *)

(* What the loop starts with.                                               *)
Start(lock) == [before |-> <<>>, after |-> <<>>, lock |-> lock,
                ended |-> FALSE, listed |-> FALSE]

(* Before the first round.                                                  *)
LEMMA RoundZero ==
  ASSUME NEW list \in Seq(Held), NEW lock \in Locks
  PROVE  Round(Start(lock), list, lock, 0)
  <1>1. ToSet(<<>>) = {} /\ <<>> \in Seq(Held) /\ DOMAIN <<>> = {}
    BY DEF ToSet
  <1> DEFINE a == Start(lock)
  <1>2. a.before = <<>> /\ a.after = <<>> /\ a.lock = lock /\ a.ended = FALSE
        /\ a.listed = FALSE
    BY DEF Start
  <1>3. a = [before |-> a.before, after |-> a.after, lock |-> a.lock,
             ended |-> a.ended, listed |-> a.listed]
    BY DEF Start
  <1> HIDE DEF a
  <1>4. Passed(list, 0) = {}
    BY DEF Passed
  <1>5. Typed(a, lock)
    BY <1>1, <1>2, <1>3 DEF Typed
  <1>6. Ordered(a) /\ Fits(a) /\ Ahead(a, list, 0) /\ Kept(a) = {}
    BY <1>1, <1>2 DEF Ordered, Fits, Ahead, Sorted, Kept
  <1>7. Grown(a, list, lock, 0)
    BY <1>2, PosixLocksAssumption DEF Grown, Locks, Offsets
  <1>8. Others(a, list, lock, 0)
    BY <1>4, <1>6 DEF Others
  <1>9. Own(a, list, lock, 0)
    BY <1>2, <1>4, <1>6 DEF Own, Says
  <1> QED
    BY <1>5, <1>6, <1>7, <1>8, <1>9 DEF Round, a

(* f holds what the loop has after each of the first m rounds.              *)
Rounds(f, list, lock, m) ==
  f = [i \in 0 .. m |-> IF i = 0 THEN Start(lock) ELSE InsertStep(f[i - 1], list[i])]

(* There is such a function for any number of rounds.                       *)
LEMMA RoundsExist ==
  ASSUME NEW list, NEW lock, NEW n \in Nat
  PROVE  \E f : Rounds(f, list, lock, n)
  <1> DEFINE E(f, m) == f = [i \in 0 .. m |-> IF i = 0 THEN Start(lock)
                                              ELSE InsertStep(f[i - 1], list[i])]
             S == {m \in Nat : \E f : E(f, m)}
  <1>1. 0 \in S
    <2> DEFINE g == [i \in 0 .. 0 |-> Start(lock)]
    <2>1. E(g, 0)
      OBVIOUS
    <2> QED
      BY <2>1
  <1>2. ASSUME NEW m \in Nat, m \in S
        PROVE  m + 1 \in S
    <2>1. PICK f : E(f, m)
      BY <1>2
    <2> DEFINE g == [i \in 0 .. m + 1 |-> IF i = m + 1 THEN InsertStep(f[m], list[m + 1])
                                          ELSE f[i]]
    <2>2. ASSUME NEW i \in 0 .. m + 1
          PROVE  g[i] = IF i = 0 THEN Start(lock) ELSE InsertStep(g[i - 1], list[i])
      <3>1. CASE i = m + 1
        <4>1. i # 0 /\ i - 1 = m /\ m \in 0 .. m + 1 /\ m # m + 1
          BY <3>1
        <4> QED
          BY <3>1, <4>1
      <3>2. CASE i \in 0 .. m
        <4>1. i # m + 1 /\ (i # 0 => i - 1 \in 0 .. m + 1 /\ i - 1 # m + 1)
          BY <3>2
        <4>2. f[i] = IF i = 0 THEN Start(lock) ELSE InsertStep(f[i - 1], list[i])
          BY <2>1, <3>2
        <4> QED
          BY <4>1, <4>2
      <3> QED
        BY <3>1, <3>2
    <2>3. DOMAIN g = 0 .. m + 1 /\ g = [i \in 0 .. m + 1 |-> g[i]]
      OBVIOUS
    <2> HIDE DEF g
    <2>4. E(g, m + 1)
      BY <2>2, <2>3
    <2> QED
      BY <2>4
  <1>3. Nat \subseteq S
    <2> HIDE DEF S
    <2> QED
      BY <1>1, <1>2, NumbersInduction
  <1> QED
    BY <1>3 DEF Rounds

(* After all rounds: what LocksInsert takes the loop to leave.              *)
Over(list, lock) ==
  LET round[i \in 0 .. Len(list)] ==
        IF i = 0 THEN Start(lock) ELSE InsertStep(round[i - 1], list[i])
  IN round[Len(list)]

(* The invariant of the loop at its end, by induction over its rounds.      *)
LEMMA RoundsAll ==
  ASSUME NEW list \in Seq(Held), Sorted(list), NEW lock \in Locks
  PROVE  Round(Over(list, lock), list, lock, Len(list))
  <1> DEFINE n == Len(list)
             h == CHOOSE f : Rounds(f, list, lock, n)
  <1>0. n \in Nat /\ DOMAIN list = 1 .. n
    OBVIOUS
  <1>1. Over(list, lock) = h[n]
    BY DEF Over, Rounds
  <1> HIDE DEF n
  <1>2. Rounds(h, list, lock, n)
    <2>1. \E f : Rounds(f, list, lock, n)
      BY <1>0, RoundsExist
    <2> QED
      BY <2>1
  <1> HIDE DEF h
  <1> DEFINE S == {k \in Nat : k <= n => Round(h[k], list, lock, k)}
  <1>3. 0 \in S
    <2>1. 0 \in 0 .. n
      BY <1>0
    <2>2. h[0] = Start(lock)
      BY <1>2, <2>1 DEF Rounds
    <2> QED
      BY <2>2, RoundZero
  <1>4. ASSUME NEW k \in Nat, k \in S
        PROVE  k + 1 \in S
    <2> SUFFICES ASSUME k + 1 <= n
                 PROVE  Round(h[k + 1], list, lock, k + 1)
      OBVIOUS
    <2>1. Round(h[k], list, lock, k)
      BY <1>0, <1>4
    <2>2. k + 1 \in 0 .. n /\ k + 1 # 0 /\ (k + 1) - 1 = k /\ k + 1 \in DOMAIN list
      BY <1>0
    <2>3. h[k + 1] = InsertStep(h[k], list[k + 1])
      BY <1>2, <2>2 DEF Rounds
    <2> QED
      BY <2>1, <2>2, <2>3, RoundHolds
  <1>5. Nat \subseteq S
    <2> HIDE DEF S
    <2> QED
      BY <1>3, <1>4, NumbersInduction
  <1> QED
    BY <1>0, <1>1, <1>5 DEF n

(* One list behind another.                                                 *)
LEMMA Joined ==
  ASSUME NEW s \in Seq(Held), NEW t \in Seq(Held)
  PROVE  /\ s \o t \in Seq(Held)
         /\ ToSet(s \o t) = ToSet(s) \cup ToSet(t)
         /\ Sorted(s) /\ Sorted(t) /\ (\A x \in ToSet(s), y \in ToSet(t) : Apart(x, y))
              => Sorted(s \o t)
  <1> DEFINE r == s \o t
             m == Len(s)
             n == Len(t)
  <1>1. /\ r \in Seq(Held) /\ m \in Nat /\ n \in Nat /\ DOMAIN r = 1 .. m + n
        /\ DOMAIN s = 1 .. m /\ DOMAIN t = 1 .. n
        /\ \A i \in 1 .. m : r[i] = s[i]
        /\ \A i \in m + 1 .. m + n : r[i] = t[i - m] /\ i - m \in 1 .. n
        /\ \A i \in 1 .. n : r[i + m] = t[i] /\ i + m \in 1 .. m + n
    OBVIOUS
  <1> HIDE DEF r, m, n
  <1>2. ToSet(r) = ToSet(s) \cup ToSet(t)
    <2>1. ASSUME NEW y \in ToSet(r)
          PROVE  y \in ToSet(s) \cup ToSet(t)
      <3>1. PICK i \in 1 .. m + n : y = r[i]
        BY <2>1, <1>1 DEF ToSet
      <3>2. i \in 1 .. m \/ i \in m + 1 .. m + n
        BY <1>1
      <3> QED
        BY <3>1, <3>2, <1>1 DEF ToSet
    <2>2. ASSUME NEW y \in ToSet(s)
          PROVE  y \in ToSet(r)
      <3>1. PICK i \in 1 .. m : y = s[i]
        BY <2>2, <1>1 DEF ToSet
      <3>2. i \in 1 .. m + n
        BY <1>1
      <3> QED
        BY <3>1, <3>2, <1>1 DEF ToSet
    <2>3. ASSUME NEW y \in ToSet(t)
          PROVE  y \in ToSet(r)
      <3>1. PICK i \in 1 .. n : y = t[i]
        BY <2>3, <1>1 DEF ToSet
      <3> QED
        BY <3>1, <1>1 DEF ToSet
    <2> QED
      BY <2>1, <2>2, <2>3
  <1>3. ASSUME Sorted(s), Sorted(t), \A x \in ToSet(s), y \in ToSet(t) : Apart(x, y)
        PROVE  Sorted(r)
    <2> SUFFICES ASSUME NEW i \in 1 .. m + n, NEW j \in 1 .. m + n, i < j
                 PROVE  Apart(r[i], r[j])
      BY <1>1 DEF Sorted
    <2>1. CASE j <= m
      <3>1. i \in 1 .. m /\ j \in 1 .. m
        BY <1>1, <2>1
      <3> QED
        BY <1>1, <1>3, <3>1 DEF Sorted
    <2>2. CASE i <= m /\ m < j
      <3>1. i \in 1 .. m /\ j \in m + 1 .. m + n
        BY <1>1, <2>2
      <3>2. r[i] \in ToSet(s) /\ r[j] \in ToSet(t)
        BY <1>1, <3>1 DEF ToSet
      <3> QED
        BY <1>3, <3>2
    <2>3. CASE m < i
      <3>1. i \in m + 1 .. m + n /\ j \in m + 1 .. m + n /\ i - m < j - m
        BY <1>1, <2>3
      <3>2. r[i] = t[i - m] /\ r[j] = t[j - m] /\ i - m \in DOMAIN t /\ j - m \in DOMAIN t
        BY <1>1, <3>1
      <3> QED
        BY <1>3, <3>1, <3>2 DEF Sorted
    <2> QED
      BY <1>1, <2>1, <2>2, <2>3
  <1> QED
    BY <1>1, <1>2, <1>3 DEF r

(* What locks_insert makes of a list: it is in order again; other owners'    *)
(* locks are what they were, and byte by byte the owner has the new lock     *)
(* where it is and its old ones elsewhere.                                  *)
Inserted(list, lock, r) ==
  /\ r \in Seq(Held) /\ Sorted(r)
  /\ {z \in ToSet(r) : z.owner # lock.owner} = {z \in ToSet(list) : z.owner # lock.owner}
  /\ \A b \in Offsets, ty \in {"R", "W"} :
       Says(ToSet(r), lock.owner, b, ty)
       <=>
       \/ b \in Covered(lock) /\ ty = lock.type
       \/ b \notin Covered(lock) /\ Says(ToSet(list), lock.owner, b, ty)

(* The loop, and the insertion of the lock as it has grown: together they   *)
(* do just that.                                                            *)
LEMMA LocksInsertDoes ==
  ASSUME NEW list \in Seq(Held), Sorted(list), NEW lock \in Locks
  PROVE  Inserted(list, lock, LocksInsert(list, lock))
  <1> DEFINE a == Over(list, lock)
             new == IF a.listed \/ lock.type = "U" THEN <<>> ELSE <<a.lock>>
             r == a.before \o new \o a.after
  <1>1. LocksInsert(list, lock) = r
    BY DEF LocksInsert, Over, Start
  <1>2. Round(a, list, lock, Len(list))
    BY RoundsAll
  <1> HIDE DEF a
  <1>3. Passed(list, Len(list)) = ToSet(list)
    BY DEF Passed, ToSet
  <1>4. Typed(a, lock) /\ Ordered(a) /\ Fits(a)
    BY <1>2 DEF Round
  <1>5. /\ new \in Seq(Held) /\ Sorted(new)
        /\ ToSet(new) = IF a.listed \/ lock.type = "U" THEN {} ELSE {a.lock}
    <2>1. CASE a.listed \/ lock.type = "U"
      BY <2>1 DEF ToSet, Sorted
    <2>2. CASE ~(a.listed \/ lock.type = "U")
      <3>1. a.lock \in Held /\ new = <<a.lock>>
        BY <1>4, <2>2 DEF Typed, Held
      <3>2. <<a.lock>> \in Seq(Held) /\ ToSet(<<a.lock>>) = {a.lock} /\ Sorted(<<a.lock>>)
        BY <3>1 DEF ToSet, Sorted
      <3> QED
        BY <2>2, <3>1, <3>2
    <2> QED
      BY <2>1, <2>2
  <1> HIDE DEF new
  <1>6. /\ a.before \o new \in Seq(Held) /\ Sorted(a.before \o new)
        /\ ToSet(a.before \o new) = ToSet(a.before) \cup ToSet(new)
    <2>1. a.before \in Seq(Held) /\ Sorted(a.before)
      BY <1>4 DEF Typed, Ordered
    <2>2. \A x \in ToSet(a.before), y \in ToSet(new) : Apart(x, y)
      BY <1>4, <1>5 DEF Fits
    <2> QED
      BY <1>5, <2>1, <2>2, Joined
  <1>7. r \in Seq(Held) /\ Sorted(r) /\ ToSet(r) = Kept(a) \cup ToSet(new)
    <2>1. a.after \in Seq(Held) /\ Sorted(a.after)
      BY <1>4 DEF Typed, Ordered
    <2>2. \A x \in ToSet(a.before \o new), y \in ToSet(a.after) : Apart(x, y)
      BY <1>4, <1>5, <1>6 DEF Fits, Ordered
    <2>3. r \in Seq(Held) /\ Sorted(r) /\ ToSet(r) = ToSet(a.before \o new) \cup ToSet(a.after)
      BY <1>6, <2>1, <2>2, Joined
    <2> QED
      BY <1>6, <2>3 DEF Kept
  <1> HIDE DEF r
  <1>8. {z \in ToSet(r) : z.owner # lock.owner} = {z \in ToSet(list) : z.owner # lock.owner}
    BY <1>2, <1>3, <1>4, <1>5, <1>7 DEF Round, Others, Typed
  <1>9. ASSUME NEW b \in Offsets, NEW ty \in {"R", "W"}
        PROVE  Says(ToSet(r), lock.owner, b, ty)
               <=>
               \/ b \in Covered(lock) /\ ty = lock.type
               \/ b \notin Covered(lock) /\ Says(ToSet(list), lock.owner, b, ty)
    <2>1. \/ Says(Kept(a), lock.owner, b, ty)
          \/ ~a.listed /\ b \in Covered(a.lock) /\ ty = a.lock.type
          <=>
          \/ b \in Covered(lock) /\ ty = lock.type
          \/ b \notin Covered(lock) /\ Says(ToSet(list), lock.owner, b, ty)
      BY <1>2, <1>3 DEF Round, Own
    <2>2. Says(ToSet(r), lock.owner, b, ty)
            <=> \/ Says(Kept(a), lock.owner, b, ty)
                \/ Says(ToSet(new), lock.owner, b, ty)
      BY <1>7 DEF Says
    <2>3. Says(ToSet(new), lock.owner, b, ty)
            <=> ~a.listed /\ b \in Covered(a.lock) /\ ty = a.lock.type
      BY <1>4, <1>5 DEF Says, Typed
    <2> QED
      BY <2>1, <2>2, <2>3
  <1> QED
    BY <1>1, <1>7, <1>8, <1>9 DEF Inserted

-----------------------------------------------------------------------------
(* The specification.                                                       *)

(* The list is in order, and holds no lock of type F_UNLCK.                 *)
ListOK == locks \in Seq(Held) /\ Sorted(locks)

(* Lists of locks that are held are lists of locks.                         *)
LEMMA HeldAreLocks == Seq(Held) \subseteq Seq(Locks)
  <1>1. Held \subseteq Locks
    BY DEF Held
  <1> QED
    BY <1>1

(* What the file system makes of a request, byte by byte.                   *)
LEMMA FsLockTyped ==
  ASSUME held \in [Owners -> [Offsets -> Types]], NEW l \in Locks
  PROVE  /\ FsLock(l) \in [Owners -> [Offsets -> Types]]
         /\ \A o \in Owners : o # l.owner => FsLock(l)[o] = held[o]
         /\ \A b \in Offsets :
              FsLock(l)[l.owner][b] = IF b \in Covered(l) THEN l.type ELSE held[l.owner][b]
  <1>1. l.owner \in Owners /\ l.type \in Types
    BY DEF Locks
  <1>2. FsLock(l) = [held EXCEPT ![l.owner] =
          [b \in Offsets |-> IF b \in Covered(l) THEN l.type ELSE held[l.owner][b]]]
    BY DEF FsLock
  <1>3. [b \in Offsets |-> IF b \in Covered(l) THEN l.type ELSE held[l.owner][b]]
          \in [Offsets -> Types]
    BY <1>1
  <1> QED
    BY <1>1, <1>2, <1>3

(* The lock that a flush takes away: everything.                            *)
LEMMA AllIsLock ==
  ASSUME NEW t \in Threads
  PROVE  [owner |-> OwnerOf[t], type |-> "U", start |-> 0, end |-> OffsetMax] \in Locks
  BY PosixLocksAssumption DEF Locks, Owners, Types, Offsets

(* The file system's step of a request of thread t for l: it has taken or    *)
(* given back the bytes of l, or has failed to give them back.               *)
Requested(t, l) ==
  /\ pending[t] = Idle /\ l.owner = OwnerOf[t]
  /\ pending' = [pending EXCEPT ![t] = l] /\ locks' = locks
  /\ held' \in [Owners -> [Offsets -> Types]] /\ kept' \subseteq Owners
  /\ \A o \in Owners : o # l.owner => held'[o] = held[o] /\ (o \in kept' <=> o \in kept)
  /\ \A b \in Offsets :
       IF b \in Covered(l) THEN held'[l.owner][b] = l.type \/ (l.owner \in kept' /\ l.type = "U")
       ELSE held'[l.owner][b] = held[l.owner][b] /\ (l.owner \in kept' <=> l.owner \in kept)

(* The library's step of the request of thread t.                            *)
Listed(t) ==
  /\ pending[t] # Idle /\ pending[t] \in Locks
  /\ \/ locks' = LocksInsert(locks, pending[t])
     \/ NoMemory /\ locks' = locks
  /\ pending' = [pending EXCEPT ![t] = Idle] /\ held' = held /\ kept' = kept

(* The effect of one step on all variables.                                 *)
LEMMA StepForms ==
  ASSUME TypeOK, Next
  PROVE  \E t \in Threads : Listed(t) \/ \E l \in Locks : Requested(t, l)
  <1>1. PICK t \in Threads : (\E l \in Locks : SetLock(t, l)) \/ Flush(t) \/ List(t)
    BY DEF Next
  <1>2. CASE \E l \in Locks : SetLock(t, l)
    <2>1. PICK l \in Locks : SetLock(t, l)
      BY <1>2
    <2>2. held' = FsLock(l) /\ kept' = kept
      BY <2>1 DEF SetLock
    <2>3. Requested(t, l)
      BY <2>1, <2>2, FsLockTyped DEF SetLock, TypeOK, Requested
    <2> QED
      BY <2>3
  <1>3. CASE Flush(t)
    <2> DEFINE all == [owner |-> OwnerOf[t], type |-> "U", start |-> 0, end |-> OffsetMax]
    <2>1. /\ all \in Locks /\ all.owner = OwnerOf[t] /\ all.owner \in Owners /\ all.type = "U"
          /\ \A b \in Offsets : b \in Covered(all)
      BY AllIsLock, PosixLocksAssumption DEF Owners, Covered, Offsets
    <2>2. /\ pending[t] = Idle /\ pending' = [pending EXCEPT ![t] = all] /\ locks' = locks
          /\ \/ held' = FsLock(all) /\ kept' = kept \ {OwnerOf[t]}
             \/ held' = held /\ kept' = kept \cup {OwnerOf[t]}
      BY <1>3 DEF Flush
    <2> HIDE DEF all
    <2>3. CASE held' = FsLock(all) /\ kept' = kept \ {OwnerOf[t]}
      <3>1. Requested(t, all)
        BY <2>1, <2>2, <2>3, FsLockTyped DEF TypeOK, Requested
      <3> QED
        BY <2>1, <3>1
    <2>4. CASE held' = held /\ kept' = kept \cup {OwnerOf[t]}
      <3>1. Requested(t, all)
        BY <2>1, <2>2, <2>4 DEF TypeOK, Requested
      <3> QED
        BY <2>1, <3>1
    <2> QED
      BY <2>2, <2>3, <2>4
  <1>4. CASE List(t)
    <2>1. pending[t] # Idle /\ pending[t] \in Locks
      BY <1>4 DEF List, TypeOK
    <2>2. Listed(t)
      BY <1>4, <2>1 DEF List, Listed
    <2> QED
      BY <2>2
  <1> QED
    BY <1>1, <1>2, <1>3, <1>4

(* Whatever is requested, and even without memory, the list that             *)
(* locks_insert leaves has its type and is in order: of one owner no two     *)
(* locks overlap, and none is behind one that starts later. Splitting,       *)
(* cutting and merging in place rely on it.                                 *)
THEOREM LocksInOrder == Spec => [](TypeOK /\ ListOK)
  <1>1. Init => TypeOK /\ ListOK
    <2> SUFFICES ASSUME Init
                 PROVE  TypeOK /\ ListOK
      OBVIOUS
    <2>1. <<>> \in Seq(Held) /\ <<>> \in Seq(Locks) /\ Sorted(<<>>)
      BY DEF Sorted
    <2> QED
      BY <2>1 DEF Init, TypeOK, ListOK, Types
  <1>2. TypeOK /\ ListOK /\ [Next]_vars => (TypeOK /\ ListOK)'
    <2> SUFFICES ASSUME TypeOK, ListOK, [Next]_vars
                 PROVE  TypeOK' /\ ListOK'
      OBVIOUS
    <2>1. CASE UNCHANGED vars
      BY <2>1 DEF vars, TypeOK, ListOK
    <2>2. CASE Next
      <3>1. PICK t \in Threads : Listed(t) \/ \E l \in Locks : Requested(t, l)
        BY <2>2, StepForms
      <3>2. ASSUME NEW l \in Locks, Requested(t, l)
            PROVE  TypeOK' /\ ListOK'
        BY <3>2 DEF Requested, TypeOK, ListOK
      <3>3. ASSUME Listed(t)
            PROVE  TypeOK' /\ ListOK'
        <4>1. locks' \in Seq(Held) /\ Sorted(locks')
          BY <3>3, LocksInsertDoes DEF Listed, ListOK, Inserted
        <4>2. locks' \in Seq(Locks)
          BY <4>1, HeldAreLocks
        <4> QED
          BY <3>3, <4>1, <4>2 DEF Listed, TypeOK, ListOK
      <3> QED
        BY <3>1, <3>2, <3>3
    <2> QED
      BY <2>1, <2>2
  <1> QED
    BY <1>1, <1>2, PTL DEF Spec

(* With one thread at a time for each owner, and memory for every insertion, *)
(* the list of an owner says what the file system says, but for the bytes of *)
(* a request that is not yet listed, and there the file system has it. Of an *)
(* owner whose locks the file system has kept, the list may say less.        *)
OneThreadEach == \A t, u \in Threads : OwnerOf[t] = OwnerOf[u] => t = u
SaysHeld(o, b) ==
  \A ty \in {"R", "W"} :
    /\ Says(ToSet(locks), o, b, ty) => held[o][b] = ty
    /\ held[o][b] = ty => Says(ToSet(locks), o, b, ty) \/ o \in kept
HeldOrKept(o, b, type) == held[o][b] = type \/ (o \in kept /\ type = "U")
Follows ==
  \A t \in Threads :
    IF pending[t] = Idle THEN \A b \in Offsets : SaysHeld(OwnerOf[t], b)
    ELSE /\ pending[t].owner = OwnerOf[t]
         /\ \A b \in Offsets :
              IF b \in Covered(pending[t]) THEN HeldOrKept(OwnerOf[t], b, pending[t].type)
              ELSE SaysHeld(OwnerOf[t], b)

(* Every step keeps it: the file system's step makes the request pending,   *)
(* the library's lists it, and neither touches what other owners have.      *)
LEMMA FollowsNext ==
  ASSUME OneThreadEach, ~NoMemory, TypeOK, ListOK, Follows, Next
  PROVE  Follows'
  <1>1. PICK t \in Threads : Listed(t) \/ \E l \in Locks : Requested(t, l)
    BY StepForms
  <1>0. OwnerOf[t] \in Owners /\ \A u \in Threads : OwnerOf[u] \in Owners
    BY DEF Owners
  <1>2. ASSUME NEW l \in Locks, Requested(t, l)
        PROVE  Follows'
    <2>0. pending[t] = Idle /\ l.owner = OwnerOf[t] /\ locks' = locks
      BY <1>2 DEF Requested
    <2>1. /\ \A o \in Owners : o # l.owner => held'[o] = held[o] /\ (o \in kept' <=> o \in kept)
          /\ \A b \in Offsets :
               IF b \in Covered(l) THEN HeldOrKept(l.owner, b, l.type)'
               ELSE held'[l.owner][b] = held[l.owner][b] /\ (l.owner \in kept' <=> l.owner \in kept)
      BY <1>2 DEF Requested, HeldOrKept
    <2>2. l # Idle
      BY PosixLocksAssumption
    <2>3. pending'[t] = l /\ \A u \in Threads : u # t => pending'[u] = pending[u]
      BY <1>2 DEF Requested, TypeOK
    <2>4. ASSUME NEW u \in Threads, u # t
          PROVE  /\ held'[OwnerOf[u]] = held[OwnerOf[u]] /\ pending'[u] = pending[u]
                 /\ OwnerOf[u] \in kept' <=> OwnerOf[u] \in kept
      BY <1>0, <2>0, <2>1, <2>3, <2>4 DEF OneThreadEach
    <2>5. ASSUME NEW u \in Threads, u # t, NEW b \in Offsets
          PROVE  SaysHeld(OwnerOf[u], b)' <=> SaysHeld(OwnerOf[u], b)
      BY <2>0, <2>4, <2>5 DEF SaysHeld
    <2>6. ASSUME NEW b \in Offsets
          PROVE  IF b \in Covered(l) THEN HeldOrKept(OwnerOf[t], b, l.type)'
                 ELSE SaysHeld(OwnerOf[t], b)'
      <3>1. SaysHeld(OwnerOf[t], b)
        BY <2>0 DEF Follows
      <3> QED
        BY <2>0, <2>1, <3>1 DEF SaysHeld
    <2>7. ASSUME NEW u \in Threads
          PROVE  IF pending'[u] = Idle THEN \A b \in Offsets : SaysHeld(OwnerOf[u], b)'
                 ELSE /\ pending'[u].owner = OwnerOf[u]
                      /\ \A b \in Offsets :
                           IF b \in Covered(pending'[u])
                           THEN HeldOrKept(OwnerOf[u], b, pending[u].type)'
                           ELSE SaysHeld(OwnerOf[u], b)'
      <3>1. CASE u = t
        BY <2>0, <2>2, <2>3, <2>6, <3>1
      <3>2. CASE u # t
        <4>1. pending'[u] = pending[u]
          BY <2>4, <3>2
        <4>2. \A b \in Offsets : HeldOrKept(OwnerOf[u], b, pending[u].type)'
                                  <=> HeldOrKept(OwnerOf[u], b, pending[u].type)
          BY <2>4, <3>2 DEF HeldOrKept
        <4> QED
          BY <2>5, <3>2, <4>1, <4>2 DEF Follows
      <3> QED
        BY <3>1, <3>2
    <2> QED
      BY <2>7 DEF Follows
  <1>3. ASSUME pending[t] # Idle, pending[t] \in Locks,
               locks' = LocksInsert(locks, pending[t]),
               pending' = [pending EXCEPT ![t] = Idle], held' = held, kept' = kept
        PROVE  Follows'
    <2> DEFINE l == pending[t]
    <2>1. Inserted(locks, l, locks')
      BY <1>3, LocksInsertDoes DEF ListOK
    <2>2. l.owner = OwnerOf[t]
      BY <1>3 DEF Follows
    <2>3. pending'[t] = Idle /\ \A u \in Threads : u # t => pending'[u] = pending[u]
      BY <1>3 DEF TypeOK
    <2>4. ASSUME NEW u \in Threads, u # t, NEW b \in Offsets
          PROVE  SaysHeld(OwnerOf[u], b)' <=> SaysHeld(OwnerOf[u], b)
      <3>1. OwnerOf[u] # l.owner
        BY <2>2, <2>4 DEF OneThreadEach
      <3>2. {z \in ToSet(locks') : z.owner # l.owner} = {z \in ToSet(locks) : z.owner # l.owner}
        BY <2>1 DEF Inserted
      <3>3. ASSUME NEW ty
            PROVE  Says(ToSet(locks'), OwnerOf[u], b, ty) <=> Says(ToSet(locks), OwnerOf[u], b, ty)
        BY <3>1, <3>2 DEF Says
      <3> QED
        BY <1>3, <3>3 DEF SaysHeld
    <2>5. ASSUME NEW b \in Offsets
          PROVE  SaysHeld(OwnerOf[t], b)'
      <3> SUFFICES ASSUME NEW ty \in {"R", "W"}
                   PROVE  /\ Says(ToSet(locks'), OwnerOf[t], b, ty) => held[OwnerOf[t]][b] = ty
                          /\ held[OwnerOf[t]][b] = ty =>
                               Says(ToSet(locks'), OwnerOf[t], b, ty) \/ OwnerOf[t] \in kept
        BY <1>3 DEF SaysHeld
      <3>1. Says(ToSet(locks'), OwnerOf[t], b, ty)
            <=>
            \/ b \in Covered(l) /\ ty = l.type
            \/ b \notin Covered(l) /\ Says(ToSet(locks), OwnerOf[t], b, ty)
        BY <2>1, <2>2 DEF Inserted
      <3>2. IF b \in Covered(l) THEN HeldOrKept(OwnerOf[t], b, l.type)
            ELSE SaysHeld(OwnerOf[t], b)
        BY <1>3 DEF Follows
      <3> QED
        BY <3>1, <3>2 DEF SaysHeld, HeldOrKept
    <2> HIDE DEF l
    <2>6. ASSUME NEW u \in Threads
          PROVE  IF pending'[u] = Idle THEN \A b \in Offsets : SaysHeld(OwnerOf[u], b)'
                 ELSE /\ pending'[u].owner = OwnerOf[u]
                      /\ \A b \in Offsets :
                           IF b \in Covered(pending'[u])
                           THEN HeldOrKept(OwnerOf[u], b, pending[u].type)'
                           ELSE SaysHeld(OwnerOf[u], b)'
      <3>1. CASE u = t
        BY <2>3, <2>5, <3>1
      <3>2. CASE u # t
        <4>1. \A b \in Offsets : HeldOrKept(OwnerOf[u], b, pending[u].type)'
                                  <=> HeldOrKept(OwnerOf[u], b, pending[u].type)
          BY <1>3, <2>3, <3>2 DEF HeldOrKept
        <4> QED
          BY <1>3, <2>3, <2>4, <3>2, <4>1 DEF Follows
      <3> QED
        BY <3>1, <3>2
    <2> QED
      BY <2>6 DEF Follows
  <1> QED
    BY <1>1, <1>2, <1>3 DEF Listed

(* So it always holds.                                                      *)
LEMMA FollowsAlways == OneThreadEach /\ ~NoMemory => (Spec => [](TypeOK /\ ListOK /\ Follows))
  <1> SUFFICES ASSUME OneThreadEach, ~NoMemory
               PROVE  Spec => [](TypeOK /\ ListOK /\ Follows)
    OBVIOUS
  <1>1. Init => Follows
    <2> SUFFICES ASSUME Init
                 PROVE  Follows
      OBVIOUS
    <2>1. ToSet(locks) = {}
      BY DEF Init, ToSet
    <2>2. ASSUME NEW t \in Threads, NEW b \in Offsets
          PROVE  SaysHeld(OwnerOf[t], b)
      BY <2>1 DEF Init, SaysHeld, Says, Owners
    <2> QED
      BY <2>2 DEF Init, Follows
  <1>2. TypeOK /\ ListOK /\ Follows /\ [Next]_vars => Follows'
    <2>1. Follows /\ UNCHANGED vars => Follows'
      BY DEF vars, Follows, SaysHeld, HeldOrKept
    <2> QED
      BY <2>1, FollowsNext
  <1> QED
    BY <1>1, <1>2, LocksInOrder, PTL DEF Spec

(* An owner without a request under way: all its bytes are listed.          *)
LEMMA SettledSays ==
  ASSUME TypeOK, Follows, NEW o \in Owners, Settled(o), NEW b \in Offsets
  PROVE  SaysHeld(o, b)
  <1>1. PICK t \in Threads : o = OwnerOf[t]
    BY DEF Owners
  <1>2. pending[t] = Idle
    BY <1>1 DEF Settled
  <1> QED
    BY <1>1, <1>2 DEF Follows

(* The list of an owner without a request under way is what the file system  *)
(* holds, byte by byte, however many owners, bytes and requests there are;   *)
(* after a close whose unlock has failed it may lack what was kept           *)
(* (fuse_lib_setlk, fuse_flush_common, locks_insert).                       *)
THEOREM ListIsFsList == OneThreadEach /\ ~NoMemory => (Spec => []ListFollowsFs)
  <1> SUFFICES ASSUME OneThreadEach, ~NoMemory
               PROVE  Spec => []ListFollowsFs
    OBVIOUS
  <1>1. TypeOK /\ ListOK /\ Follows => ListFollowsFs
    <2> SUFFICES ASSUME TypeOK, ListOK, Follows, NEW o \in Owners, Settled(o), NEW b \in Offsets
                 PROVE  LET types == {l.type : l \in {m \in ToSet(locks) :
                                        m.owner = o /\ b \in Covered(m)}}
                        IN \/ types = {held[o][b]} \ {"U"}
                           \/ o \in kept /\ types = {}
      BY DEF ListFollowsFs
    <2>1. SaysHeld(o, b)
      BY SettledSays
    <2>2. held[o][b] \in {"R", "W", "U"}
      BY DEF TypeOK, Types
    <2>3. \A m \in ToSet(locks) : m.type \in {"R", "W"}
      BY DEF ListOK, ToSet, Held, Locks, Types
    <2> QED
      BY <2>1, <2>2, <2>3 DEF SaysHeld, Says
  <1> QED
    BY <1>1, FollowsAlways, PTL

(* F_GETLK answers from the list what the file system would, but for what it *)
(* kept at a close, and what it reports somebody holds (fuse_lib_getlk,      *)
(* locks_conflict).                                                         *)
THEOREM GetlkIsRight == OneThreadEach /\ ~NoMemory => (Spec => []GetlkAgrees)
  <1> SUFFICES ASSUME OneThreadEach, ~NoMemory
               PROVE  Spec => []GetlkAgrees
    OBVIOUS
  <1>1. TypeOK /\ ListOK /\ Follows => GetlkAgrees
    <2> SUFFICES ASSUME TypeOK, ListOK, Follows, \A o \in Owners : Settled(o),
                        NEW l \in Locks, l.type # "U"
                 PROVE  /\ LocksConflict(locks, l) # {} => FsConflict(l)
                        /\ FsConflictWith(l, Owners \ kept) => LocksConflict(locks, l) # {}
                        /\ \A c \in LocksConflict(locks, l) :
                             \A b \in Covered(c) : held[c.owner][b] = c.type
      BY DEF GetlkAgrees
    <2> DEFINE them == {i \in DOMAIN locks : Against(locks[i], l)}
    <2>1. ASSUME NEW o \in Owners, NEW b \in Offsets
          PROVE  SaysHeld(o, b)
      BY SettledSays
    <2>2. \A i \in DOMAIN locks : locks[i] \in Held /\ locks[i] \in ToSet(locks) /\ i \in Nat
      BY DEF ListOK, ToSet
    <2>3. ASSUME NEW c \in ToSet(locks), NEW b \in Covered(c)
          PROVE  c \in Held /\ b \in Offsets /\ held[c.owner][b] = c.type
      <3>1. c \in Held
        BY <2>2 DEF ToSet
      <3>2. b \in Offsets
        BY <3>1, PosixLocksAssumption DEF Held, Locks, Offsets, Covered
      <3>3. c.owner \in Owners /\ c.type \in {"R", "W"}
        BY <3>1 DEF Held, Locks, Types
      <3>4. Says(ToSet(locks), c.owner, b, c.type)
        BY DEF Says
      <3>5. SaysHeld(c.owner, b)
        BY <2>1, <3>2, <3>3
      <3> QED
        BY <3>1, <3>2, <3>3, <3>4, <3>5 DEF SaysHeld
    <2>4. LocksConflict(locks, l) = {locks[i] : i \in {j \in them : \A k \in them : j <= k}}
      BY DEF LocksConflict
    <2>5. LocksConflict(locks, l) # {} <=> them # {}
      <3>1. them # {} => \E x \in them : \A y \in them : x <= y
        <4>1. them \subseteq Nat
          BY <2>2
        <4> HIDE DEF them
        <4> QED
          BY <4>1, LeastNumber
      <3> HIDE DEF them
      <3> QED
        BY <2>4, <3>1
    <2>6. \A c \in LocksConflict(locks, l) : c \in ToSet(locks)
      BY <2>2, <2>4
    <2>7. ASSUME NEW i \in them
          PROVE  FsConflict(l)
      <3> DEFINE c == locks[i]
      <3>1. c \in Held /\ c \in ToSet(locks) /\ Against(c, l)
        BY <2>2
      <3> HIDE DEF c
      <3>2. c.owner \in Owners \ {l.owner}
        BY <3>1 DEF Against, Held, Locks
      <3>3. PICK b : b \in Covered(c) /\ b \in Covered(l)
        <4>1. /\ c.start \in Nat /\ c.end \in Nat /\ l.start \in Nat /\ l.end \in Nat
              /\ c.start <= c.end /\ l.start <= l.end
          BY <3>1, PosixLocksAssumption DEF Held, Locks, Offsets
        <4>2. c.start <= l.end /\ l.start <= c.end
          BY <3>1, <4>1 DEF Against, Overlap
        <4>3. CASE c.start <= l.start
          BY <4>1, <4>2, <4>3 DEF Covered
        <4>4. CASE l.start <= c.start
          BY <4>1, <4>2, <4>4 DEF Covered
        <4> QED
          BY <4>1, <4>3, <4>4
      <3>4. held[c.owner][b] = c.type
        BY <2>3, <3>1, <3>3
      <3>5. c.type = "W" \/ (c.type = "R" /\ l.type = "W")
        BY <3>1 DEF Against, Held, Locks, Types
      <3> QED
        BY <3>2, <3>3, <3>4, <3>5 DEF FsConflict, FsConflictWith
    <2>8. ASSUME FsConflictWith(l, Owners \ kept)
          PROVE  them # {}
      <3>1. PICK o \in (Owners \ kept) \ {l.owner}, b \in Covered(l) :
              held[o][b] = "W" \/ (held[o][b] = "R" /\ l.type = "W")
        BY <2>8 DEF FsConflictWith
      <3>2. b \in Offsets
        BY PosixLocksAssumption DEF Locks, Offsets, Covered
      <3>3. PICK c \in ToSet(locks) : c.owner = o /\ b \in Covered(c) /\ c.type = held[o][b]
        BY <2>1, <3>1, <3>2 DEF SaysHeld, Says
      <3>4. PICK i \in DOMAIN locks : c = locks[i]
        BY <3>3 DEF ToSet
      <3>5. Against(c, l)
        <4>1. c \in Locks
          BY <2>2, <3>4 DEF Held
        <4>2. c.start <= l.end /\ l.start <= c.end
          BY <3>1, <3>2, <3>3, <4>1, PosixLocksAssumption DEF Covered, Locks, Offsets
        <4>3. c.owner # l.owner /\ "W" \in {c.type, l.type}
          BY <3>1, <3>3
        <4> QED
          BY <4>2, <4>3 DEF Against, Overlap
      <3> QED
        BY <3>4, <3>5
    <2> HIDE DEF them
    <2> QED
      BY <2>3, <2>5, <2>6, <2>7, <2>8
  <1> QED
    BY <1>1, FollowsAlways, PTL
=============================================================================
