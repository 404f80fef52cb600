------------------------------ MODULE LockTable ------------------------------
(* What the tree lock promises, with the queue, the counters and the walk  *)
(* left out: a request takes all its locks in one step, shared ones on the *)
(* nodes of its paths and exclusive ones on the nodes it is about to move  *)
(* or remove, and only when no other request holds a conflicting lock.     *)
CONSTANTS Threads, Nodes

VARIABLES shared, exclusive   \* [Threads -> SUBSET Nodes]

Init ==
  /\ shared = [t \in Threads |-> {}]
  /\ exclusive = [t \in Threads |-> {}]

Compatible(t, S, X) ==
  /\ S \cap X = {}
  /\ \A u \in Threads \ {t} : /\ S \cap exclusive[u] = {}
                              /\ X \cap (shared[u] \cup exclusive[u]) = {}

Acquire(t) ==
  /\ shared[t] = {} /\ exclusive[t] = {}
  /\ \E S, X \in SUBSET Nodes :
       /\ Compatible(t, S, X)
       /\ shared' = [shared EXCEPT ![t] = S]
       /\ exclusive' = [exclusive EXCEPT ![t] = X]

Release(t) ==
  /\ shared' = [shared EXCEPT ![t] = {}]
  /\ exclusive' = [exclusive EXCEPT ![t] = {}]

Next == \E t \in Threads : Acquire(t) \/ Release(t)

Spec == Init /\ [][Next]_<<shared, exclusive>>
==============================================================================
