--------------------------- MODULE PathLock_proofs ---------------------------
(* Three invariants of PathLock.  The tree stays a tree: whatever the threads *)
(* do, no cycle appears, so that every walk of try_get_path, unlock_path    *)
(* and forget_node ends, and every variable keeps its type.  And, on such a *)
(* tree, the counts of treelock are the paths held: no lock leaks, and no   *)
(* node moves or goes while a path needs it.  On both, who is left asleep   *)
(* while no pass runs could not proceed: no wake-up is lost.                *)
EXTENDS PathLock, FiniteSetTheorems, TLAPS

-----------------------------------------------------------------------------
(* Facts about the walk up the tree of nodes, for every set of nodes, and   *)
(* what each change of the parent pointers does to the walks.               *)

ParentOK == parent \in [Nodes -> Nodes \cup {NoNode}]

(* The least closed set around n: what a walk from n visits.                *)
Least(n) ==
  {m \in Nodes : \A S \in SUBSET Nodes : n \in S /\ Closed(S) => m \in S}

LEMMA LeastFacts ==
  ASSUME ParentOK, NEW n \in Nodes
  PROVE  /\ n \in Least(n) /\ Closed(Least(n))
         /\ Least(n) \in SUBSET Nodes
         /\ \A S \in SUBSET Nodes : n \in S /\ Closed(S) => Least(n) \subseteq S
  <1>1. n \in Least(n)
    BY DEF Least
  <1>2. Closed(Least(n))
    <2> SUFFICES ASSUME NEW m \in Least(n), parent[m] # NoNode
                 PROVE  parent[m] \in Least(n)
      BY DEF Closed
    <2>1. parent[m] \in Nodes
      BY DEF ParentOK, Least
    <2>2. ASSUME NEW S \in SUBSET Nodes, n \in S, Closed(S)
          PROVE  parent[m] \in S
      BY <2>2 DEF Least, Closed
    <2> QED
      BY <2>1, <2>2 DEF Least
  <1> QED
    BY <1>1, <1>2 DEF Least

(* The least closed sets satisfy the equation that defines the walks, so    *)
(* that there is a function Walk to speak of.                               *)
LEMMA LeastStep ==
  ASSUME ParentOK, NEW n \in Nodes
  PROVE  Least(n) = {n} \cup IF parent[n] = NoNode THEN {} ELSE Least(parent[n])
  <1>1. CASE parent[n] = NoNode
    <2>1. Closed({n}) /\ {n} \in SUBSET Nodes
      BY <1>1 DEF Closed
    <2> QED
      BY <1>1, <2>1, LeastFacts
  <1>2. CASE parent[n] # NoNode
    <2> DEFINE p == parent[n]
    <2>1. p \in Nodes
      BY <1>2 DEF ParentOK
    <2>2. Closed({n} \cup Least(p)) /\ {n} \cup Least(p) \in SUBSET Nodes
      BY <2>1, LeastFacts DEF Closed
    <2>3. Least(n) \subseteq {n} \cup Least(p)
      BY <2>2, LeastFacts
    <2>4. p \in Least(n)
      BY <1>2, LeastFacts DEF Closed
    <2>5. Least(p) \subseteq Least(n)
      BY <2>1, <2>4, LeastFacts
    <2> QED
      BY <1>2, <2>3, <2>5, LeastFacts
  <1> QED
    BY <1>1, <1>2

LEMMA WalkStep ==
  ASSUME ParentOK, NEW n \in Nodes
  PROVE  Walk[n] = {n} \cup IF parent[n] = NoNode THEN {} ELSE Walk[parent[n]]
  <1> DEFINE f == [m \in Nodes |-> Least(m)]
             Eq(g) == g = [m \in Nodes |-> {m} \cup IF parent[m] = NoNode THEN {}
                                                    ELSE g[parent[m]]]
  <1>1. Eq(f)
    <2>1. ASSUME NEW m \in Nodes
          PROVE  f[m] = {m} \cup IF parent[m] = NoNode THEN {} ELSE f[parent[m]]
      <3>1. parent[m] # NoNode => parent[m] \in Nodes
        BY DEF ParentOK
      <3> QED
        BY <3>1, LeastStep
    <2> QED
      BY <2>1
  <1>2. Walk = CHOOSE g : Eq(g)
    BY DEF Walk
  <1>3. Eq(Walk)
    <2> HIDE DEF Eq, f
    <2> QED
      BY <1>1, <1>2
  <1> QED
    BY <1>3

(* Without a cycle the walks are those sets: two functions that satisfy the  *)
(* equation can only differ on a closed set that never reaches a NULL.      *)
LEMMA WalkIsLeast ==
  ASSUME ParentOK, Acyclic
  PROVE  \A n \in Nodes : Chain(n) = Least(n)
  <1> DEFINE D == {n \in Nodes : Chain(n) # Least(n)}
  <1>1. ASSUME NEW n \in D
        PROVE  parent[n] # NoNode /\ parent[n] \in D
    <2>1. /\ Chain(n) = {n} \cup IF parent[n] = NoNode THEN {} ELSE Chain(parent[n])
          /\ Least(n) = {n} \cup IF parent[n] = NoNode THEN {} ELSE Least(parent[n])
      BY <1>1, WalkStep, LeastStep DEF Chain
    <2>2. parent[n] # NoNode
      BY <2>1, <1>1
    <2>3. parent[n] \in Nodes
      BY <2>2, <1>1 DEF ParentOK
    <2> QED
      BY <2>1, <2>2, <2>3, <1>1
  <1>2. Closed(D) /\ D \in SUBSET Nodes
    BY <1>1 DEF Closed
  <1>3. D = {}
    BY <1>1, <1>2 DEF Acyclic
  <1> QED
    BY <1>3

(* What the proofs about the tree use: the chain of a node is the least set *)
(* of nodes that holds it and the parent of each of its members.            *)
ChainsAreLeast ==
  \A n \in Nodes :
    /\ n \in Chain(n) /\ Closed(Chain(n)) /\ Chain(n) \in SUBSET Nodes
    /\ \A S \in SUBSET Nodes : n \in S /\ Closed(S) => Chain(n) \subseteq S

LEMMA ChainClosure == ParentOK /\ Acyclic => ChainsAreLeast
  BY WalkIsLeast, LeastFacts DEF ChainsAreLeast

(* The same facts after a step.                                             *)
LEMMA ChainClosureNext == ParentOK' /\ Acyclic' => ChainsAreLeast'
  BY ChainClosure, PTL

-----------------------------------------------------------------------------
(* Taking nodes off the tree makes no cycle and only shortens chains.       *)
OnlyCut == \A m \in Nodes : parent'[m] \in {parent[m], NoNode}

LEMMA CutAcyclic ==
  ASSUME ParentOK, Acyclic, OnlyCut
  PROVE  Acyclic'
  <1> SUFFICES ASSUME NEW S \in SUBSET Nodes, S # {}, Closed(S)',
                      \A m \in S : parent'[m] # NoNode
               PROVE  FALSE
    BY DEF Acyclic
  <1>1. \A m \in S : parent'[m] = parent[m]
    BY DEF OnlyCut
  <1>2. Closed(S)
    BY <1>1 DEF Closed
  <1> QED
    BY <1>1, <1>2 DEF Acyclic

LEMMA CutShortens ==
  ASSUME ParentOK, Acyclic, ParentOK', OnlyCut
  PROVE  \A n \in Nodes : Chain(n)' \subseteq Chain(n)
  <1>1. ChainsAreLeast /\ ChainsAreLeast'
    BY CutAcyclic, ChainClosure, ChainClosureNext
  <1> SUFFICES ASSUME NEW n \in Nodes
               PROVE  Chain(n)' \subseteq Chain(n)
    OBVIOUS
  <1>2. Chain(n) \in SUBSET Nodes /\ n \in Chain(n) /\ Closed(Chain(n))
    BY <1>1 DEF ChainsAreLeast
  <1>3. PICK S \in SUBSET Nodes : S = Chain(n)
    BY <1>2
  <1>4. Closed(S)'
    BY <1>2, <1>3 DEF OnlyCut, Closed
  <1>5. \A T \in SUBSET Nodes : n \in T /\ Closed(T)' => Chain(n)' \subseteq T
    BY <1>1 DEF ChainsAreLeast
  <1> QED
    BY <1>2, <1>3, <1>4, <1>5

(* A walk that meets none of the nodes a step moves stays what it was.      *)
LEMMA ChainStays ==
  ASSUME ParentOK, Acyclic, ParentOK', Acyclic',
         NEW n \in Nodes, \A m \in Chain(n) : parent'[m] = parent[m]
  PROVE  Chain(n)' = Chain(n)
  <1>1. ChainsAreLeast /\ ChainsAreLeast'
    BY ChainClosure, ChainClosureNext
  <1>2. PICK S \in SUBSET Nodes : S = Chain(n)
    BY <1>1 DEF ChainsAreLeast
  <1>3. PICK T \in SUBSET Nodes : T = Chain(n)'
    BY <1>1 DEF ChainsAreLeast
  <1>4. n \in S /\ Closed(S) /\ \A R \in SUBSET Nodes : n \in R /\ Closed(R) => S \subseteq R
    BY <1>1, <1>2 DEF ChainsAreLeast
  <1>5. n \in T /\ Closed(T)' /\ \A R \in SUBSET Nodes : n \in R /\ Closed(R)' => T \subseteq R
    BY <1>1, <1>3 DEF ChainsAreLeast
  <1>6. Closed(S)'
    BY <1>2, <1>4 DEF Closed
  <1>7. T \subseteq S
    BY <1>4, <1>5, <1>6
  <1>8. Closed(T)
    BY <1>2, <1>5, <1>7 DEF Closed
  <1> QED
    BY <1>2, <1>3, <1>4, <1>5, <1>7, <1>8

(* Hanging w under q makes no cycle when w is not on the walk from q, and   *)
(* the walks that do not meet w at most get shorter.                        *)
Graft(w, q) ==
  \A m \in Nodes : parent'[m] \in IF m = w THEN {q} ELSE {parent[m], NoNode}

LEMMA GraftAcyclic ==
  ASSUME ParentOK, Acyclic, NEW w \in Nodes, NEW q \in Nodes,
         Graft(w, q), w \notin Chain(q)
  PROVE  Acyclic'
  <1> SUFFICES ASSUME NEW S \in SUBSET Nodes, S # {}, Closed(S)',
                      \A m \in S : parent'[m] # NoNode
               PROVE  FALSE
    BY DEF Acyclic
  <1>1. \A m \in S \ {w} : parent'[m] = parent[m] /\ parent'[m] \in S
    BY DEF Graft, Closed
  <1>2. CASE w \notin S
    <2>1. Closed(S)
      BY <1>1, <1>2 DEF Closed
    <2> QED
      BY <1>1, <1>2, <2>1 DEF Acyclic
  <1>3. CASE w \in S
    <2>1. q \in S
      BY <1>3, NodeTreeAssumption DEF Graft, Closed
    <2>2. ChainsAreLeast
      BY ChainClosure
    <2>3. PICK T \in SUBSET Nodes : T = S \cap Chain(q)
      BY <2>2
    <2>4. Closed(T)
      BY <1>1, <2>2, <2>3 DEF Closed, ChainsAreLeast
    <2>5. q \in T
      BY <2>1, <2>2, <2>3 DEF ChainsAreLeast
    <2>6. \A m \in T : parent[m] # NoNode
      BY <1>1, <2>3
    <2> QED
      BY <2>4, <2>5, <2>6 DEF Acyclic
  <1> QED
    BY <1>2, <1>3

LEMMA GraftShortens ==
  ASSUME ParentOK, Acyclic, ParentOK', Acyclic', NEW w \in Nodes, NEW q \in Nodes,
         Graft(w, q), NEW n \in Nodes, w \notin Chain(n)
  PROVE  Chain(n)' \subseteq Chain(n)
  <1>1. ChainsAreLeast /\ ChainsAreLeast'
    BY ChainClosure, ChainClosureNext
  <1>2. PICK S \in SUBSET Nodes : S = Chain(n)
    BY <1>1 DEF ChainsAreLeast
  <1>3. n \in S /\ Closed(S) /\ w \notin S
    BY <1>1, <1>2 DEF ChainsAreLeast
  <1>4. Closed(S)'
    BY <1>3 DEF Graft, Closed
  <1>5. \A R \in SUBSET Nodes : n \in R /\ Closed(R)' => Chain(n)' \subseteq R
    BY <1>1 DEF ChainsAreLeast
  <1> QED
    BY <1>2, <1>3, <1>4, <1>5

(* A directory is not below its own entries.                                *)
LEMMA ChildNotAbove ==
  ASSUME ParentOK, Acyclic, NEW c \in Nodes, NEW q \in Nodes, parent[c] = q
  PROVE  c \notin Chain(q)
  <1> SUFFICES ASSUME c \in Chain(q)
               PROVE  FALSE
    OBVIOUS
  <1>1. ChainsAreLeast
    BY ChainClosure
  <1>2. PICK S \in SUBSET Nodes : S = {m \in Nodes : c \in Chain(m)}
    OBVIOUS
  <1>3. ASSUME NEW m \in S
        PROVE  /\ parent[m] # NoNode => parent[m] \in S
               /\ parent[m] # NoNode
    <2>1. Chain(m) = {m} \cup IF parent[m] = NoNode THEN {} ELSE Chain(parent[m])
      BY WalkStep DEF Chain
    <2>2. CASE m = c
      BY <1>2, <2>2, NodeTreeAssumption
    <2>3. CASE m # c
      BY <1>2, <2>1, <2>3 DEF ParentOK
    <2> QED
      BY <2>2, <2>3
  <1>4. Closed(S) /\ c \in S
    BY <1>1, <1>2, <1>3 DEF Closed, ChainsAreLeast
  <1> QED
    BY <1>3, <1>4 DEF Acyclic

ChildrenBelow == \A c, q \in Nodes : parent[c] = q => c \notin Walk[q]

LEMMA TreeChildrenBelow == ParentOK /\ Acyclic => ChildrenBelow
  BY ChildNotAbove DEF ChildrenBelow, Chain

LEMMA ChildrenBelowNext == ParentOK' /\ Acyclic' => ChildrenBelow'
  BY TreeChildrenBelow, PTL

(* Nodes move, and each leaves a directory that is looked up and that no    *)
(* move affects: whatever was alive still is.                               *)
LEMMA AliveAfterMove ==
  ASSUME ParentOK, Acyclic, ParentOK', Acyclic', NEW M \in SUBSET Nodes,
         \A m \in Nodes \ M : parent'[m] = parent[m],
         \A m \in M : parent[m] # NoNode =>
           nlookup[parent[m]] > 0 /\ Chain(parent[m]) \cap M = {},
         \A m \in Nodes : nlookup[m] > 0 => nlookup'[m] > 0,
         NEW n \in Nodes, Alive(n)
  PROVE  Alive(n)'
  <1>1. ChainsAreLeast /\ ChainsAreLeast'
    BY ChainClosure, ChainClosureNext
  <1>2. PICK x \in Nodes : nlookup[x] > 0 /\ n \in Chain(x)
    BY DEF Alive, AliveUnder
  <1> DEFINE Left == {m \in M : parent[m] # NoNode}
  <1>3. PICK T \in SUBSET Nodes :
          T = {y \in Nodes : y \in Chain(x)' \/ \E m \in Left : y \in Chain(parent[m])}
    OBVIOUS
  <1>4. Closed(T)
    <2> SUFFICES ASSUME NEW y \in T, parent[y] # NoNode
                 PROVE  parent[y] \in T
      BY DEF Closed
    <2>1. ASSUME NEW m \in Left, y \in Chain(parent[m])
          PROVE  parent[y] \in T
      BY <1>1, <1>3, <2>1 DEF ChainsAreLeast, Closed, ParentOK
    <2>2. CASE y \in Chain(x)' /\ y \in M
      <3>1. parent[y] \in Nodes /\ y \in Left
        BY <2>2 DEF ParentOK
      <3>2. parent[y] \in Chain(parent[y])
        BY <1>1, <3>1 DEF ChainsAreLeast
      <3> QED
        BY <1>3, <3>1, <3>2
    <2>3. CASE y \in Chain(x)' /\ y \notin M
      <3>1. parent'[y] \in Chain(x)'
        BY <1>1, <2>3 DEF ChainsAreLeast, Closed
      <3>2. parent'[y] = parent[y] /\ parent[y] \in Nodes
        BY <2>3 DEF ParentOK
      <3> QED
        BY <1>3, <3>1, <3>2
    <2> QED
      BY <1>3, <2>1, <2>2, <2>3
  <1>5. n \in T
    BY <1>1, <1>2, <1>3, <1>4 DEF ChainsAreLeast
  <1>6. CASE n \in Chain(x)'
    BY <1>2, <1>6 DEF Alive, AliveUnder
  <1>7. ASSUME NEW m \in Left, n \in Chain(parent[m])
        PROVE  Alive(n)'
    <2>1. PICK q \in Nodes : q = parent[m]
      BY DEF ParentOK
    <2>2. \A y \in Chain(q) : parent'[y] = parent[y]
      BY <1>1, <2>1 DEF ChainsAreLeast
    <2>3. Chain(q)' = Chain(q)
      BY <2>2, ChainStays
    <2> QED
      BY <1>7, <2>1, <2>3 DEF Alive, AliveUnder
  <1> QED
    BY <1>3, <1>5, <1>6, <1>7

-----------------------------------------------------------------------------
(* What every operation keeps.                                              *)

(* Dead nodes hang nowhere, and a directory has one node per name.          *)
TreeOK ==
  /\ nlookup[Root] > 0 /\ parent[Root] = NoNode
  /\ \A n \in Nodes : parent[n] # NoNode => Alive(n) /\ name[n] \in Names \cup {n}
  /\ \A m, n \in Nodes :
       parent[m] # NoNode /\ parent[m] = parent[n] /\ name[m] = name[n] => m = n

(* lookup_node.                                                             *)
LEMMA LookupNodeType ==
  ASSUME NEW p, NEW nm
  PROVE  /\ LookupNode(p, nm) \in Nodes \cup {NoNode}
         /\ LookupNode(p, nm) \in Nodes => IsChild(LookupNode(p, nm), p, nm)
         /\ LookupNode(p, nm) = NoNode => \A c \in Nodes : ~IsChild(c, p, nm)
  BY NodeTreeAssumption DEF LookupNode

LEMMA OneNodePerEntry ==
  ASSUME TreeOK, NEW p \in Nodes, NEW nm, NEW c \in Nodes, IsChild(c, p, nm)
  PROVE  c = LookupNode(p, nm)
  <1>1. LookupNode(p, nm) \in Nodes /\ IsChild(LookupNode(p, nm), p, nm)
    BY NodeTreeAssumption DEF LookupNode
  <1> QED
    BY <1>1, NodeTreeAssumption DEF TreeOK, IsChild

LEMMA SameTree ==
  ASSUME UNCHANGED treeVars, Acyclic, TreeOK
  PROVE  /\ Acyclic' /\ TreeOK'
         /\ \A n \in Nodes : Chain(n)' = Chain(n)
         /\ \A c, p, nm : IsChild(c, p, nm)' <=> IsChild(c, p, nm)
  <1>1. parent' = parent /\ name' = name /\ nlookup' = nlookup
    BY DEF treeVars
  <1>2. \A n \in Nodes : Chain(n)' = Chain(n)
    BY <1>1 DEF Chain, Walk
  <1>3. \A n \in Nodes : Alive(n)' <=> Alive(n)
    BY <1>1, <1>2 DEF Alive, AliveUnder
  <1>4. Acyclic'
    BY <1>1 DEF Acyclic, Closed
  <1>5. TreeOK'
    BY <1>1, <1>3 DEF TreeOK
  <1> QED
    BY <1>1, <1>2, <1>4, <1>5 DEF IsChild


-----------------------------------------------------------------------------
(* The operations.  Each keeps the tree a tree; Keeps(P) says what else     *)
(* holds of it when it only adds entries to the directories of P.           *)
Keeps(P) ==
  /\ TreeTypeOK' /\ Acyclic' /\ TreeOK'
  /\ \A n \in Nodes : nlookup'[n] >= nlookup[n]
  /\ \A c \in Nodes, q \in Nodes \ P, nm \in Names :
       parent'[c] = q /\ name'[c] = nm => IsChild(c, q, nm)

Shortens == \A n \in Nodes : nlookup[n] > 0 => Walk'[n] \subseteq Walk[n]

LEMMA UnusedFacts ==
  ASSUME TreeTypeOK, Acyclic, TreeOK, NEW c \in Unused
  PROVE  /\ c \in Nodes \ {Root} /\ parent[c] = NoNode
         /\ \A n \in Nodes : nlookup[n] > 0 => c \notin Chain(n)
  <1>1. ChainsAreLeast
    BY ChainClosure DEF TreeTypeOK, ParentOK
  <1>2. Alive(Root)
    BY <1>1, NodeTreeAssumption DEF ChainsAreLeast, TreeOK, Alive, AliveUnder
  <1> QED
    BY <1>2 DEF Unused, TreeOK, Alive, AliveUnder

LEMMA FindNodeKeeps ==
  ASSUME TreeTypeOK, Acyclic, TreeOK, NEW p \in Nodes, NEW nm \in Names,
         nlookup[p] > 0, FindNode(p, nm)
  PROVE  Keeps({p}) /\ Shortens
  <1>1. PICK c \in Nodes :
          /\ \/ c = LookupNode(p, nm) /\ IsChild(c, p, nm)
             \/ c \in Unused /\ LookupNode(p, nm) = NoNode
          /\ nlookup' = [nlookup EXCEPT ![c] = @ + 1]
          /\ parent' = [parent EXCEPT ![c] = p]
          /\ name' = [name EXCEPT ![c] = nm]
    BY LookupNodeType, NodeTreeAssumption DEF FindNode, Unused
  <1>2. TreeTypeOK' /\ \A n \in Nodes : nlookup'[n] >= nlookup[n]
    BY <1>1 DEF TreeTypeOK
  <1>3. \A d \in Nodes, q \in Nodes \ {p} : parent'[d] = q => parent[d] = q /\ name'[d] = name[d]
    BY <1>1 DEF TreeTypeOK
  <1>4. ParentOK /\ ParentOK' /\ ChainsAreLeast
    BY <1>2, ChainClosure DEF TreeTypeOK, ParentOK
  <1>5. CASE c = LookupNode(p, nm) /\ IsChild(c, p, nm)
    <2>1. parent' = parent /\ name' = name
      BY <1>1, <1>5 DEF IsChild, TreeTypeOK
    <2>2. Walk' = Walk /\ Acyclic'
      BY <2>1 DEF Walk, Acyclic, Closed
    <2>3. \A n \in Nodes : Alive(n) => Alive(n)'
      BY <1>2, <2>2 DEF Alive, AliveUnder, Chain, TreeTypeOK
    <2>4. TreeOK'
      BY <1>1, <2>1, <2>3 DEF TreeOK, TreeTypeOK
    <2> QED
      BY <1>2, <1>3, <2>2, <2>4 DEF Keeps, IsChild, Shortens
  <1>6. CASE c \in Unused /\ LookupNode(p, nm) = NoNode
    <2>1. /\ c # Root /\ parent[c] = NoNode
          /\ \A n \in Nodes : nlookup[n] > 0 => c \notin Chain(n)
      BY <1>6, UnusedFacts
    <2>2. Graft(c, p)
      BY <1>1 DEF Graft, TreeTypeOK
    <2>3. Acyclic'
      BY <1>4, <2>1, <2>2, GraftAcyclic
    <2>4. ChainsAreLeast'
      BY <1>4, <2>3, ChainClosureNext
    <2>5. ASSUME NEW n \in Nodes, nlookup[n] > 0
          PROVE  Walk'[n] = Walk[n]
      <3>1. \A m \in Chain(n) : parent'[m] = parent[m]
        BY <1>1, <1>4, <2>1, <2>5 DEF ChainsAreLeast, TreeTypeOK
      <3>2. Chain(n)' = Chain(n)
        BY <1>4, <2>3, <3>1, ChainStays
      <3> QED
        BY <3>2 DEF Chain
    <2>6. \A n \in Nodes : Alive(n) => Alive(n)'
      BY <1>2, <2>5 DEF Alive, AliveUnder, Chain, TreeTypeOK
    <2>7. Alive(c)'
      <3>1. c \in Walk'[c]
        BY <2>4 DEF ChainsAreLeast, Chain
      <3>2. nlookup'[c] > 0
        BY <1>1 DEF TreeTypeOK
      <3> QED
        BY <3>1, <3>2 DEF Alive, AliveUnder, Chain
    <2>8. nlookup'[Root] > 0 /\ parent'[Root] = NoNode
      BY <1>1, <2>1, NodeTreeAssumption DEF TreeOK, TreeTypeOK
    <2>9. ASSUME NEW n \in Nodes, parent'[n] # NoNode
          PROVE  Alive(n)' /\ name'[n] \in Names \cup {n}
      BY <1>1, <2>6, <2>7, <2>9 DEF TreeOK, TreeTypeOK
    <2>10. \A d \in Nodes : ~IsChild(d, p, nm)
      BY <1>6, LookupNodeType
    <2>11. ASSUME NEW m \in Nodes, NEW n \in Nodes,
                  parent'[m] # NoNode, parent'[m] = parent'[n], name'[m] = name'[n]
           PROVE  m = n
      BY <1>1, <2>10, <2>11 DEF TreeOK, TreeTypeOK, IsChild
    <2>12. TreeOK'
      BY <2>8, <2>9, <2>11 DEF TreeOK
    <2> QED
      BY <1>2, <1>3, <2>3, <2>5, <2>12 DEF Keeps, IsChild, Shortens
  <1> QED
    BY <1>1, <1>5, <1>6

LEMMA RemoveNodeKeeps ==
  ASSUME TreeTypeOK, Acyclic, TreeOK, NEW p \in Nodes, NEW nm \in Names,
         nlookup[p] > 0, RemoveNode(p, nm)
  PROVE  Keeps({}) /\ Shortens
  <1>1. PICK c \in Nodes \cup {NoNode} :
          /\ c \in Nodes => parent[c] = p
          /\ parent' = [m \in Nodes |-> IF m = c THEN NoNode ELSE parent[m]]
          /\ name' = [m \in Nodes |-> IF m = c THEN NoName ELSE name[m]]
          /\ nlookup' = nlookup
    BY LookupNodeType DEF RemoveNode, IsChild
  <1>2. TreeTypeOK' /\ \A n \in Nodes : nlookup'[n] >= nlookup[n]
    BY <1>1 DEF TreeTypeOK
  <1>3. ParentOK /\ ParentOK' /\ OnlyCut /\ ChainsAreLeast
    BY <1>1, <1>2, ChainClosure DEF TreeTypeOK, ParentOK, OnlyCut
  <1>4. Acyclic' /\ \A n \in Nodes : Walk'[n] \subseteq Walk[n]
    BY <1>3, CutAcyclic, CutShortens DEF Chain
  <1>5. ASSUME NEW n \in Nodes, Alive(n)
        PROVE  Alive(n)'
    <2>1. PICK M \in SUBSET Nodes : M = {c} \cap Nodes
      OBVIOUS
    <2>2. \A m \in M : parent[m] = p /\ Chain(p) \cap M = {}
      BY <1>1, <1>3, <2>1, ChildNotAbove
    <2>3. \A m \in Nodes \ M : parent'[m] = parent[m]
      BY <1>1, <2>1
    <2>4. \A m \in M : parent[m] # NoNode =>
            nlookup[parent[m]] > 0 /\ Chain(parent[m]) \cap M = {}
      BY <2>2
    <2>5. \A m \in Nodes : nlookup[m] > 0 => nlookup'[m] > 0
      BY <1>1
    <2> QED
      BY <1>3, <1>4, <1>5, <2>3, <2>4, <2>5, AliveAfterMove
  <1>6. TreeOK'
    BY <1>1, <1>5, NodeTreeAssumption DEF TreeOK, TreeTypeOK
  <1>7. \A d \in Nodes, q \in Nodes :
          parent'[d] = q => parent[d] = q /\ name'[d] = name[d]
    BY <1>1, NodeTreeAssumption
  <1> QED
    BY <1>2, <1>4, <1>6, <1>7 DEF Keeps, IsChild, Shortens

LEMMA HideNodeKeeps ==
  ASSUME TreeTypeOK, Acyclic, TreeOK, NEW p \in Nodes, NEW nm \in Names, HideNode(p, nm)
  PROVE  Keeps({}) /\ Shortens
  <1>1. PICK c \in Nodes : /\ name' = [name EXCEPT ![c] = c]
                           /\ parent' = parent /\ nlookup' = nlookup
    BY LookupNodeType DEF HideNode, HiddenName
  <1>2. TreeTypeOK' /\ \A n \in Nodes : nlookup'[n] >= nlookup[n]
    BY <1>1 DEF TreeTypeOK
  <1>3. Walk' = Walk /\ Acyclic'
    BY <1>1 DEF Walk, Acyclic, Closed
  <1>4. \A n \in Nodes : Alive(n)' <=> Alive(n)
    BY <1>1, <1>3 DEF Alive, AliveUnder, Chain
  <1>5. \A n \in Nodes : name'[n] = name[n] \/ (n = c /\ name'[n] = n)
    BY <1>1 DEF TreeTypeOK
  <1>6. TreeOK'
    BY <1>1, <1>4, <1>5, NodeTreeAssumption DEF TreeOK
  <1> QED
    BY <1>1, <1>2, <1>3, <1>5, <1>6, NodeTreeAssumption DEF Keeps, IsChild, Shortens

(* A rename moves the node w of the old entry below p2, unless there is     *)
(* none, and takes the node v of the new entry away.                        *)
LEMMA RenameNodeKeeps ==
  ASSUME TreeTypeOK, Acyclic, TreeOK, NEW p1 \in Nodes, NEW nm1 \in Names,
         NEW p2 \in Nodes, NEW nm2 \in Names, nlookup[p1] > 0, nlookup[p2] > 0,
         \A c \in Nodes : /\ IsChild(c, p1, nm1) => c \notin Chain(p2)
                          /\ IsChild(c, p2, nm2) => c \notin Chain(p1),
         RenameNode(p1, nm1, p2, nm2)
  PROVE  Keeps({p2}) /\ (p1 = p2 => Shortens)
  <1> DEFINE w == LookupNode(p1, nm1)
             u == LookupNode(p2, nm2)
             v == IF w = NoNode THEN NoNode ELSE u
  <1>1. /\ w \in Nodes \cup {NoNode} /\ v \in Nodes \cup {NoNode}
        /\ w \in Nodes => IsChild(w, p1, nm1)
        /\ v \in Nodes => IsChild(v, p2, nm2)
    BY LookupNodeType
  <1>2. w \in Nodes => \A d \in Nodes : IsChild(d, p2, nm2) => d = v
    BY OneNodePerEntry, NodeTreeAssumption
  <1>3. /\ parent' = [m \in Nodes |-> CASE m = w -> p2
                                        [] m = v /\ m # w -> NoNode
                                        [] OTHER -> parent[m]]
        /\ name' = [m \in Nodes |-> CASE m = w -> nm2
                                      [] m = v /\ m # w -> NoName
                                      [] OTHER -> name[m]]
        /\ nlookup' = nlookup
    BY DEF RenameNode
  <1> HIDE DEF w, v
  <1>4. TreeTypeOK' /\ \A n \in Nodes : nlookup'[n] >= nlookup[n]
    BY <1>3 DEF TreeTypeOK
  <1>5. ParentOK /\ ParentOK' /\ ChainsAreLeast
    BY <1>4, ChainClosure DEF TreeTypeOK, ParentOK
  <1>6. \A m \in Nodes : parent'[m] \in IF m = w THEN {p2} ELSE {parent[m], NoNode}
    BY <1>3
  <1>7. Acyclic' /\ (p1 = p2 => Shortens)
    <2>1. CASE w = NoNode \/ p1 = p2
      <3>1. OnlyCut
        BY <1>1, <1>6, <2>1, NodeTreeAssumption DEF OnlyCut, IsChild
      <3> QED
        BY <1>5, <3>1, CutAcyclic, CutShortens DEF Shortens, Chain
    <2>2. CASE w # NoNode /\ p1 # p2
      <3>1. w \in Nodes /\ w \notin Chain(p2)
        BY <1>1, <2>2
      <3>2. Graft(w, p2)
        BY <1>6 DEF Graft
      <3> QED
        BY <1>5, <2>2, <3>1, <3>2, GraftAcyclic
    <2> QED
      BY <2>1, <2>2
  <1>8. ASSUME NEW n \in Nodes, Alive(n)
        PROVE  Alive(n)'
    <2>1. PICK M \in SUBSET Nodes : M = {w, v} \cap Nodes
      OBVIOUS
    <2>2. w \in Nodes => parent[w] = p1 /\ w \notin Chain(p1) /\ w \notin Chain(p2)
      BY <1>1, <1>5, ChildNotAbove DEF IsChild
    <2>3. v \in Nodes => parent[v] = p2 /\ v \notin Chain(p1) /\ v \notin Chain(p2)
      BY <1>1, <1>5, ChildNotAbove DEF IsChild
    <2>4. \A m \in M : nlookup[parent[m]] > 0 /\ Chain(parent[m]) \cap M = {}
      BY <2>1, <2>2, <2>3
    <2>5. \A m \in Nodes \ M : parent'[m] = parent[m]
      BY <1>3, <2>1
    <2>6. \A m \in Nodes : nlookup[m] > 0 => nlookup'[m] > 0
      BY <1>3
    <2> QED
      BY <1>5, <1>7, <1>8, <2>4, <2>5, <2>6, AliveAfterMove
  <1>9. nlookup'[Root] > 0 /\ parent'[Root] = NoNode
    BY <1>1, <1>3, NodeTreeAssumption DEF TreeOK, IsChild
  <1>10. ASSUME NEW n \in Nodes, parent'[n] # NoNode
         PROVE  Alive(n)' /\ name'[n] \in Names \cup {n}
    <2>1. parent[n] # NoNode
      BY <1>1, <1>3, <1>10, NodeTreeAssumption DEF IsChild
    <2> QED
      BY <1>3, <1>8, <1>10, <2>1 DEF TreeOK
  <1>11. ASSUME NEW m \in Nodes, NEW n \in Nodes,
                parent'[m] # NoNode, parent'[m] = parent'[n], name'[m] = name'[n]
         PROVE  m = n
    <2>1. ASSUME NEW k \in Nodes \ {w}, parent'[k] # NoNode
          PROVE  /\ parent'[k] = parent[k]
                 /\ name'[k] = name[k]
                 /\ w \in Nodes => ~(parent'[k] = p2 /\ name'[k] = nm2)
      BY <1>1, <1>2, <1>3, <2>1, NodeTreeAssumption DEF IsChild
    <2>2. name[m] \in Names \cup {m} \/ parent[m] = NoNode
      BY DEF TreeOK
    <2>3. name[n] \in Names \cup {n} \/ parent[n] = NoNode
      BY DEF TreeOK
    <2>4. CASE m = w /\ n # w
      BY <1>3, <1>11, <2>1, <2>4
    <2>5. CASE n = w /\ m # w
      BY <1>3, <1>11, <2>1, <2>5
    <2>6. CASE m # w /\ n # w
      BY <1>11, <2>1, <2>2, <2>3, <2>6, NodeTreeAssumption DEF TreeOK
    <2> QED
      BY <2>4, <2>5, <2>6
  <1>12. TreeOK'
    BY <1>9, <1>10, <1>11 DEF TreeOK
  <1>13. \A d \in Nodes, q \in Nodes \ {p2}, nm \in Names :
           parent'[d] = q /\ name'[d] = nm => parent[d] = q /\ name[d] = nm
    BY <1>3, NodeTreeAssumption
  <1> QED
    BY <1>4, <1>7, <1>12, <1>13 DEF Keeps, IsChild

LEMMA DropLookupsKeeps ==
  ASSUME TreeTypeOK, Acyclic, TreeOK, NEW n \in Nodes \ {Root}, NEW k \in Nat,
         k <= nlookup[n], DropLookups(n, k)
  PROVE  /\ TreeTypeOK' /\ Acyclic' /\ TreeOK'
         /\ nlookup' = [nlookup EXCEPT ![n] = @ - k]
         /\ \A nm : \A c, q \in Nodes :
              parent'[c] = q /\ name'[c] = nm => IsChild(c, q, nm)
         /\ \A m \in Nodes : Walk'[m] \subseteq Walk[m]
  <1> DEFINE doomed == Doomed(n, k)
             after == [nlookup EXCEPT ![n] = @ - k]
  <1>1. doomed = {m \in Path(n) : ~AliveUnder(after, m)}
    BY DEF Doomed
  <1>2. /\ nlookup' = after
        /\ parent' = [m \in Nodes |-> IF m \in doomed THEN NoNode ELSE parent[m]]
        /\ name' = [m \in Nodes |-> IF m \in doomed THEN NoName ELSE name[m]]
    BY DEF DropLookups
  <1>3. after \in [Nodes -> Nat] /\ (\A m \in Nodes \ {n} : after[m] = nlookup[m])
    BY DEF TreeTypeOK
  <1> HIDE DEF doomed, after
  <1>4. TreeTypeOK'
    BY <1>2, <1>3 DEF TreeTypeOK
  <1>5. ParentOK /\ ParentOK' /\ OnlyCut /\ ChainsAreLeast
    BY <1>2, <1>4, ChainClosure DEF TreeTypeOK, ParentOK, OnlyCut
  <1>6. Acyclic' /\ \A m \in Nodes : Walk'[m] \subseteq Walk[m]
    BY <1>5, CutAcyclic, CutShortens DEF Chain
  <1>7. ASSUME NEW y \in Nodes, after[y] > 0
        PROVE  Chain(y)' = Chain(y)
    <2>1. \A m \in Chain(y) : m \in Nodes /\ m \notin doomed
      BY <1>1, <1>5, <1>7 DEF AliveUnder, ChainsAreLeast
    <2>2. \A m \in Chain(y) : parent'[m] = parent[m]
      BY <1>2, <2>1
    <2> QED
      BY <1>5, <1>6, <2>2, ChainStays
  <1>8. ASSUME NEW m \in Nodes, parent'[m] # NoNode
        PROVE  Alive(m)'
    <2>1. m \notin doomed /\ parent[m] # NoNode /\ m # Root
      BY <1>2, <1>8 DEF TreeOK
    <2>2. PICK y \in Nodes : after[y] > 0 /\ m \in Chain(y)
      <3>1. PICK x \in Nodes : nlookup[x] > 0 /\ m \in Chain(x)
        BY <2>1 DEF TreeOK, Alive, AliveUnder
      <3>2. CASE x # n
        BY <1>3, <3>1, <3>2
      <3>3. CASE x = n
        BY <1>1, <2>1, <3>1, <3>3 DEF Path, AliveUnder
      <3> QED
        BY <3>2, <3>3
    <2>3. m \in Chain(y)'
      BY <1>7, <2>2
    <2> QED
      BY <1>2, <2>2, <2>3 DEF Alive, AliveUnder
  <1>9. \A m \in Nodes : parent'[m] # NoNode => parent'[m] = parent[m] /\ name'[m] = name[m]
    BY <1>2
  <1>10. TreeOK'
    <2>1. nlookup'[Root] > 0 /\ parent'[Root] = NoNode
      BY <1>2, <1>3, NodeTreeAssumption DEF TreeOK
    <2> QED
      BY <1>8, <1>9, <2>1 DEF TreeOK
  <1>11. \A nm : \A c, q \in Nodes :
           parent'[c] = q /\ name'[c] = nm => IsChild(c, q, nm)
    BY <1>9, NodeTreeAssumption DEF IsChild
  <1> QED
    BY <1>2, <1>4, <1>6, <1>10, <1>11 DEF after

-----------------------------------------------------------------------------
(* The inductive invariant.                                                 *)

(* A thread serves a request exactly while it is not idle, and the request  *)
(* names what its kind needs.                                               *)
WellFormed(r) ==
  /\ r \in Request
  /\ r.op # "none" => r.ino1 \in Nodes
  /\ r.op \in NameOps \cup {"rename"} => r.name1 \in Names
  /\ r.op \in PathPairOps => r.ino2 \in Nodes /\ r.name2 \in Names
  /\ r.op \notin PathPairOps => r.ino2 = NoNode

RequestsOK ==
  \A t \in Threads : /\ WellFormed(req[t])
                     /\ pc[t] = "idle" <=> req[t].op = "none"
                     /\ req[t].op = "forget" => pc[t] = "waiting"

(* Only threads that wait are queued, each of them once.                    *)
QueueOK ==
  /\ \A i \in DOMAIN lockq : pc[lockq[i]] = "waiting"
  /\ \A i, j \in DOMAIN lockq : lockq[i] = lockq[j] => i = j

(* A pending forget gives back no more lookups than the node has, and there *)
(* is one per node.                                                         *)
ForgetsOK ==
  \A t \in Threads :
    req[t].op = "forget" =>
      /\ req[t].ino1 # Root
      /\ req[t].count <= nlookup[req[t].ino1]
      /\ \A u \in Threads : req[u].op = "forget" /\ req[u].ino1 = req[t].ino1 => u = t

(* Until a request is answered, the kernel keeps the nodes it names.        *)
PinsOK ==
  \A t \in Unanswered :
    req[t].op # "forget" =>
      \A n \in {req[t].ino1, req[t].ino2} \ {NoNode} : KernelKnows(n)

(* Of two unanswered requests at most one may change a directory, and at    *)
(* most one moves an entry from one directory to another.                   *)
Changes(r) ==
  CASE r.op \in {"lookup", "create", "unlink"} -> {r.ino1}
    [] r.op = "rename" -> {r.ino1, r.ino2}
    [] r.op = "link" -> {r.ino2}
    [] OTHER -> {}

DirsOK ==
  \A t, u \in Unanswered :
    t # u => /\ Changes(req[t]) \cap Changes(req[u]) = {}
             /\ ~(CrossRename(req[t]) /\ CrossRename(req[u]))

(* What a rename that has not happened yet will move does not lie above     *)
(* where it goes, and what it replaces does not lie above what it moves.    *)
Separated(r) ==
  \A c \in Nodes : /\ IsChild(c, r.ino1, r.name1) => c \notin Chain(r.ino2)
                   /\ IsChild(c, r.ino2, r.name2) => c \notin Chain(r.ino1)

RenamesOK ==
  \A t \in Threads :
    req[t].op = "rename" /\ pc[t] \in {"waiting", "locked"} => Separated(req[t])

TreeInv == /\ TypeOK /\ RequestsOK /\ QueueOK /\ ForgetsOK
           /\ Acyclic /\ TreeOK /\ PinsOK /\ DirsOK /\ RenamesOK

-----------------------------------------------------------------------------
(* The types of what the operators return.                                  *)

LEMMA RemoveAtFacts ==
  ASSUME NEW s \in Seq(Threads), NEW i \in DOMAIN s
  PROVE  /\ RemoveAt(s, i) \in Seq(Threads)
         /\ Len(RemoveAt(s, i)) = Len(s) - 1
         /\ \A j \in 1..(Len(s) - 1) : RemoveAt(s, i)[j] = IF j < i THEN s[j] ELSE s[j + 1]
  <1> DEFINE a == SubSeq(s, 1, i - 1)
             b == SubSeq(s, i + 1, Len(s))
  <1>1. i \in 1..Len(s) /\ Len(s) \in Nat
    OBVIOUS
  <1>2. /\ a \in Seq(Threads) /\ Len(a) = i - 1
        /\ \A j \in 1..(i - 1) : a[j] = s[j]
    BY <1>1
  <1>3. /\ b \in Seq(Threads) /\ Len(b) = Len(s) - i
        /\ \A j \in 1..(Len(s) - i) : b[j] = s[i + j]
    BY <1>1
  <1>4. RemoveAt(s, i) = a \o b
    BY <1>1 DEF RemoveAt
  <1> HIDE DEF a, b
  <1>5. /\ a \o b \in Seq(Threads) /\ Len(a \o b) = Len(a) + Len(b)
        /\ \A j \in 1..(Len(a) + Len(b)) : (a \o b)[j] = IF j <= Len(a) THEN a[j] ELSE b[j - Len(a)]
    BY <1>2, <1>3
  <1>6. ASSUME NEW j \in 1..(Len(s) - 1)
        PROVE  (a \o b)[j] = IF j < i THEN s[j] ELSE s[j + 1]
    <2>1. CASE j < i
      <3>1. j \in 1..(i - 1) /\ j \in 1..(Len(a) + Len(b)) /\ j <= Len(a)
        BY <1>1, <1>2, <1>3, <2>1
      <3>2. (a \o b)[j] = a[j]
        BY <1>5, <3>1
      <3> QED
        BY <1>2, <2>1, <3>1, <3>2
    <2>2. CASE ~(j < i)
      <3>1. j \in Int /\ i \in Int /\ Len(s) \in Int /\ j >= i /\ j <= Len(s) - 1
        BY <1>1, <2>2
      <3>2. j - (i - 1) \in 1..(Len(s) - i) /\ i + (j - (i - 1)) = j + 1 /\ ~(j <= i - 1)
        BY <3>1
      <3>3. j \in 1..(Len(a) + Len(b))
        BY <1>2, <1>3, <3>1
      <3>4. (a \o b)[j] = b[j - (i - 1)]
        BY <1>2, <1>5, <3>2, <3>3
      <3> QED
        BY <1>3, <2>2, <3>2, <3>4
    <2> QED
      BY <2>1, <2>2
  <1>7. Len(a) + Len(b) = Len(s) - 1
    BY <1>1, <1>2, <1>3
  <1>8. PICK r : /\ r = a \o b /\ r \in Seq(Threads) /\ Len(r) = Len(s) - 1
                 /\ \A j \in 1..(Len(s) - 1) : r[j] = IF j < i THEN s[j] ELSE s[j + 1]
    BY <1>5, <1>6, <1>7
  <1> QED
    BY <1>4, <1>8

LEMMA PathNamesType ==
  ASSUME TypeOK, Acyclic, NEW n \in Nodes
  PROVE  PathNames(n) \in PathStrings
  <1>1. ParentOK
    BY DEF TypeOK, TreeTypeOK, ParentOK
  <1>2. Path(n) \in SUBSET Nodes
    BY <1>1, ChainClosure DEF ChainsAreLeast, Path
  <1>3. PathNames(n) \in [Path(n) -> Names \cup Nodes \cup {NoName}]
    BY <1>2 DEF PathNames, TypeOK, TreeTypeOK
  <1> QED
    BY <1>2, <1>3 DEF PathStrings

(* What a thread may keep of the outcome of a path.                         *)
OutcomeOK(o) == o.w \in Nodes \cup {NoNode} /\ o.p \in PathStrings

TableOK(tl) == tl \in [Nodes -> Int]

LEMMA NoPathType == NoPath \in PathStrings
  <1>1. NoPath \in [{} -> Names \cup Nodes \cup {NoName}]
    BY DEF NoPath
  <1> QED
    BY <1>1 DEF PathStrings

LEMMA TryGetPathType ==
  ASSUME TypeOK, Acyclic, NEW tl, TableOK(tl), NEW n \in Nodes, NEW nm, NEW write,
         NEW o \in TryGetPath(tl, n, nm, write)
  PROVE  /\ TableOK(o.tl) /\ OutcomeOK(o)
         /\ o.err \in {"ok", "EAGAIN", "ENOENT", "ENOMEM"}
  <1> DEFINE w == IF write THEN LookupNode(n, nm) ELSE NoNode
  <1>1. w \in Nodes \cup {NoNode}
    BY LookupNodeType
  <1>2. TableOK(Announce(tl, w))
    <2>1. CASE w = NoNode
      BY <2>1, NodeTreeAssumption DEF TableOK, Announce
    <2>2. CASE w \in Nodes
      <3>1. (IF tl[w] > 0 THEN tl[w] + WaitOffset ELSE tl[w]) \in Int
        BY <2>2, PathLockAssumption DEF TableOK
      <3> HIDE DEF w
      <3> QED
        BY <3>1 DEF TableOK, Announce
    <2> QED
      BY <1>1, <2>1, <2>2
  <1>3. TableOK(LockPath(tl, n, w))
    BY DEF TableOK, LockPath, TREELOCK_WRITE
  <1>4. PathNames(n) \in PathStrings /\ NoPath \in PathStrings
    BY PathNamesType, NoPathType
  <1> HIDE DEF w
  <1>5. \/ o = Failure("EAGAIN", Announce(tl, w)) \/ o = Failure("EAGAIN", tl)
        \/ o = Failure("ENOENT", tl)
        \/ o = [err |-> "ok", tl |-> LockPath(tl, n, w), w |-> w, p |-> PathNames(n)]
    BY DEF TryGetPath, w
  <1> QED
    BY <1>1, <1>2, <1>3, <1>4, <1>5 DEF Failure, OutcomeOK

LEMMA UndoType ==
  ASSUME NEW tl, TableOK(tl), NEW r, NEW i, NEW o
  PROVE  TableOK(Undo(tl, r, i, o))
  <1>1. \A k \in Int : Dec(k) \in Int
    BY DEF Dec
  <1>2. TableOK(UnlockPath(tl, Ino(r, i), o.w))
    BY <1>1 DEF TableOK, UnlockPath
  <1> QED
    BY <1>2 DEF Undo

(* The variables of the lock, with their types.                             *)
LocksOK ==
  /\ TableOK(treelock)
  /\ hold \in [Handles -> BOOLEAN]
  /\ wnode \in [Handles -> Nodes \cup {NoNode}]
  /\ path \in [Handles -> PathStrings]
  /\ done \in [Threads -> BOOLEAN]
  /\ err \in [Threads -> {"ok", "ENOENT", "ENOMEM"}]

HandlesOK ==
  /\ hold \in [Handles -> BOOLEAN]
  /\ wnode \in [Handles -> Nodes \cup {NoNode}]
  /\ path \in [Handles -> PathStrings]

LEMMA SetHandlesType ==
  ASSUME HandlesOK, NEW t \in Threads, NEW o1, NEW o2,
         OutcomeOK(o1), OutcomeOK(o2), SetHandles(t, o1, o2)
  PROVE  HandlesOK'
  BY DEF HandlesOK, OutcomeOK, SetHandles

LEMMA HeldType ==
  ASSUME HandlesOK, NEW t \in Threads, NEW i \in {1, 2}
  PROVE  OutcomeOK(Held(t, i))
  <1>1. <<t, i>> \in Handles
    BY DEF Handles
  <1> QED
    BY <1>1 DEF HandlesOK, Held, OutcomeOK

LEMMA NotHeldType == OutcomeOK(NotHeld)
  BY NoPathType DEF OutcomeOK, NotHeld

LEMMA TryPathType ==
  ASSUME TypeOK, Acyclic, NEW tl, TableOK(tl), NEW r, NEW i, Ino(r, i) \in Nodes,
         NEW o \in TryPath(tl, r, i)
  PROVE  /\ TableOK(o.tl) /\ OutcomeOK(o)
         /\ o.err \in {"ok", "EAGAIN", "ENOENT", "ENOMEM"}
  <1>1. PICK n \in Nodes : n = Ino(r, i)
    OBVIOUS
  <1>2. PICK write : write = (r.op \in WriteOps)
    OBVIOUS
  <1>3. o \in TryGetPath(tl, n, Entry(r, i), write) \/ o = Failure("ENOMEM", tl)
    BY <1>1, <1>2 DEF TryPath
  <1>4. CASE o \in TryGetPath(tl, n, Entry(r, i), write)
    BY <1>4, TryGetPathType
  <1>5. CASE o = Failure("ENOMEM", tl)
    BY <1>5, NoPathType DEF Failure, OutcomeOK
  <1> QED
    BY <1>3, <1>4, <1>5

(* The three ends of get_path and get_path2, and the types they keep.       *)
Queued(t, r) ==
  /\ lockq' = Append(lockq, t)
  /\ pc' = [pc EXCEPT ![t] = "waiting"]
  /\ req' = [req EXCEPT ![t] = r]

Granted(t, r) ==
  /\ UNCHANGED lockq
  /\ pc' = [pc EXCEPT ![t] = "locked"]
  /\ req' = [req EXCEPT ![t] = r]

LEMMA QueuePathType ==
  ASSUME LocksOK, NEW t \in Threads, NEW r, NEW tl, TableOK(tl), QueuePath(t, r, tl)
  PROVE  LocksOK' /\ Queued(t, r)
  BY DEF LocksOK, QueuePath, Queued, TableOK

LEMMA GrantType ==
  ASSUME LocksOK, NEW t \in Threads, NEW r, NEW tl, TableOK(tl), NEW o1, NEW o2,
         OutcomeOK(o1), OutcomeOK(o2), Grant(t, r, o1, o2, tl)
  PROVE  LocksOK' /\ Granted(t, r)
  <1>1. HandlesOK'
    BY SetHandlesType DEF LocksOK, HandlesOK, Grant
  <1> QED
    BY <1>1 DEF LocksOK, HandlesOK, Grant, Granted, TableOK

LEMMA RefuseType ==
  ASSUME LocksOK, NEW t, NEW tl, TableOK(tl), Refuse(t, tl)
  PROVE  LocksOK' /\ UNCHANGED <<lockq, pc, req>>
  BY DEF LocksOK, Refuse, TableOK

LEMMA GetPathEffect ==
  ASSUME TypeOK, Acyclic, NEW t \in Threads, NEW r, r.ino1 \in Nodes,
         \/ GetPath(t, r)
         \/ r.ino2 \in Nodes /\ GetPath2(t, r)
  PROVE  /\ LocksOK'
         /\ UNCHANGED <<lockq, pc, req>> \/ Queued(t, r) \/ Granted(t, r)
  <1>1. LocksOK /\ TableOK(treelock)
    BY DEF TypeOK, LocksOK, TableOK
  <1>2. Ino(r, 1) \in Nodes
    BY DEF Ino
  <1>3. CASE GetPath(t, r)
    <2>1. PICK o1 \in TryPath(treelock, r, 1) :
            \/ Refuse(t, o1.tl)
            \/ QueuePath(t, r, o1.tl)
            \/ Grant(t, r, o1, NotHeld, o1.tl)
      BY <1>3 DEF GetPath
    <2>2. TableOK(o1.tl) /\ OutcomeOK(o1)
      BY <1>1, <1>2, TryPathType
    <2> QED
      BY <1>1, <2>1, <2>2, NotHeldType, RefuseType, QueuePathType, GrantType
  <1>4. CASE r.ino2 \in Nodes /\ GetPath2(t, r)
    <2>1. Ino(r, 2) \in Nodes
      BY <1>4 DEF Ino
    <2>2. PICK o1 \in TryPath(treelock, r, 1) :
            \/ Refuse(t, o1.tl)
            \/ QueuePath(t, r, o1.tl)
            \/ \E o2 \in TryPath(o1.tl, r, 2) :
                 \/ Refuse(t, Undo(o2.tl, r, 1, o1))
                 \/ QueuePath(t, r, Undo(o2.tl, r, 1, o1))
                 \/ Grant(t, r, o1, o2, o2.tl)
      BY <1>4 DEF GetPath2
    <2>3. TableOK(o1.tl) /\ OutcomeOK(o1)
      BY <1>1, <1>2, TryPathType
    <2>4. CASE Refuse(t, o1.tl) \/ QueuePath(t, r, o1.tl)
      BY <1>1, <2>3, <2>4, RefuseType, QueuePathType
    <2>5. ASSUME NEW o2 \in TryPath(o1.tl, r, 2),
                 \/ Refuse(t, Undo(o2.tl, r, 1, o1))
                 \/ QueuePath(t, r, Undo(o2.tl, r, 1, o1))
                 \/ Grant(t, r, o1, o2, o2.tl)
          PROVE  /\ LocksOK'
                 /\ UNCHANGED <<lockq, pc, req>> \/ Queued(t, r) \/ Granted(t, r)
      <3>1. TableOK(o2.tl) /\ OutcomeOK(o2)
        BY <2>1, <2>3, TryPathType
      <3>2. TableOK(Undo(o2.tl, r, 1, o1))
        BY <3>1, UndoType
      <3> QED
        BY <1>1, <2>3, <2>5, <3>1, <3>2, RefuseType, QueuePathType, GrantType
    <2> QED
      BY <2>2, <2>4, <2>5
  <1> QED
    BY <1>3, <1>4

(* What queue_element_wakeup does to an element that waits for its paths.   *)
LEMMA TryElementType ==
  ASSUME TypeOK, Acyclic, NEW tl, TableOK(tl), NEW t \in Threads, NEW i \in {1, 2},
         Ino(req[t], i) \in Nodes, NEW o \in TryElement(tl, t, i)
  PROVE  /\ TableOK(o.tl) /\ OutcomeOK(o)
         /\ o.err \in {"ok", "EAGAIN", "ENOENT", "ENOMEM"}
  <1>1. HandlesOK
    BY DEF TypeOK, HandlesOK
  <1>2. CASE hold[<<t, i>>]
    <2>1. o = [Held(t, i) EXCEPT !.tl = tl]
      BY <1>2 DEF TryElement
    <2>2. o.err = "ok" /\ o.tl = tl /\ o.w = Held(t, i).w /\ o.p = Held(t, i).p
      BY <1>2, <2>1 DEF Held
    <2> QED
      BY <1>1, <2>2, HeldType DEF OutcomeOK
  <1>3. CASE ~hold[<<t, i>>]
    BY <1>3, TryPathType DEF TryElement
  <1> QED
    BY <1>2, <1>3

LEMMA TrySecondType ==
  ASSUME TypeOK, Acyclic, NEW tl, TableOK(tl), NEW t \in Threads,
         req[t].ino2 \in Nodes \cup {NoNode}, NEW o \in TrySecond(tl, t)
  PROVE  /\ TableOK(o.tl) /\ OutcomeOK(o)
         /\ o.err \in {"ok", "EAGAIN", "ENOENT", "ENOMEM", "none"}
  <1>1. CASE HasSecond(req[t])
    <2>1. Ino(req[t], 2) \in Nodes /\ o \in TryElement(tl, t, 2)
      BY <1>1 DEF HasSecond, Ino, TrySecond
    <2> QED
      BY <2>1, TryElementType
  <1>2. CASE ~HasSecond(req[t])
    <2>1. o = [NotHeld EXCEPT !.tl = tl]
      BY <1>2 DEF TrySecond
    <2> QED
      BY <2>1, NotHeldType DEF NotHeld, OutcomeOK
  <1> QED
    BY <1>1, <1>2

LEMMA GiveUpType ==
  ASSUME LocksOK, NEW t \in Threads, NEW o1, NEW o2, NEW tl, TableOK(tl),
         NEW e \in {"ENOENT", "ENOMEM"}, GiveUp(t, o1, o2, tl, e)
  PROVE  LocksOK'
  <1>1. HandlesOK'
    BY NotHeldType, SetHandlesType DEF LocksOK, HandlesOK, GiveUp
  <1>2. TableOK(treelock')
    BY UndoType DEF GiveUp
  <1> QED
    BY <1>1, <1>2 DEF LocksOK, HandlesOK, GiveUp, Answer

LEMMA KeepTryingType ==
  ASSUME LocksOK, NEW t \in Threads, NEW o1, NEW o2, OutcomeOK(o1), OutcomeOK(o2),
         NEW tl, TableOK(tl), KeepTrying(t, o1, o2, tl)
  PROVE  LocksOK'
  <1>1. CASE KeepPartial(t, o1, o2, tl)
    <2>1. HandlesOK'
      BY <1>1, SetHandlesType DEF LocksOK, HandlesOK, KeepPartial
    <2> QED
      BY <1>1, <2>1 DEF LocksOK, HandlesOK, KeepPartial
  <1>2. CASE KeepNothing(t, o1, o2, tl)
    <2>1. HandlesOK'
      BY <1>2, NotHeldType, SetHandlesType DEF LocksOK, HandlesOK, KeepNothing
    <2>2. TableOK(treelock')
      BY <1>2, UndoType DEF KeepNothing
    <2> QED
      BY <1>2, <2>1, <2>2 DEF LocksOK, HandlesOK, KeepNothing
  <1> QED
    BY <1>1, <1>2 DEF KeepTrying

LEMMA WakePathType ==
  ASSUME TypeOK, Acyclic, NEW t \in Threads, WakePath(t),
         req[t].ino1 \in Nodes, req[t].ino2 \in Nodes \cup {NoNode}
  PROVE  LocksOK'
  <1>1. LocksOK /\ HandlesOK /\ TableOK(treelock)
    BY DEF TypeOK, LocksOK, HandlesOK, TableOK
  <1>2. Ino(req[t], 1) \in Nodes
    BY DEF Ino
  <1>3. PICK o1 \in TryElement(treelock, t, 1) :
          \/ /\ o1.err \notin {"ok", "EAGAIN"}
             /\ GiveUp(t, o1, Held(t, 2), o1.tl, o1.err)
          \/ \E o2 \in TrySecond(o1.tl, t) :
               \/ o2.err \notin {"ok", "EAGAIN", "none"} /\ GiveUp(t, o1, o2, o2.tl, o2.err)
               \/ treelock' = o2.tl /\ SetHandles(t, o1, o2) /\ Answer(t, "ok")
               \/ KeepTrying(t, o1, o2, o2.tl)
    BY DEF WakePath
  <1>4. /\ TableOK(o1.tl) /\ OutcomeOK(o1)
        /\ o1.err \in {"ok", "EAGAIN", "ENOENT", "ENOMEM"}
    BY <1>1, <1>2, TryElementType
  <1>5. CASE /\ o1.err \notin {"ok", "EAGAIN"}
             /\ GiveUp(t, o1, Held(t, 2), o1.tl, o1.err)
    BY <1>1, <1>4, <1>5, GiveUpType
  <1>6. ASSUME NEW o2 \in TrySecond(o1.tl, t),
               \/ o2.err \notin {"ok", "EAGAIN", "none"} /\ GiveUp(t, o1, o2, o2.tl, o2.err)
               \/ treelock' = o2.tl /\ SetHandles(t, o1, o2) /\ Answer(t, "ok")
               \/ KeepTrying(t, o1, o2, o2.tl)
        PROVE  LocksOK'
    <2>1. /\ TableOK(o2.tl) /\ OutcomeOK(o2)
          /\ o2.err \in {"ok", "EAGAIN", "ENOENT", "ENOMEM", "none"}
      BY <1>4, TrySecondType
    <2>2. CASE o2.err \notin {"ok", "EAGAIN", "none"} /\ GiveUp(t, o1, o2, o2.tl, o2.err)
      BY <1>1, <2>1, <2>2, GiveUpType
    <2>3. CASE treelock' = o2.tl /\ SetHandles(t, o1, o2) /\ Answer(t, "ok")
      <3>1. HandlesOK'
        BY <1>1, <1>4, <2>1, <2>3, SetHandlesType
      <3> QED
        BY <1>1, <2>1, <2>3, <3>1 DEF LocksOK, HandlesOK, Answer
    <2>4. CASE KeepTrying(t, o1, o2, o2.tl)
      BY <1>1, <1>4, <2>1, <2>4, KeepTryingType
    <2> QED
      BY <1>6, <2>2, <2>3, <2>4
  <1> QED
    BY <1>3, <1>5, <1>6

-----------------------------------------------------------------------------
(* Steps that leave the tree alone.                                         *)

(* No thread takes up a request, and requests only come closer to their     *)
(* end.                                                                     *)
Settles ==
  \A u \in Threads :
    \/ /\ req'[u] = req[u]
       /\ pc'[u] \in {"waiting", "locked", "acted"} => pc[u] \in {"waiting", "locked", "acted"}
       /\ pc'[u] \in {"waiting", "locked"} => pc[u] \in {"waiting", "locked"}
    \/ req'[u] = NoRequest /\ pc'[u] = "idle"

LEMMA SettlesDirs ==
  ASSUME DirsOK, Settles
  PROVE  DirsOK'
  <1> SUFFICES ASSUME NEW t \in Unanswered', NEW u \in Unanswered', t # u
               PROVE  /\ Changes(req[t])' \cap Changes(req[u])' = {}
                      /\ ~(CrossRename(req[t])' /\ CrossRename(req[u])')
    BY DEF DirsOK
  <1>1. /\ t \in Unanswered /\ req'[t] = req[t]
        /\ u \in Unanswered /\ req'[u] = req[u]
    BY DEF Unanswered, Settles
  <1> QED
    BY <1>1 DEF DirsOK, Changes, CrossRename

LEMMA SettlesForgets ==
  ASSUME TypeOK, RequestsOK, RequestsOK', ForgetsOK, Settles, UNCHANGED treeVars
  PROVE  ForgetsOK'
  <1>1. nlookup' = nlookup
    BY DEF treeVars
  <1>2. \A u \in Threads : req'[u].op = "forget" => req'[u] = req[u]
    BY DEF Settles, NoRequest
  <1> QED
    BY <1>1, <1>2 DEF ForgetsOK

(* Who still forgets a node did so before.                                  *)
LEMMA SettlesForgetting ==
  ASSUME RequestsOK, Settles, NEW n
  PROVE  Forgetting(n)' \subseteq {t \in Forgetting(n) : req'[t] = req[t]}
  BY DEF Forgetting, Settles, NoRequest, RequestsOK

LEMMA SettlesPins ==
  ASSUME RequestsOK, PinsOK, Settles, UNCHANGED treeVars
  PROVE  PinsOK'
  <1> SUFFICES ASSUME NEW t \in Unanswered', req'[t].op # "forget",
                      NEW n \in {req'[t].ino1, req'[t].ino2} \ {NoNode}
               PROVE  KernelKnows(n)'
    BY DEF PinsOK
  <1>1. t \in Unanswered /\ req'[t] = req[t]
    BY DEF Unanswered, Settles
  <1>2. KernelKnows(n)
    BY <1>1 DEF PinsOK
  <1>3. nlookup' = nlookup
    BY DEF treeVars
  <1> QED
    BY <1>2, <1>3, SettlesForgetting DEF KernelKnows

LEMMA SettlesRenames ==
  ASSUME RenamesOK, Settles, UNCHANGED treeVars
  PROVE  RenamesOK'
  <1> SUFFICES ASSUME NEW t \in Threads, req'[t].op = "rename",
                      pc'[t] \in {"waiting", "locked"}
               PROVE  Separated(req[t])'
    BY DEF RenamesOK
  <1>1. req'[t] = req[t] /\ Separated(req[t])
    BY DEF Settles, NoRequest, RenamesOK
  <1>2. parent' = parent /\ name' = name /\ Walk' = Walk
    BY DEF treeVars, Walk
  <1> QED
    BY <1>1, <1>2 DEF Separated, IsChild, Chain

LEMMA SettlesInv ==
  ASSUME TreeInv, Settles, UNCHANGED treeVars, TypeOK', RequestsOK', QueueOK'
  PROVE  TreeInv'
  BY SameTree, SettlesDirs, SettlesForgets, SettlesPins, SettlesRenames DEF TreeInv

(* An element the running pass looks at belongs to a thread that waits.     *)
LEMMA ScanFacts ==
  ASSUME TypeOK, RequestsOK, QueueOK, scan # 0
  PROVE  /\ scan \in DOMAIN lockq /\ lockq[scan] \in Threads
         /\ req[lockq[scan]].ino1 \in Nodes
         /\ req[lockq[scan]].ino2 \in Nodes \cup {NoNode}
  <1>1. lockq \in Seq(Threads) /\ scan \in 1..Len(lockq)
    BY DEF TypeOK
  <1>2. scan \in DOMAIN lockq /\ lockq[scan] \in Threads
    BY <1>1
  <1>3. pc[lockq[scan]] = "waiting"
    BY <1>2 DEF QueueOK
  <1> QED
    BY <1>2, <1>3 DEF RequestsOK, WellFormed, Request

LEMMA WakeElementInv ==
  ASSUME TreeInv, WakeElement
  PROVE  TreeInv'
  <1>1. PICK t \in Threads : /\ t = lockq[scan]
                             /\ req[t].ino1 \in Nodes /\ req[t].ino2 \in Nodes \cup {NoNode}
                             /\ IF req[t].op = "forget" THEN WakeForget(t) ELSE WakePath(t)
    BY ScanFacts DEF TreeInv, WakeElement
  <1>2. /\ UNCHANGED treeVars /\ lockq' = lockq /\ pc' = pc /\ req' = req
        /\ parent' = parent /\ name' = name /\ nlookup' = nlookup
    BY DEF WakeElement, treeVars
  <1>3. LocksOK'
    <2>1. CASE req[t].op = "forget"
      BY <1>1, <2>1 DEF TreeInv, TypeOK, LocksOK, TableOK, WakeForget
    <2>2. CASE req[t].op # "forget"
      BY <1>1, <2>2, WakePathType DEF TreeInv
    <2> QED
      BY <2>1, <2>2
  <1>4. scan' \in 0..Len(lockq)
    BY DEF TreeInv, TypeOK, WakeElement, NextElement
  <1>5. TypeOK' /\ RequestsOK' /\ QueueOK' /\ Settles
    BY <1>2, <1>3, <1>4
    DEF TreeInv, TypeOK, TreeTypeOK, LocksOK, TableOK, RequestsOK, QueueOK, Settles
  <1> QED
    BY <1>2, <1>5, SettlesInv

(* A thread that leaves the queue leaves the others queued as they were.    *)
LEMMA DequeueFacts ==
  ASSUME TypeOK, QueueOK, NEW t \in Threads, DequeuePath(t)
  PROVE  /\ lockq' \in Seq(Threads)
         /\ \A i \in DOMAIN lockq' : lockq'[i] # t /\ pc[lockq'[i]] = "waiting"
         /\ \A i, j \in DOMAIN lockq' : lockq'[i] = lockq'[j] => i = j
  <1>1. PICK k \in DOMAIN lockq : lockq[k] = t /\ lockq' = RemoveAt(lockq, k)
    BY DEF DequeuePath
  <1>2. lockq \in Seq(Threads)
    BY DEF TypeOK
  <1>3. /\ lockq' \in Seq(Threads) /\ Len(lockq') = Len(lockq) - 1
        /\ \A i \in 1..(Len(lockq) - 1) :
             lockq'[i] = IF i < k THEN lockq[i] ELSE lockq[i + 1]
    BY <1>1, <1>2, RemoveAtFacts
  <1>4. k \in 1..Len(lockq) /\ Len(lockq) \in Nat /\ DOMAIN lockq = 1..Len(lockq)
        /\ DOMAIN lockq' = 1..(Len(lockq) - 1)
    BY <1>2, <1>3
  <1> DEFINE at(i) == IF i < k THEN i ELSE i + 1
  <1>5. ASSUME NEW i \in DOMAIN lockq'
        PROVE  at(i) \in DOMAIN lockq /\ at(i) # k /\ lockq'[i] = lockq[at(i)]
    BY <1>3, <1>4
  <1>6. ASSUME NEW i \in DOMAIN lockq', NEW j \in DOMAIN lockq', at(i) = at(j)
        PROVE  i = j
    BY <1>4, <1>6
  <1> HIDE DEF at
  <1> QED
    BY <1>1, <1>3, <1>5, <1>6 DEF QueueOK

LEMMA NoRequestFacts == WellFormed(NoRequest) /\ NoRequest.op = "none"
  BY DEF WellFormed, NoRequest, Request, NameOps, PathPairOps

LEMMA ResumeInv ==
  ASSUME TreeInv, NEW t \in Threads, Resume(t)
  PROVE  TreeInv'
  <1>1. /\ UNCHANGED treeVars /\ scan' = 0 /\ treelock' = treelock
        /\ parent' = parent /\ name' = name /\ nlookup' = nlookup
        /\ pc[t] = "waiting" /\ req[t].op # "forget" /\ DequeuePath(t)
        /\ done' = [done EXCEPT ![t] = FALSE] /\ err' = [err EXCEPT ![t] = "ok"]
    BY DEF Resume, treeVars, TreeInv, TypeOK
  <1>2. \/ /\ pc' = [pc EXCEPT ![t] = "locked"]
           /\ UNCHANGED <<hold, wnode, path, req>>
        \/ Idle(t) /\ SetHandles(t, NotHeld, NotHeld)
    BY DEF Resume
  <1>3. HandlesOK'
    BY <1>2, NotHeldType, SetHandlesType DEF TreeInv, TypeOK, HandlesOK
  <1>4. /\ pc \in [Threads -> {"idle", "waiting", "locked", "acted", "replied"}]
        /\ req \in [Threads -> Request]
    BY DEF TreeInv, TypeOK
  <1>5. /\ lockq' \in Seq(Threads)
        /\ \A i \in DOMAIN lockq' : lockq'[i] # t /\ pc[lockq'[i]] = "waiting"
        /\ \A i, j \in DOMAIN lockq' : lockq'[i] = lockq'[j] => i = j
    BY <1>1, DequeueFacts DEF TreeInv
  <1>6. /\ pc' \in [Threads -> {"idle", "waiting", "locked", "acted", "replied"}]
        /\ req' \in [Threads -> Request]
        /\ \A u \in Threads \ {t} : pc'[u] = pc[u] /\ req'[u] = req[u]
        /\ \/ pc'[t] = "locked" /\ req'[t] = req[t]
           \/ pc'[t] = "idle" /\ req'[t] = NoRequest
    BY <1>2, <1>4, NoRequestFacts DEF Idle, WellFormed
  <1>7. TypeOK'
    <2>1. scan' \in 0..Len(lockq')
      BY <1>1, <1>5
    <2>2. /\ done' \in [Threads -> BOOLEAN]
          /\ err' \in [Threads -> {"ok", "ENOENT", "ENOMEM"}]
      BY <1>1 DEF TreeInv, TypeOK
    <2> QED
      BY <1>1, <1>3, <1>5, <1>6, <2>1, <2>2 DEF TreeInv, TypeOK, TreeTypeOK, HandlesOK
  <1>8. QueueOK'
    <2>1. \A i \in DOMAIN lockq' : lockq'[i] \in Threads
      BY <1>5
    <2> QED
      BY <1>5, <1>6, <2>1 DEF QueueOK
  <1>9. RequestsOK'
    BY <1>1, <1>6, NoRequestFacts DEF TreeInv, RequestsOK
  <1>10. Settles
    BY <1>1, <1>6 DEF Settles
  <1> QED
    BY <1>1, <1>7, <1>8, <1>9, <1>10, SettlesInv

LEMMA FreePathInv ==
  ASSUME TreeInv, NEW t \in Threads, FreePath(t)
  PROVE  TreeInv'
  <1>1. /\ UNCHANGED treeVars /\ scan' = FirstElement /\ lockq' = lockq
        /\ parent' = parent /\ name' = name /\ nlookup' = nlookup
        /\ done' = done /\ err' = err /\ pc[t] # "waiting"
        /\ SetHandles(t, NotHeld, NotHeld)
        /\ pc' = [pc EXCEPT ![t] = "idle"] /\ req' = [req EXCEPT ![t] = NoRequest]
    BY DEF FreePath, treeVars, MayRelease, Idle
  <1>2. HandlesOK'
    BY <1>1, NotHeldType, SetHandlesType DEF TreeInv, TypeOK, HandlesOK
  <1>3. TableOK(treelock')
    <2>1. TableOK(Undo(treelock, req[t], 1, Held(t, 1)))
      BY UndoType DEF TreeInv, TypeOK, TableOK
    <2> QED
      BY <2>1, UndoType DEF FreePath
  <1>4. scan' \in 0..Len(lockq')
    BY <1>1 DEF TreeInv, TypeOK, FirstElement
  <1>5. TypeOK'
    BY <1>1, <1>2, <1>3, <1>4, NoRequestFacts
    DEF TreeInv, TypeOK, TreeTypeOK, HandlesOK, TableOK, WellFormed
  <1>6. \A i \in DOMAIN lockq : lockq[i] \in Threads
    BY DEF TreeInv, TypeOK
  <1>7. QueueOK' /\ RequestsOK' /\ Settles
    BY <1>1, <1>6, NoRequestFacts DEF TreeInv, TypeOK, QueueOK, RequestsOK, Settles
  <1> QED
    BY <1>1, <1>5, <1>7, SettlesInv

LEMMA ReplyInv ==
  ASSUME TreeInv, NEW t \in Threads, Reply(t)
  PROVE  TreeInv'
  <1>1. /\ UNCHANGED treeVars /\ UNCHANGED lockVars /\ req' = req
        /\ pc[t] \in {"locked", "acted"} /\ pc' = [pc EXCEPT ![t] = "replied"]
    BY DEF Reply
  <1>2. TypeOK' /\ RequestsOK' /\ Settles
    BY <1>1 DEF TreeInv, TypeOK, TreeTypeOK, treeVars, lockVars, RequestsOK, Settles
  <1>3. QueueOK'
    <2>1. \A i \in DOMAIN lockq : lockq[i] \in Threads
      BY DEF TreeInv, TypeOK
    <2> QED
      BY <1>1, <2>1 DEF TreeInv, TypeOK, QueueOK, lockVars
  <1> QED
    BY <1>1, <1>2, <1>3, SettlesInv

-----------------------------------------------------------------------------
(* A new request.                                                           *)

LEMMA ChangesAreLocked ==
  ASSUME NEW r, WellFormed(r)
  PROVE  Changes(r) \subseteq DirMutexes(r) /\ Changes(r) \in SUBSET Nodes
  BY DEF WellFormed, Changes, DirMutexes, NameOps, PathPairOps

LEMMA MaySendSeparated ==
  ASSUME TreeOK, NEW r, WellFormed(r), r.op = "rename", KernelMaySend(r)
  PROVE  Separated(r)
  <1>1. /\ r.ino1 \in Nodes /\ r.ino2 \in Nodes /\ r.name1 # NoName /\ r.name2 # NoName
        /\ Victim(r, 1) \notin Chain(r.ino2) /\ Victim(r, 2) \notin Chain(r.ino1)
    BY NodeTreeAssumption DEF WellFormed, PathPairOps, KernelMaySend
  <1>2. Victim(r, 1) = LookupNode(r.ino1, r.name1) /\ Victim(r, 2) = LookupNode(r.ino2, r.name2)
    BY <1>1 DEF Victim, Entry, Ino
  <1> QED
    BY <1>1, <1>2, OneNodePerEntry DEF Separated

(* The queue when a thread that was idle joins it, or does not have to.     *)
LEMMA AppendQueue ==
  ASSUME TypeOK, QueueOK, NEW t \in Threads, pc[t] = "idle", NEW r,
         Queued(t, r) \/ Granted(t, r)
  PROVE  QueueOK' /\ lockq' \in Seq(Threads)
  <1>1. lockq \in Seq(Threads) /\ DOMAIN pc = Threads
    BY DEF TypeOK
  <1>2. \A i \in DOMAIN lockq : lockq[i] \in Threads \ {t} /\ pc[lockq[i]] = "waiting"
    BY <1>1 DEF QueueOK
  <1>3. \A u \in Threads \ {t} : pc'[u] = pc[u]
    BY <1>1 DEF Queued, Granted
  <1>4. CASE Granted(t, r)
    BY <1>1, <1>2, <1>3, <1>4 DEF Granted, QueueOK
  <1>5. CASE Queued(t, r)
    <2>1. /\ lockq' \in Seq(Threads) /\ DOMAIN lockq' = 1..(Len(lockq) + 1)
          /\ \A i \in DOMAIN lockq : lockq'[i] = lockq[i]
          /\ lockq'[Len(lockq) + 1] = t /\ DOMAIN lockq = 1..Len(lockq) /\ Len(lockq) \in Nat
      BY <1>1, <1>5 DEF Queued
    <2>2. \A i \in DOMAIN lockq' : i \in DOMAIN lockq \/ i = Len(lockq) + 1
      BY <2>1
    <2>3. pc'[t] = "waiting"
      BY <1>1, <1>5 DEF Queued
    <2> QED
      BY <1>2, <1>3, <2>1, <2>2, <2>3 DEF QueueOK
  <1> QED
    BY <1>4, <1>5

LEMMA ReceiveInv ==
  ASSUME TreeInv, NEW t \in Threads, NEW r, WellFormed(r), r.op \notin {"none", "forget"},
         Receive(t, r)
  PROVE  TreeInv'
  <1>1. /\ UNCHANGED treeVars /\ scan' = scan /\ scan = 0
        /\ parent' = parent /\ name' = name /\ nlookup' = nlookup
        /\ pc[t] = "idle" /\ KernelMaySend(r)
    BY DEF Receive, treeVars
  <1>2. r.ino1 \in Nodes /\ r.ino2 \in Nodes \cup {NoNode}
    BY DEF WellFormed
  <1>3. /\ LocksOK'
        /\ UNCHANGED <<lockq, pc, req>> \/ Queued(t, r) \/ Granted(t, r)
    BY <1>2, GetPathEffect DEF Receive, HasSecond, TreeInv
  <1>4. CASE UNCHANGED <<lockq, pc, req>>
    <2>1. TypeOK' /\ RequestsOK' /\ QueueOK' /\ Settles
      BY <1>1, <1>3, <1>4
      DEF TreeInv, TypeOK, TreeTypeOK, LocksOK, TableOK, RequestsOK, QueueOK, Settles
    <2> QED
      BY <1>1, <2>1, SettlesInv
  <1>5. CASE Queued(t, r) \/ Granted(t, r)
    <2>1. /\ pc \in [Threads -> {"idle", "waiting", "locked", "acted", "replied"}]
          /\ req \in [Threads -> Request] /\ lockq \in Seq(Threads)
      BY DEF TreeInv, TypeOK
    <2>2. /\ pc' \in [Threads -> {"idle", "waiting", "locked", "acted", "replied"}]
          /\ req' \in [Threads -> Request]
          /\ \A u \in Threads \ {t} : pc'[u] = pc[u] /\ req'[u] = req[u]
          /\ req'[t] = r /\ pc'[t] \in {"waiting", "locked"}
      BY <1>5, <2>1 DEF Queued, Granted, WellFormed
    <2>3. req[t].op = "none"
      BY <1>1 DEF TreeInv, RequestsOK
    <2>4. QueueOK' /\ lockq' \in Seq(Threads)
      BY <1>1, <1>5, <2>2, AppendQueue DEF TreeInv
    <2>5. TypeOK'
      <3>1. scan' \in 0..Len(lockq')
        BY <1>1, <2>4
      <3> QED
        BY <1>1, <1>3, <2>2, <2>4, <3>1 DEF TreeInv, TypeOK, TreeTypeOK, LocksOK, TableOK
    <2>6. RequestsOK'
      BY <2>2 DEF TreeInv, RequestsOK
    <2>7. ForgetsOK'
      BY <1>1, <2>2 DEF TreeInv, ForgetsOK
    <2>8. Acyclic' /\ TreeOK'
      BY <1>1, SameTree DEF TreeInv
    <2>9. \A n : Forgetting(n)' = Forgetting(n) /\ \A u \in Forgetting(n) : req'[u] = req[u]
      BY <2>2, <2>3 DEF Forgetting
    <2>10. PinsOK'
      <3> SUFFICES ASSUME NEW u \in Unanswered', req'[u].op # "forget",
                          NEW n \in {req'[u].ino1, req'[u].ino2} \ {NoNode}
                   PROVE  KernelKnows(n)'
        BY DEF PinsOK
      <3>1. KernelKnows(n)
        <4>1. CASE u = t
          BY <1>1, <2>2, <4>1 DEF KernelMaySend
        <4>2. CASE u # t
          BY <2>2, <4>2 DEF TreeInv, PinsOK, Unanswered
        <4> QED
          BY <4>1, <4>2
      <3> QED
        BY <1>1, <2>9, <3>1 DEF KernelKnows
    <2>11. DirsOK'
      <3>1. ASSUME NEW u \in Unanswered, u # t
            PROVE  /\ Changes(r) \cap Changes(req[u]) = {}
                   /\ ~(CrossRename(r) /\ CrossRename(req[u]))
        <4>1. WellFormed(req[u])
          BY DEF TreeInv, RequestsOK, Unanswered
        <4>2. (DirMutexes(req[u]) \cap DirMutexes(r)) \subseteq {NoNode}
          BY <1>1 DEF KernelMaySend
        <4> QED
          BY <1>1, <4>1, <4>2, ChangesAreLocked, NodeTreeAssumption DEF KernelMaySend
      <3>2. ASSUME NEW u \in Unanswered', u # t
            PROVE  u \in Unanswered /\ req'[u] = req[u]
        BY <2>2, <3>2 DEF Unanswered
      <3>3. \A u, v \in Unanswered' : u # v =>
              /\ Changes(req'[u]) \cap Changes(req'[v]) = {}
              /\ ~(CrossRename(req'[u]) /\ CrossRename(req'[v]))
        <4> SUFFICES ASSUME NEW u \in Unanswered', NEW v \in Unanswered', u # v
                     PROVE  /\ Changes(req'[u]) \cap Changes(req'[v]) = {}
                            /\ ~(CrossRename(req'[u]) /\ CrossRename(req'[v]))
          OBVIOUS
        <4>1. CASE u = t
          BY <2>2, <3>1, <3>2, <4>1
        <4>2. CASE v = t
          BY <2>2, <3>1, <3>2, <4>2
        <4>3. CASE u # t /\ v # t
          BY <3>2, <4>3 DEF TreeInv, DirsOK
        <4> QED
          BY <4>1, <4>2, <4>3
      <3> QED
        BY <3>3 DEF DirsOK, Changes, CrossRename
    <2>12. RenamesOK'
      <3> SUFFICES ASSUME NEW u \in Threads, req'[u].op = "rename",
                          pc'[u] \in {"waiting", "locked"}
                   PROVE  Separated(req[u])'
        BY DEF RenamesOK
      <3>1. PICK q : q = req'[u] /\ Separated(q)
        <4>1. CASE u = t
          BY <1>1, <2>2, <4>1, MaySendSeparated DEF TreeInv
        <4>2. CASE u # t
          BY <2>2, <4>2 DEF TreeInv, RenamesOK
        <4> QED
          BY <4>1, <4>2
      <3>2. Walk' = Walk
        BY <1>1 DEF Walk
      <3> QED
        BY <1>1, <3>1, <3>2 DEF Separated, IsChild, Chain
    <2> QED
      BY <2>4, <2>5, <2>6, <2>7, <2>8, <2>10, <2>11, <2>12 DEF TreeInv
  <1> QED
    BY <1>3, <1>4, <1>5

-----------------------------------------------------------------------------
(* Steps that change the tree.                                              *)

LEMMA KnownIsLookedUp ==
  ASSUME TypeOK, TreeOK, NEW n, KernelKnows(n)
  PROVE  nlookup[n] > 0
  BY DEF TreeOK, KernelKnows

LEMMA ActInv ==
  ASSUME TreeInv, NEW t \in Threads, Act(t) \/ Hide(t)
  PROVE  TreeInv'
  <1> DEFINE r == req[t]
  <1>1. /\ UNCHANGED lockVars /\ req' = req /\ pc[t] = "locked"
        /\ \/ pc' = [pc EXCEPT ![t] = "acted"]
           \/ pc' = pc /\ r.op = "rename" /\ HideNode(r.ino2, r.name2)
        /\ r.op # "forget" /\ TreeTypeOK /\ Acyclic /\ TreeOK
        /\ \/ r.op \in {"lookup", "create"} /\ FindNode(r.ino1, r.name1)
           \/ r.op = "unlink" /\ RemoveNode(r.ino1, r.name1)
           \/ r.op = "unlink" /\ HideNode(r.ino1, r.name1)
           \/ r.op = "link" /\ FindNode(r.ino2, r.name2)
           \/ r.op = "rename" /\ HideNode(r.ino2, r.name2)
           \/ r.op = "rename" /\ RenameNode(r.ino1, r.name1, r.ino2, r.name2)
    <2>1. CASE Act(t)
      BY <2>1 DEF Act, TreeInv, TypeOK
    <2>2. CASE Hide(t)
      BY <2>2 DEF Hide, TreeInv, TypeOK
    <2> QED
      BY <2>1, <2>2
  <1>2. /\ r.ino1 \in Nodes
        /\ r.op \in {"lookup", "create", "unlink", "rename"} => r.name1 \in Names
        /\ r.op \in {"rename", "link"} => r.ino2 \in Nodes /\ r.name2 \in Names
        /\ r.op # "forget"
    BY <1>1 DEF TreeInv, RequestsOK, WellFormed, NameOps, PathPairOps
  <1>3. nlookup[r.ino1] > 0 /\ (r.op \in {"rename", "link"} => nlookup[r.ino2] > 0)
    <2>1. t \in Unanswered
      BY <1>1 DEF Unanswered
    <2>2. \A n \in {r.ino1, r.ino2} \ {NoNode} : nlookup[n] > 0
      BY <1>2, <2>1, KnownIsLookedUp DEF TreeInv, PinsOK
    <2> QED
      BY <1>2, <2>2, NodeTreeAssumption
  <1>4. /\ Keeps(Changes(r))
        /\ (r.op = "rename" /\ r.ino1 # r.ino2) \/ Shortens
    <2>1. CASE r.op \in {"lookup", "create"}
      <3>1. FindNode(r.ino1, r.name1)
        BY <1>1, <2>1
      <3>2. Keeps({r.ino1}) /\ Shortens
        BY <1>1, <1>2, <1>3, <2>1, <3>1, FindNodeKeeps
      <3> QED
        BY <2>1, <3>2 DEF Changes
    <2>2. CASE r.op = "unlink"
      <3>1. Keeps({}) /\ Shortens
        BY <1>1, <1>2, <1>3, <2>2, RemoveNodeKeeps, HideNodeKeeps
      <3> QED
        BY <3>1 DEF Keeps
    <2>3. CASE r.op = "link"
      <3>1. Keeps({r.ino2}) /\ Shortens
        BY <1>1, <1>2, <1>3, <2>3, FindNodeKeeps
      <3> QED
        BY <2>3, <3>1 DEF Changes
    <2>4. CASE r.op = "rename"
      <3>1. Separated(r)
        BY <1>1, <2>4 DEF TreeInv, RenamesOK
      <3>2. CASE HideNode(r.ino2, r.name2)
        <4>1. Keeps({}) /\ Shortens
          BY <1>1, <1>2, <2>4, <3>2, HideNodeKeeps
        <4> QED
          BY <4>1 DEF Keeps
      <3>3. CASE RenameNode(r.ino1, r.name1, r.ino2, r.name2)
        <4>1. Keeps({r.ino2}) /\ (r.ino1 = r.ino2 => Shortens)
          BY <1>1, <1>2, <1>3, <2>4, <3>1, <3>3, RenameNodeKeeps DEF Separated
        <4>2. r.ino2 \in Changes(r)
          BY <2>4 DEF Changes
        <4> QED
          BY <2>4, <4>1, <4>2 DEF Keeps
      <3> QED
        BY <1>1, <2>4, <3>2, <3>3
    <2> QED
      BY <1>1, <2>1, <2>2, <2>3, <2>4
  <1>5. Settles
    BY <1>1 DEF Settles, TreeInv, TypeOK
  <1>6. TypeOK' /\ RequestsOK'
    BY <1>1, <1>4 DEF Keeps, TreeInv, TypeOK, lockVars, RequestsOK
  <1>7. QueueOK'
    <2>1. \A i \in DOMAIN lockq : lockq[i] \in Threads
      BY DEF TreeInv, TypeOK
    <2> QED
      BY <1>1, <2>1 DEF TreeInv, TypeOK, QueueOK, lockVars
  <1>8. \A n \in Nodes : nlookup'[n] >= nlookup[n] /\ nlookup'[n] \in Nat /\ nlookup[n] \in Nat
    BY <1>1, <1>4 DEF Keeps, TreeTypeOK
  <1>9. ForgetsOK'
    <2> SUFFICES ASSUME NEW u \in Threads, req[u].op = "forget"
                 PROVE  req[u].count <= nlookup'[req[u].ino1]
      BY <1>1 DEF TreeInv, ForgetsOK
    <2>1. req[u].ino1 \in Nodes /\ req[u].count \in Nat
      BY DEF TreeInv, TypeOK, Request, RequestsOK, WellFormed
    <2>2. req[u].count <= nlookup[req[u].ino1]
      BY DEF TreeInv, ForgetsOK
    <2> QED
      BY <1>8, <2>1, <2>2
  <1>10. PinsOK'
    <2> SUFFICES ASSUME NEW u \in Unanswered', req'[u].op # "forget",
                        NEW n \in {req'[u].ino1, req'[u].ino2} \ {NoNode}
                 PROVE  KernelKnows(n)'
      BY DEF PinsOK
    <2>1. u \in Unanswered /\ req'[u] = req[u]
      BY <1>5, <1>1 DEF Unanswered, Settles
    <2>2. KernelKnows(n) /\ n \in Nodes
      BY <2>1 DEF TreeInv, PinsOK, Unanswered, RequestsOK, WellFormed, Request
    <2>3. \A v \in Forgetting(n) : req[v].count \in Nat
      BY DEF TreeInv, TypeOK, Request, Forgetting
    <2>4. \A v \in Forgetting(n)' : v \in Forgetting(n) /\ req'[v] = req[v]
      BY <1>5, SettlesForgetting DEF TreeInv
    <2> QED
      BY <1>8, <2>2, <2>3, <2>4 DEF KernelKnows
  <1>11. RenamesOK'
    <2> SUFFICES ASSUME NEW u \in Threads, req'[u].op = "rename",
                        pc'[u] \in {"waiting", "locked"}
                 PROVE  Separated(req[u])'
      BY DEF RenamesOK
    <2>1. PICK q : q = req[u] /\ q = req'[u]
      BY <1>1
    <2>2. /\ pc[u] \in {"waiting", "locked"} /\ q.op = "rename"
          /\ t \in Unanswered /\ u \in Unanswered /\ Separated(q)
          /\ u = t => r.op = "rename" /\ HideNode(r.ino2, r.name2) /\ q = r
      BY <1>1, <2>1 DEF TreeInv, TypeOK, RenamesOK, Unanswered
    <2>0. CASE u = t
      <3>1. Keeps({}) /\ Shortens
        BY <1>1, <1>2, <2>0, <2>2, HideNodeKeeps
      <3>2. /\ r.ino1 \in Nodes /\ r.ino2 \in Nodes /\ r.name1 \in Names /\ r.name2 \in Names
            /\ nlookup[r.ino1] > 0 /\ nlookup[r.ino2] > 0
        BY <1>2, <1>3, <2>0, <2>2
      <3>3. Walk'[r.ino1] \subseteq Walk[r.ino1] /\ Walk'[r.ino2] \subseteq Walk[r.ino2]
        BY <3>1, <3>2 DEF Shortens
      <3>4. \A c \in Nodes :
              /\ parent'[c] = r.ino1 /\ name'[c] = r.name1 => IsChild(c, r.ino1, r.name1)
              /\ parent'[c] = r.ino2 /\ name'[c] = r.name2 => IsChild(c, r.ino2, r.name2)
        BY <3>1, <3>2 DEF Keeps
      <3> QED
        BY <2>0, <2>1, <2>2, <3>3, <3>4 DEF Separated, IsChild, Chain
    <2> SUFFICES ASSUME u # t
                 PROVE  Separated(req[u])'
      BY <2>0
    <2>3. /\ q.ino1 \in Nodes \ Changes(r) /\ q.ino2 \in Nodes \ Changes(r)
          /\ q.name1 \in Names /\ q.name2 \in Names
      <3>1. Changes(q) = {q.ino1, q.ino2}
        BY <2>2 DEF Changes
      <3> QED
        BY <2>1, <2>2, <3>1 DEF TreeInv, DirsOK, RequestsOK, WellFormed, PathPairOps
    <2>4. \A c \in Nodes :
            /\ parent'[c] = q.ino1 /\ name'[c] = q.name1 => IsChild(c, q.ino1, q.name1)
            /\ parent'[c] = q.ino2 /\ name'[c] = q.name2 => IsChild(c, q.ino2, q.name2)
      BY <1>4, <2>3 DEF Keeps
    <2>5. CASE Shortens
      <3>1. nlookup[q.ino1] > 0 /\ nlookup[q.ino2] > 0
        BY <2>1, <2>2, <2>3, KnownIsLookedUp, NodeTreeAssumption DEF TreeInv, PinsOK
      <3>2. Walk'[q.ino1] \subseteq Walk[q.ino1] /\ Walk'[q.ino2] \subseteq Walk[q.ino2]
        BY <2>3, <2>5, <3>1 DEF Shortens
      <3> QED
        BY <2>1, <2>2, <2>4, <3>2 DEF Separated, IsChild, Chain
    <2>6. CASE r.op = "rename" /\ r.ino1 # r.ino2
      <3>1. q.ino1 = q.ino2
        BY <2>1, <2>2, <2>6 DEF TreeInv, DirsOK, CrossRename
      <3>2. ParentOK' /\ Acyclic'
        BY <1>4 DEF Keeps, TreeTypeOK, ParentOK
      <3>3. \A c \in Nodes : parent'[c] = q.ino1 => c \notin Walk'[q.ino1]
        BY <2>3, <3>2, ChildrenBelowNext DEF ChildrenBelow
      <3> QED
        BY <2>1, <3>1, <3>3 DEF Separated, IsChild, Chain
    <2> QED
      BY <1>4, <2>5, <2>6
  <1> QED
    BY <1>4, <1>5, <1>6, <1>7, <1>9, <1>10, <1>11, SettlesDirs DEF Keeps, TreeInv

(* DropLookups leaves every invariant but those of the forgets in place.    *)
LEMMA DropRenames ==
  ASSUME TreeInv, NEW n \in Nodes \ {Root}, NEW k \in Nat, k <= nlookup[n],
         DropLookups(n, k), Settles
  PROVE  RenamesOK'
  <1> SUFFICES ASSUME NEW u \in Threads, req'[u].op = "rename",
                      pc'[u] \in {"waiting", "locked"}
               PROVE  Separated(req[u])'
    BY DEF RenamesOK
  <1>1. PICK q : q = req[u] /\ q = req'[u]
    BY DEF Settles, NoRequest
  <1>2. Separated(q) /\ q.ino1 \in Nodes /\ q.ino2 \in Nodes
    BY <1>1 DEF TreeInv, RenamesOK, Settles, NoRequest, RequestsOK, WellFormed, PathPairOps
  <1>3. /\ \A nm : \A c, p \in Nodes :
             parent'[c] = p /\ name'[c] = nm => IsChild(c, p, nm)
        /\ \A m \in Nodes : Walk'[m] \subseteq Walk[m]
    BY DropLookupsKeeps DEF TreeInv, TypeOK
  <1> QED
    BY <1>1, <1>2, <1>3 DEF Separated, IsChild, Chain

LEMMA ForgetAtOnceInv ==
  ASSUME TreeInv, NEW n \in Nodes, NEW k \in 1..nlookup[n], KernelMayForget(n),
         DropLookups(n, k),
         UNCHANGED <<treelock, lockq, hold, wnode, path, done, err, pc, req, scan>>
  PROVE  TreeInv'
  <1>1. /\ n # Root /\ nlookup[n] \in Nat /\ k \in Nat /\ k <= nlookup[n]
        /\ Forgetting(n) = {} /\ TreeTypeOK /\ Acyclic /\ TreeOK
    BY DEF KernelMayForget, TreeInv, TypeOK, TreeTypeOK
  <1>2. /\ TreeTypeOK' /\ Acyclic' /\ TreeOK'
        /\ nlookup' = [nlookup EXCEPT ![n] = @ - k]
    BY <1>1, DropLookupsKeeps
  <1>3. TypeOK' /\ RequestsOK' /\ QueueOK' /\ Settles
    BY <1>2 DEF TreeInv, TypeOK, RequestsOK, QueueOK, Settles
  <1>4. \A m : m # n => nlookup'[m] = nlookup[m]
    BY <1>2 DEF TreeInv, TypeOK, TreeTypeOK
  <1>5. ForgetsOK'
    <2>1. \A u \in Threads : req[u].op = "forget" => req[u].ino1 # n
      BY <1>1 DEF Forgetting, TreeInv, RequestsOK
    <2> QED
      BY <1>4, <2>1 DEF TreeInv, ForgetsOK
  <1>6. PinsOK'
    <2> SUFFICES ASSUME NEW u \in Unanswered', req'[u].op # "forget",
                        NEW m \in {req'[u].ino1, req'[u].ino2} \ {NoNode}
                 PROVE  KernelKnows(m)'
      BY DEF PinsOK
    <2>1. u \in Unanswered /\ req'[u] = req[u]
      BY DEF Unanswered
    <2>2. m # n
      BY <2>1 DEF KernelMayForget, Pins
    <2>3. KernelKnows(m)
      BY <2>1 DEF TreeInv, PinsOK
    <2> QED
      BY <1>4, <2>2, <2>3 DEF KernelKnows, Forgetting
  <1>7. RenamesOK'
    BY <1>1, <1>3, DropRenames
  <1> QED
    BY <1>2, <1>3, <1>5, <1>6, <1>7, SettlesDirs DEF TreeInv

LEMMA QueueForgetInv ==
  ASSUME TreeInv, NEW t \in Threads, pc[t] = "idle", scan = 0, scan' = scan,
         NEW n \in Nodes, KernelMayForget(n), UNCHANGED treeVars,
         QueuePath(t, [NoRequest EXCEPT !.op = "forget", !.ino1 = n, !.count = nlookup[n]],
                   treelock)
  PROVE  TreeInv'
  <1> DEFINE r == [NoRequest EXCEPT !.op = "forget", !.ino1 = n, !.count = nlookup[n]]
  <1>1. /\ n # Root /\ nlookup[n] \in Nat /\ Forgetting(n) = {} /\ "forget" \in Ops
        /\ parent' = parent /\ name' = name /\ nlookup' = nlookup
    BY DEF KernelMayForget, TreeInv, TypeOK, TreeTypeOK, treeVars
  <1>2. /\ r.op = "forget" /\ r.ino1 = n /\ r.ino2 = NoNode /\ r.count = nlookup[n]
        /\ WellFormed(r)
    BY <1>1, NodeTreeAssumption
    DEF NoRequest, WellFormed, Request, NameOps, PathPairOps
  <1> HIDE DEF r
  <1>3. LocksOK' /\ Queued(t, r)
    BY QueuePathType DEF TreeInv, TypeOK, LocksOK, TableOK, r
  <1>4. /\ pc' \in [Threads -> {"idle", "waiting", "locked", "acted", "replied"}]
        /\ req' \in [Threads -> Request]
        /\ \A u \in Threads \ {t} : pc'[u] = pc[u] /\ req'[u] = req[u]
        /\ req'[t] = r /\ pc'[t] = "waiting" /\ req[t].op = "none"
    BY <1>2, <1>3 DEF Queued, WellFormed, TreeInv, TypeOK, RequestsOK
  <1>5. QueueOK' /\ lockq' \in Seq(Threads)
    BY <1>3, <1>4, AppendQueue DEF TreeInv
  <1>6. TypeOK' /\ RequestsOK'
    <2>1. scan' \in 0..Len(lockq')
      BY <1>5
    <2>2. TypeOK'
      BY <1>1, <1>3, <1>4, <1>5, <2>1 DEF TreeInv, TypeOK, TreeTypeOK, LocksOK, TableOK
    <2>3. RequestsOK'
      BY <1>2, <1>4 DEF TreeInv, RequestsOK
    <2> QED
      BY <2>2, <2>3
  <1>7. ForgetsOK'
    <2>1. \A u \in Threads \ {t} : req[u].op = "forget" => req[u].ino1 # n
      BY <1>1 DEF Forgetting, TreeInv, RequestsOK
    <2> QED
      BY <1>1, <1>2, <1>4, <2>1 DEF TreeInv, ForgetsOK
  <1>8. Acyclic' /\ TreeOK'
    BY SameTree DEF TreeInv
  <1>9. PinsOK'
    <2> SUFFICES ASSUME NEW u \in Unanswered', req'[u].op # "forget",
                        NEW m \in {req'[u].ino1, req'[u].ino2} \ {NoNode}
                 PROVE  KernelKnows(m)'
      BY DEF PinsOK
    <2>1. u # t /\ u \in Unanswered /\ req'[u] = req[u]
      BY <1>2, <1>4 DEF Unanswered
    <2>2. m # n
      BY <2>1 DEF KernelMayForget, Pins
    <2>3. KernelKnows(m)
      BY <2>1 DEF TreeInv, PinsOK
    <2>4. \A v \in Forgetting(m)' : v \in Forgetting(m) /\ req'[v] = req[v]
      BY <1>2, <1>4, <2>2 DEF Forgetting
    <2> QED
      BY <1>1, <2>3, <2>4 DEF KernelKnows
  <1>10. DirsOK'
    <2> SUFFICES ASSUME NEW u \in Unanswered', NEW v \in Unanswered', u # v
                 PROVE  /\ Changes(req'[u]) \cap Changes(req'[v]) = {}
                        /\ ~(CrossRename(req'[u]) /\ CrossRename(req'[v]))
      BY DEF DirsOK, Changes, CrossRename
    <2>1. Changes(r) = {} /\ ~CrossRename(r)
      BY <1>2 DEF Changes, CrossRename
    <2>2. CASE u = t \/ v = t
      BY <1>4, <2>1, <2>2
    <2>3. CASE u # t /\ v # t
      BY <1>4, <2>3 DEF TreeInv, DirsOK, Unanswered
    <2> QED
      BY <2>2, <2>3
  <1>11. RenamesOK'
    <2> SUFFICES ASSUME NEW u \in Threads, req'[u].op = "rename",
                        pc'[u] \in {"waiting", "locked"}
                 PROVE  Separated(req[u])'
      BY DEF RenamesOK
    <2>1. req'[u] = req[u] /\ Separated(req[u])
      BY <1>2, <1>4 DEF TreeInv, RenamesOK
    <2>2. Walk' = Walk
      BY <1>1 DEF Walk
    <2> QED
      BY <1>1, <2>1, <2>2 DEF Separated, IsChild, Chain
  <1> QED
    BY <1>5, <1>6, <1>7, <1>8, <1>9, <1>10, <1>11 DEF TreeInv

LEMMA ReceiveForgetInv ==
  ASSUME TreeInv, NEW t \in Threads, ReceiveForget(t)
  PROVE  TreeInv'
  <1>1. PICK n \in Nodes : \E k \in 1..nlookup[n] :
          /\ KernelMayForget(n)
          /\ \/ /\ MustWait(n, k)
                /\ QueuePath(t, [NoRequest EXCEPT !.op = "forget", !.ino1 = n, !.count = k],
                             treelock)
                /\ UNCHANGED treeVars
             \/ /\ DropLookups(n, k)
                /\ UNCHANGED <<treelock, lockq, hold, wnode, path, done, err, pc, req>>
    BY DEF ReceiveForget
  <1>2. PICK k \in 1..nlookup[n] :
          /\ KernelMayForget(n)
          /\ \/ /\ nlookup[n] = k
                /\ QueuePath(t, [NoRequest EXCEPT !.op = "forget", !.ino1 = n, !.count = k],
                             treelock)
                /\ UNCHANGED treeVars
             \/ /\ DropLookups(n, k)
                /\ UNCHANGED <<treelock, lockq, hold, wnode, path, done, err, pc, req>>
    BY <1>1 DEF MustWait
  <1>3. pc[t] = "idle" /\ scan = 0 /\ scan' = scan
    BY DEF ReceiveForget
  <1> QED
    BY <1>2, <1>3, ForgetAtOnceInv, QueueForgetInv

LEMMA ResumeForgetInv ==
  ASSUME TreeInv, NEW t \in Threads, ResumeForget(t)
  PROVE  TreeInv'
  <1>0. PICK n, k : n = req[t].ino1 /\ k = req[t].count
    OBVIOUS
  <1>1. /\ scan = 0 /\ scan' = scan /\ pc[t] = "waiting" /\ req[t].op = "forget"
        /\ done' = [done EXCEPT ![t] = FALSE]
        /\ UNCHANGED <<treelock, hold, wnode, path, err>>
    BY DEF ResumeForget
  <1>2. /\ n \in Nodes \ {Root} /\ k \in Nat /\ k <= nlookup[n]
        /\ TreeTypeOK /\ Acyclic /\ TreeOK
        /\ \A u \in Threads : req[u].op = "forget" /\ req[u].ino1 = n => u = t
    BY <1>0, <1>1 DEF TreeInv, TypeOK, Request, RequestsOK, WellFormed, ForgetsOK
  <1>3. CASE UNCHANGED <<treeVars, lockq, pc, req>>
    <2>1. TypeOK' /\ RequestsOK' /\ QueueOK' /\ Settles
      BY <1>1, <1>3
      DEF TreeInv, TypeOK, TreeTypeOK, treeVars, RequestsOK, QueueOK, Settles
    <2> QED
      BY <1>3, <2>1, SettlesInv
  <1>4. CASE DequeuePath(t) /\ DropLookups(n, k) /\ Idle(t)
    <2>1. /\ TreeTypeOK' /\ Acyclic' /\ TreeOK'
          /\ nlookup' = [nlookup EXCEPT ![n] = @ - k]
      BY <1>2, <1>4, DropLookupsKeeps
    <2>2. /\ pc' \in [Threads -> {"idle", "waiting", "locked", "acted", "replied"}]
          /\ req' \in [Threads -> Request]
          /\ \A u \in Threads \ {t} : pc'[u] = pc[u] /\ req'[u] = req[u]
          /\ pc'[t] = "idle" /\ req'[t] = NoRequest
      BY <1>4, NoRequestFacts DEF Idle, WellFormed, TreeInv, TypeOK
    <2>3. /\ lockq' \in Seq(Threads)
          /\ \A i \in DOMAIN lockq' : lockq'[i] # t /\ pc[lockq'[i]] = "waiting"
          /\ \A i, j \in DOMAIN lockq' : lockq'[i] = lockq'[j] => i = j
      BY <1>4, DequeueFacts DEF TreeInv
    <2>4. QueueOK'
      <3>1. \A i \in DOMAIN lockq' : lockq'[i] \in Threads
        BY <2>3
      <3> QED
        BY <2>2, <2>3, <3>1 DEF QueueOK
    <2>5. TypeOK'
      <3>1. scan' \in 0..Len(lockq')
        BY <1>1, <2>3
      <3>2. done' \in [Threads -> BOOLEAN]
        BY <1>1 DEF TreeInv, TypeOK
      <3> QED
        BY <1>1, <2>1, <2>2, <2>3, <3>1, <3>2 DEF TreeInv, TypeOK
    <2>6. RequestsOK' /\ Settles
      BY <2>2, NoRequestFacts DEF TreeInv, RequestsOK, Settles
    <2>7. \A m \in Nodes \ {n} : nlookup'[m] = nlookup[m]
      BY <2>1 DEF TreeInv, TypeOK, TreeTypeOK
    <2>8. ForgetsOK'
      <3> SUFFICES ASSUME NEW u \in Threads, req'[u].op = "forget"
                   PROVE  /\ req'[u].ino1 # Root /\ req'[u].count <= nlookup'[req'[u].ino1]
                          /\ \A v \in Threads :
                               req'[v].op = "forget" /\ req'[v].ino1 = req'[u].ino1 => v = u
        BY DEF ForgetsOK
      <3>1. u # t /\ req'[u] = req[u] /\ req[u].ino1 \in Nodes \ {n}
        BY <1>2, <2>2, NoRequestFacts DEF TreeInv, RequestsOK, WellFormed
      <3>2. \A v \in Threads : req'[v].op = "forget" => req'[v] = req[v]
        BY <2>2, NoRequestFacts
      <3> QED
        BY <2>7, <3>1, <3>2 DEF TreeInv, ForgetsOK
    <2>9. PinsOK'
      <3> SUFFICES ASSUME NEW u \in Unanswered', req'[u].op # "forget",
                          NEW m \in {req'[u].ino1, req'[u].ino2} \ {NoNode}
                   PROVE  KernelKnows(m)'
        BY DEF PinsOK
      <3>1. u # t /\ u \in Unanswered /\ req'[u] = req[u]
        BY <2>2 DEF Unanswered
      <3>2. KernelKnows(m) /\ m \in Nodes
        BY <3>1 DEF TreeInv, PinsOK, Unanswered, RequestsOK, WellFormed, Request
      <3>3. CASE m = n
        <4>1. nlookup[n] > k /\ nlookup[n] \in Nat
          BY <1>0, <1>1, <1>2, <3>2, <3>3 DEF KernelKnows, Forgetting, TreeTypeOK
        <4>2. nlookup'[n] > 0
          BY <1>2, <2>1, <4>1 DEF TreeTypeOK
        <4>3. Forgetting(n)' = {}
          BY <1>2, <2>2, NoRequestFacts DEF Forgetting
        <4> QED
          BY <3>3, <4>2, <4>3 DEF KernelKnows
      <3>4. CASE m # n
        <4>1. \A v \in Forgetting(m)' : v \in Forgetting(m) /\ req'[v] = req[v]
          BY <2>6, SettlesForgetting DEF TreeInv
        <4> QED
          BY <2>7, <3>2, <3>4, <4>1 DEF KernelKnows
      <3> QED
        BY <3>3, <3>4
    <2>10. RenamesOK'
      BY <1>2, <1>4, <2>6, DropRenames
    <2> QED
      BY <2>1, <2>4, <2>5, <2>6, <2>8, <2>9, <2>10, SettlesDirs DEF TreeInv
  <1> QED
    BY <1>0, <1>3, <1>4 DEF ResumeForget

-----------------------------------------------------------------------------
(* The whole.                                                               *)

LEMMA RequestShapes ==
  /\ \A op \in PathOps \cap Ops, n \in Nodes :
       WellFormed([NoRequest EXCEPT !.op = op, !.ino1 = n])
  /\ \A op \in NameOps \cap Ops, p \in Nodes, nm \in Names :
       WellFormed([NoRequest EXCEPT !.op = op, !.ino1 = p, !.name1 = nm])
  /\ \A p, q \in Nodes, nm, nm2 \in Names :
       "rename" \in Ops =>
         WellFormed([NoRequest EXCEPT !.op = "rename", !.ino1 = p, !.name1 = nm,
                                      !.ino2 = q, !.name2 = nm2])
  /\ \A n, p \in Nodes, nm \in Names :
       "link" \in Ops =>
         WellFormed([NoRequest EXCEPT !.op = "link", !.ino1 = n, !.ino2 = p, !.name2 = nm])
  <1>1. ASSUME NEW op \in PathOps \cap Ops, NEW n \in Nodes
        PROVE  WellFormed([NoRequest EXCEPT !.op = op, !.ino1 = n])
    BY DEF WellFormed, NoRequest, Request, PathOps, NameOps, PathPairOps
  <1>2. ASSUME NEW op \in NameOps \cap Ops, NEW p \in Nodes, NEW nm \in Names
        PROVE  WellFormed([NoRequest EXCEPT !.op = op, !.ino1 = p, !.name1 = nm])
    BY DEF WellFormed, NoRequest, Request, NameOps, PathPairOps
  <1>3. ASSUME NEW p \in Nodes, NEW q \in Nodes, NEW nm \in Names, NEW nm2 \in Names,
               "rename" \in Ops
        PROVE  WellFormed([NoRequest EXCEPT !.op = "rename", !.ino1 = p, !.name1 = nm,
                                            !.ino2 = q, !.name2 = nm2])
    BY <1>3 DEF WellFormed, NoRequest, Request, NameOps, PathPairOps
  <1>4. ASSUME NEW n \in Nodes, NEW p \in Nodes, NEW nm \in Names, "link" \in Ops
        PROVE  WellFormed([NoRequest EXCEPT !.op = "link", !.ino1 = n, !.ino2 = p, !.name2 = nm])
    BY <1>4 DEF WellFormed, NoRequest, Request, NameOps, PathPairOps
  <1> QED
    BY <1>1, <1>2, <1>3, <1>4

(* The handlers of all requests but forgets begin alike.                    *)
LEMMA AnyReceived ==
  ASSUME NEW t \in Threads,
         ReceiveNode(t) \/ ReceiveEntry(t) \/ ReceiveRename(t) \/ ReceiveLink(t)
  PROVE  \E r : WellFormed(r) /\ r.op \notin {"none", "forget"} /\ Receive(t, r)
  <1>1. CASE ReceiveNode(t)
    <2>1. PICK op \in PathOps, n \in Nodes :
            Receive(t, [NoRequest EXCEPT !.op = op, !.ino1 = n])
      BY <1>1 DEF ReceiveNode
    <2>2. [NoRequest EXCEPT !.op = op, !.ino1 = n].op = op
      BY DEF NoRequest
    <2>3. op \in Ops
      BY <2>1, <2>2 DEF Receive, KernelMaySend
    <2> QED
      BY <2>1, <2>2, <2>3, RequestShapes DEF PathOps
  <1>2. CASE ReceiveEntry(t)
    <2>1. PICK op \in NameOps, p \in Nodes, nm \in Names :
            Receive(t, [NoRequest EXCEPT !.op = op, !.ino1 = p, !.name1 = nm])
      BY <1>2 DEF ReceiveEntry
    <2>2. [NoRequest EXCEPT !.op = op, !.ino1 = p, !.name1 = nm].op = op
      BY DEF NoRequest
    <2>3. op \in Ops
      BY <2>1, <2>2 DEF Receive, KernelMaySend
    <2> QED
      BY <2>1, <2>2, <2>3, RequestShapes DEF NameOps
  <1>3. CASE ReceiveRename(t)
    <2>1. PICK p \in Nodes, q \in Nodes, nm \in Names, nm2 \in Names :
            Receive(t, [NoRequest EXCEPT !.op = "rename", !.ino1 = p, !.name1 = nm,
                                         !.ino2 = q, !.name2 = nm2])
      BY <1>3 DEF ReceiveRename
    <2>2. [NoRequest EXCEPT !.op = "rename", !.ino1 = p, !.name1 = nm,
                            !.ino2 = q, !.name2 = nm2].op = "rename"
      BY DEF NoRequest
    <2>3. "rename" \in Ops
      BY <2>1, <2>2 DEF Receive, KernelMaySend
    <2> QED
      BY <2>1, <2>2, <2>3, RequestShapes
  <1>4. CASE ReceiveLink(t)
    <2>1. PICK n \in Nodes, p \in Nodes, nm \in Names :
            Receive(t, [NoRequest EXCEPT !.op = "link", !.ino1 = n, !.ino2 = p, !.name2 = nm])
      BY <1>4 DEF ReceiveLink
    <2>2. [NoRequest EXCEPT !.op = "link", !.ino1 = n, !.ino2 = p, !.name2 = nm].op = "link"
      BY DEF NoRequest
    <2>3. "link" \in Ops
      BY <2>1, <2>2 DEF Receive, KernelMaySend
    <2> QED
      BY <2>1, <2>2, <2>3, RequestShapes
  <1> QED
    BY <1>1, <1>2, <1>3, <1>4

LEMMA ReceiveAnyInv ==
  ASSUME TreeInv, NEW t \in Threads,
         ReceiveNode(t) \/ ReceiveEntry(t) \/ ReceiveRename(t) \/ ReceiveLink(t)
  PROVE  TreeInv'
  BY AnyReceived, ReceiveInv

LEMMA TreeInvInit == Init => TreeInv
  <1> SUFFICES ASSUME Init
               PROVE  TreeInv
    OBVIOUS
  <1>1. /\ parent = InitParent /\ name = InitName /\ nlookup = InitLookup
        /\ treelock = [n \in Nodes |-> 0] /\ lockq = << >> /\ scan = 0
        /\ pc = [t \in Threads |-> "idle"] /\ req = [t \in Threads |-> NoRequest]
        /\ hold = [h \in Handles |-> FALSE] /\ wnode = [h \in Handles |-> NoNode]
        /\ path = [h \in Handles |-> NoPath]
        /\ done = [t \in Threads |-> FALSE] /\ err = [t \in Threads |-> "ok"]
    BY DEF Init
  <1>2. TypeOK
    <2>1. NoRequest \in Request
      BY NoRequestFacts DEF WellFormed
    <2> QED
      BY <1>1, <2>1, NoPathType, InitTreeAssumption DEF TypeOK, TreeTypeOK
  <1>3. RequestsOK /\ QueueOK /\ ForgetsOK /\ DirsOK /\ PinsOK /\ RenamesOK
    BY <1>1, NoRequestFacts
    DEF RequestsOK, QueueOK, ForgetsOK, DirsOK, PinsOK, RenamesOK, Unanswered
  <1>4. Acyclic
    BY <1>1, InitTreeAssumption DEF Acyclic, Closed
  <1>5. TreeOK
    <2>1. ChainsAreLeast
      BY <1>2, <1>4, ChainClosure DEF TypeOK, TreeTypeOK, ParentOK
    <2>2. ASSUME NEW n \in Nodes, parent[n] # NoNode
          PROVE  Alive(n) /\ name[n] \in Names \cup {n}
      <3>1. InitLookup[n] # 0 /\ InitName[n] # NoName
        BY <1>1, <2>2, InitTreeAssumption
      <3>2. nlookup[n] > 0 /\ name[n] \in Names
        BY <1>1, <3>1, InitTreeAssumption
      <3> QED
        BY <2>1, <3>2 DEF ChainsAreLeast, Alive, AliveUnder
    <2> QED
      BY <1>1, <2>2, InitTreeAssumption DEF TreeOK
  <1> QED
    BY <1>2, <1>3, <1>4, <1>5 DEF TreeInv

LEMMA TreeInvNext == TreeInv /\ [Next]_vars => TreeInv'
  <1> SUFFICES ASSUME TreeInv, [Next]_vars
               PROVE  TreeInv'
    OBVIOUS
  <1>1. CASE WakeElement
    BY <1>1, WakeElementInv
  <1>2. ASSUME NEW t \in Threads,
               ReceiveNode(t) \/ ReceiveEntry(t) \/ ReceiveRename(t) \/ ReceiveLink(t)
        PROVE  TreeInv'
    BY <1>2, ReceiveAnyInv
  <1>3. ASSUME NEW t \in Threads, ReceiveForget(t)
        PROVE  TreeInv'
    BY <1>3, ReceiveForgetInv
  <1>4. ASSUME NEW t \in Threads, Act(t) \/ Hide(t)
        PROVE  TreeInv'
    BY <1>4, ActInv
  <1>5. ASSUME NEW t \in Threads, Reply(t)
        PROVE  TreeInv'
    BY <1>5, ReplyInv
  <1>6. ASSUME NEW t \in Threads, FreePath(t)
        PROVE  TreeInv'
    BY <1>6, FreePathInv
  <1>7. ASSUME NEW t \in Threads, Resume(t)
        PROVE  TreeInv'
    BY <1>7, ResumeInv
  <1>8. ASSUME NEW t \in Threads, ResumeForget(t)
        PROVE  TreeInv'
    BY <1>8, ResumeForgetInv
  <1>9. CASE UNCHANGED vars
    <2>1. /\ UNCHANGED treeVars /\ UNCHANGED lockVars /\ pc' = pc /\ req' = req
      BY <1>9 DEF vars
    <2>2. TypeOK' /\ RequestsOK' /\ QueueOK' /\ Settles
      BY <2>1 DEF TreeInv, TypeOK, TreeTypeOK, treeVars, lockVars, RequestsOK, QueueOK, Settles
    <2> QED
      BY <2>1, <2>2, SettlesInv
  <1> QED
    BY <1>1, <1>2, <1>3, <1>4, <1>5, <1>6, <1>7, <1>8, <1>9 DEF Next

(* The inductive invariant holds in every reachable state.                  *)
THEOREM TreeInvariant == Spec => []TreeInv
  BY TreeInvInit, TreeInvNext, PTL DEF Spec

(* Type correctness of lib/fuse.c's tree, locks, queue and requests: in     *)
(* particular treelock counts stay integers of existing nodes, the running  *)
(* pass of wake_up_queued never leaves the queue, and a path string names   *)
(* existing nodes only.                                                     *)
THEOREM TypeCorrect == Spec => []TypeOK
  <1>1. TreeInv => TypeOK
    BY DEF TreeInv
  <1> QED
    BY <1>1, TreeInvariant, PTL

(* Renames racing with lookups, removals and forgets never close a cycle of *)
(* node->parent, so that the loops of try_get_path and unlock_path end.     *)
THEOREM TreeStaysATree == Spec => []Acyclic
  <1>1. TreeInv => Acyclic
    BY DEF TreeInv
  <1> QED
    BY <1>1, TreeInvariant, PTL

-----------------------------------------------------------------------------
(* The account of one node: the count k fits the paths R that read it and   *)
(* the paths W that have it write-locked.                                   *)
Fits(k, R, W) ==
  \/ k = TREELOCK_WRITE /\ Cardinality(R) = 0 /\ Cardinality(W) = 1
  \/ k = Cardinality(R) /\ W = {}
  \/ k = Cardinality(R) + WaitOffset /\ Cardinality(R) > 0 /\ W = {}

(* No more paths are ever held than the worker threads have.                *)
LEMMA FewHandles ==
  ASSUME NEW S \in SUBSET Handles
  PROVE  /\ IsFiniteSet(S) /\ Cardinality(S) \in Nat
         /\ Cardinality(S) + WaitOffset < TREELOCK_WRITE
  <1>1. IsFiniteSet({1, 2}) /\ Cardinality({1, 2}) = 2
    <2>1. IsFiniteSet({1}) /\ Cardinality({1}) = 1
      BY FS_Singleton
    <2>2. IsFiniteSet({1} \cup {2}) /\ Cardinality({1} \cup {2}) = 2
      BY <2>1, FS_AddElement
    <2>3. {1} \cup {2} = {1, 2}
      OBVIOUS
    <2> QED
      BY <2>2, <2>3
  <1>2. IsFiniteSet(Threads) /\ Cardinality(Threads) \in Nat
    BY PathLockAssumption, FS_CardinalityType
  <1>3. IsFiniteSet(Handles) /\ Cardinality(Handles) = Cardinality(Threads) * 2
    BY <1>1, <1>2, FS_Product DEF Handles
  <1>4. IsFiniteSet(S) /\ Cardinality(S) <= Cardinality(Handles) /\ Cardinality(S) \in Nat
    BY <1>3, FS_Subset, FS_CardinalityType
  <1> QED
    BY <1>2, <1>3, <1>4, PathLockAssumption DEF TREELOCK_WRITE

LEMMA AddReader ==
  ASSUME NEW k \in Int, NEW R \in SUBSET Handles, NEW W \in SUBSET Handles,
         NEW h \in Handles \ R, Fits(k, R, W), k >= 0
  PROVE  Fits(k + 1, R \cup {h}, W)
  <1>1. /\ Cardinality(R) \in Nat /\ Cardinality(R) + WaitOffset < -1 /\ WaitOffset \in Int
        /\ Cardinality(R \cup {h}) = Cardinality(R) + 1
    BY FewHandles, FS_AddElement, PathLockAssumption DEF TREELOCK_WRITE
  <1> QED
    BY <1>1 DEF Fits, TREELOCK_WRITE

LEMMA DropReader ==
  ASSUME NEW k \in Int, NEW R \in SUBSET Handles, NEW W \in SUBSET Handles,
         NEW h \in R, Fits(k, R, W)
  PROVE  Fits(Dec(k), R \ {h}, W)
  <1>1. /\ Cardinality(R) \in Nat /\ Cardinality(R) + WaitOffset < -1 /\ WaitOffset \in Int
        /\ Cardinality(R \ {h}) = Cardinality(R) - 1 /\ Cardinality(R \ {h}) \in Nat
    BY FewHandles, FS_RemoveElement, PathLockAssumption DEF TREELOCK_WRITE
  <1> QED
    BY <1>1 DEF Fits, Dec, TREELOCK_WRITE

LEMMA AddWriter ==
  ASSUME NEW R \in SUBSET Handles, NEW W \in SUBSET Handles, NEW h, Fits(0, R, W)
  PROVE  R = {} /\ W = {} /\ Fits(TREELOCK_WRITE, R, W \cup {h})
  <1>1. /\ Cardinality(R) \in Nat /\ Cardinality(R) + WaitOffset < -1 /\ WaitOffset \in Int
        /\ Cardinality(R) = 0 <=> R = {}
    BY FewHandles, FS_EmptySet, PathLockAssumption DEF TREELOCK_WRITE
  <1>2. W = {} /\ Cardinality(R) = 0
    BY <1>1 DEF Fits, TREELOCK_WRITE
  <1>3. Cardinality({} \cup {h}) = 1
    <2>1. {} \cup {h} = {h}
      OBVIOUS
    <2> QED
      BY <2>1, FS_Singleton
  <1> QED
    BY <1>1, <1>2, <1>3 DEF Fits

LEMMA WriterAlone ==
  ASSUME NEW k \in Int, NEW R \in SUBSET Handles, NEW W \in SUBSET Handles,
         NEW h \in W, Fits(k, R, W)
  PROVE  k = TREELOCK_WRITE /\ R = {} /\ W = {h}
  <1>1. k = TREELOCK_WRITE /\ Cardinality(R) = 0 /\ Cardinality(W) = 1
    BY DEF Fits
  <1>2. IsFiniteSet(R) /\ IsFiniteSet(W)
    BY FewHandles
  <1> QED
    BY <1>1, <1>2, FS_EmptySet, FS_Singleton

LEMMA DropWriter ==
  ASSUME NEW k \in Int, NEW R \in SUBSET Handles, NEW W \in SUBSET Handles,
         NEW h \in W, Fits(k, R, W)
  PROVE  Fits(0, R, W \ {h})
  BY WriterAlone, FS_EmptySet DEF Fits

LEMMA AnnounceWriter ==
  ASSUME NEW k \in Int, NEW R \in SUBSET Handles, NEW W \in SUBSET Handles,
         Fits(k, R, W), k > 0
  PROVE  Fits(k + WaitOffset, R, W)
  <1>1. Cardinality(R) \in Nat /\ Cardinality(R) + WaitOffset < -1 /\ WaitOffset \in Int
    BY FewHandles, PathLockAssumption DEF TREELOCK_WRITE
  <1> QED
    BY <1>1 DEF Fits, TREELOCK_WRITE

(* A node is in use exactly while its count is not 0.                       *)
LEMMA InUse ==
  ASSUME NEW k \in Int, NEW R \in SUBSET Handles, NEW W \in SUBSET Handles, Fits(k, R, W)
  PROVE  /\ k = 0 <=> R = {} /\ W = {}
         /\ k >= 0 => W = {}
         /\ k < 0 => R # {} \/ W # {}
         /\ k < 0 /\ W = {} => R # {}
  <1>1. /\ Cardinality(R) \in Nat /\ Cardinality(R) + WaitOffset < -1 /\ WaitOffset \in Int
        /\ Cardinality(R) = 0 <=> R = {}
    BY FewHandles, FS_EmptySet, PathLockAssumption DEF TREELOCK_WRITE
  <1>2. W = {} => Cardinality(W) = 0
    BY FS_EmptySet
  <1> QED
    BY <1>1, <1>2 DEF Fits, TREELOCK_WRITE

-----------------------------------------------------------------------------
(* The account of all nodes, for the paths H that lead to the nodes ino and *)
(* have write-locked wn: what LockAccounting says, so that it can be spoken *)
(* of while a handler is at work.                                           *)
ReadersOf(H, ino, n) == {h \in H : n \in Path(ino[h])}
WritersOf(H, wn, n) == {h \in H : wn[h] = n}

Counted(tl, H, ino, wn) ==
  \A n \in Nodes : Fits(tl[n], ReadersOf(H, ino, n), WritersOf(H, wn, n))

LEMMA LockCounted ==
  ASSUME NEW tl, TableOK(tl), NEW H \in SUBSET Handles, NEW ino, NEW wn, NEW wn2,
         NEW h \in Handles \ H, NEW w \in Nodes \cup {NoNode},
         Counted(tl, H, ino, wn), \A g \in H : wn2[g] = wn[g], wn2[h] = w,
         w \notin Path(ino[h]), w \in Nodes => tl[w] = 0,
         \A m \in Nodes : m \in Path(ino[h]) => tl[m] >= 0
  PROVE  Counted(LockPath(tl, ino[h], w), H \cup {h}, ino, wn2)
  <1> SUFFICES ASSUME NEW n \in Nodes
               PROVE  Fits(LockPath(tl, ino[h], w)[n], ReadersOf(H \cup {h}, ino, n),
                           WritersOf(H \cup {h}, wn2, n))
    BY DEF Counted
  <1>1. tl[n] \in Int /\ Fits(tl[n], ReadersOf(H, ino, n), WritersOf(H, wn, n))
    BY DEF TableOK, Counted
  <1>2. PICK R, W : R = ReadersOf(H, ino, n) /\ W = WritersOf(H, wn, n)
    OBVIOUS
  <1>3. R \in SUBSET Handles /\ W \in SUBSET Handles /\ h \notin R
    BY <1>2 DEF ReadersOf, WritersOf
  <1>4. /\ ReadersOf(H \cup {h}, ino, n) = IF n \in Path(ino[h]) THEN R \cup {h} ELSE R
        /\ WritersOf(H \cup {h}, wn2, n) = IF n = w THEN W \cup {h} ELSE W
    BY <1>2 DEF ReadersOf, WritersOf
  <1>5. CASE n = w
    <2>1. LockPath(tl, ino[h], w)[n] = TREELOCK_WRITE
      BY <1>5 DEF LockPath
    <2>2. Fits(0, R, W)
      BY <1>1, <1>2, <1>5
    <2>3. Fits(TREELOCK_WRITE, R, W \cup {h}) /\ n \notin Path(ino[h])
      BY <1>3, <1>5, <2>2, AddWriter
    <2> QED
      BY <1>4, <1>5, <2>1, <2>3
  <1>6. CASE n # w /\ n \in Path(ino[h])
    <2>1. LockPath(tl, ino[h], w)[n] = tl[n] + 1
      BY <1>6 DEF LockPath
    <2>2. Fits(tl[n] + 1, R \cup {h}, W)
      BY <1>1, <1>2, <1>3, <1>6, AddReader
    <2> QED
      BY <1>4, <1>6, <2>1, <2>2
  <1>7. CASE n # w /\ n \notin Path(ino[h])
    <2>1. LockPath(tl, ino[h], w)[n] = tl[n]
      BY <1>7 DEF LockPath
    <2> QED
      BY <1>1, <1>2, <1>4, <1>7, <2>1
  <1> QED
    BY <1>5, <1>6, <1>7

LEMMA UnlockCounted ==
  ASSUME NEW tl, TableOK(tl), NEW H \in SUBSET Handles, NEW ino, NEW wn,
         NEW h \in H, wn[h] \in Nodes \cup {NoNode}, Counted(tl, H, ino, wn)
  PROVE  Counted(UnlockPath(tl, ino[h], wn[h]), H \ {h}, ino, wn)
  <1> SUFFICES ASSUME NEW n \in Nodes
               PROVE  Fits(UnlockPath(tl, ino[h], wn[h])[n], ReadersOf(H \ {h}, ino, n),
                           WritersOf(H \ {h}, wn, n))
    BY DEF Counted
  <1>1. tl[n] \in Int /\ Fits(tl[n], ReadersOf(H, ino, n), WritersOf(H, wn, n))
    BY DEF TableOK, Counted
  <1>2. PICK R, W : R = ReadersOf(H, ino, n) /\ W = WritersOf(H, wn, n)
    OBVIOUS
  <1>3. R \in SUBSET Handles /\ W \in SUBSET Handles
    BY <1>2 DEF ReadersOf, WritersOf
  <1>4. /\ ReadersOf(H \ {h}, ino, n) = R \ {h}
        /\ WritersOf(H \ {h}, wn, n) = W \ {h}
        /\ h \in R <=> n \in Path(ino[h])
        /\ h \in W <=> n = wn[h]
    BY <1>2 DEF ReadersOf, WritersOf
  <1>5. CASE n = wn[h]
    <2>1. UnlockPath(tl, ino[h], wn[h])[n] = 0
      BY <1>5 DEF UnlockPath
    <2>2. R = {} /\ Fits(0, R, W \ {h})
      BY <1>1, <1>2, <1>3, <1>4, <1>5, DropWriter, WriterAlone
    <2>3. R \ {h} = R
      BY <2>2
    <2> QED
      BY <1>4, <2>1, <2>2, <2>3
  <1>6. CASE n # wn[h] /\ n \in Path(ino[h])
    <2>1. UnlockPath(tl, ino[h], wn[h])[n] = Dec(tl[n])
      BY <1>6 DEF UnlockPath
    <2>2. Fits(Dec(tl[n]), R \ {h}, W) /\ W \ {h} = W
      BY <1>1, <1>2, <1>3, <1>4, <1>6, DropReader
    <2> QED
      BY <1>4, <2>1, <2>2
  <1>7. CASE n # wn[h] /\ n \notin Path(ino[h])
    <2>1. UnlockPath(tl, ino[h], wn[h])[n] = tl[n]
      BY <1>7 DEF UnlockPath
    <2>2. R \ {h} = R /\ W \ {h} = W
      BY <1>4, <1>7
    <2> QED
      BY <1>1, <1>2, <1>4, <2>1, <2>2
  <1> QED
    BY <1>5, <1>6, <1>7

LEMMA AnnounceCounted ==
  ASSUME NEW tl, TableOK(tl), NEW H \in SUBSET Handles, NEW ino, NEW wn,
         NEW w \in Nodes \cup {NoNode}, Counted(tl, H, ino, wn)
  PROVE  Counted(Announce(tl, w), H, ino, wn)
  <1> SUFFICES ASSUME NEW n \in Nodes
               PROVE  Fits(Announce(tl, w)[n], ReadersOf(H, ino, n), WritersOf(H, wn, n))
    BY DEF Counted
  <1>1. tl[n] \in Int /\ Fits(tl[n], ReadersOf(H, ino, n), WritersOf(H, wn, n))
    BY DEF TableOK, Counted
  <1>2. ReadersOf(H, ino, n) \in SUBSET Handles /\ WritersOf(H, wn, n) \in SUBSET Handles
    BY DEF ReadersOf, WritersOf
  <1>3. Announce(tl, w)[n] = IF n = w /\ tl[n] > 0 THEN tl[n] + WaitOffset ELSE tl[n]
    BY DEF Announce, TableOK
  <1> QED
    BY <1>1, <1>2, <1>3, AnnounceWriter

(* The account looks at the nodes of the paths that are held only.          *)
LEMMA CountedAgrees ==
  ASSUME NEW tl, NEW H, NEW ino, NEW wn, NEW wn2,
         Counted(tl, H, ino, wn), \A h \in H : wn2[h] = wn[h]
  PROVE  Counted(tl, H, ino, wn2)
  <1>1. \A n : WritersOf(H, wn2, n) = WritersOf(H, wn, n)
    BY DEF WritersOf
  <1> QED
    BY <1>1 DEF Counted

-----------------------------------------------------------------------------
(* On the tree and off it.                                                  *)

LEMMA ChainFacts ==
  ASSUME TypeOK, Acyclic, NEW n \in Nodes
  PROVE  /\ n \in Chain(n) /\ Chain(n) \in SUBSET Nodes
         /\ Chain(n) = {n} \cup IF parent[n] = NoNode THEN {} ELSE Chain(parent[n])
         /\ \A m \in Chain(n) : Chain(m) \subseteq Chain(n)
  <1>1. ParentOK
    BY DEF TypeOK, TreeTypeOK, ParentOK
  <1>2. ChainsAreLeast
    BY <1>1, ChainClosure
  <1>3. Chain(n) = {n} \cup IF parent[n] = NoNode THEN {} ELSE Chain(parent[n])
    BY <1>1, WalkStep DEF Chain
  <1>4. /\ n \in Chain(n) /\ Closed(Chain(n)) /\ Chain(n) \in SUBSET Nodes
    BY <1>2 DEF ChainsAreLeast
  <1>5. \A m \in Chain(n) : Chain(m) \subseteq Chain(n)
    BY <1>2, <1>4 DEF ChainsAreLeast
  <1> QED
    BY <1>3, <1>4, <1>5

(* Whatever a walk that reaches the root visits is below the root.          *)
LEMMA AttachedAbove ==
  ASSUME TypeOK, Acyclic, TreeOK, NEW x \in Nodes, Attached(x), NEW m \in Chain(x)
  PROVE  Attached(m) /\ (m # Root => parent[m] # NoNode)
  <1> DEFINE D == {y \in Nodes : Attached(y) /\ \E k \in Chain(y) : ~Attached(k)}
  <1>1. ASSUME NEW y \in D
        PROVE  parent[y] # NoNode /\ parent[y] \in D
    <2>1. /\ y \in Nodes /\ Root \in Chain(y)
          /\ Chain(y) = {y} \cup IF parent[y] = NoNode THEN {} ELSE Chain(parent[y])
      BY ChainFacts DEF Attached
    <2>2. PICK k \in Chain(y) : ~Attached(k)
      OBVIOUS
    <2>3. k # y
      BY <2>1, <2>2 DEF Attached
    <2>4. parent[y] # NoNode /\ k \in Chain(parent[y])
      BY <2>1, <2>3
    <2>5. y # Root
      BY <2>4 DEF TreeOK
    <2>6. parent[y] \in Nodes /\ Root \in Chain(parent[y])
      BY <2>1, <2>4, <2>5 DEF TypeOK, TreeTypeOK
    <2> QED
      BY <2>2, <2>4, <2>6 DEF Attached
  <1>2. D = {}
    <2>1. D \in SUBSET Nodes /\ Closed(D)
      BY <1>1 DEF Closed
    <2> HIDE DEF D
    <2> QED
      BY <1>1, <2>1 DEF Acyclic
  <1>3. Attached(m)
    BY <1>2
  <1>4. ASSUME m # Root
        PROVE  parent[m] # NoNode
    <2>1. m \in Nodes
      BY ChainFacts
    <2> QED
      BY <1>3, <1>4, <2>1, ChainFacts DEF Attached
  <1> QED
    BY <1>3, <1>4

(* All locks are on nodes below the root, except that a node may leave the  *)
(* tree while it is write-locked.                                           *)
OnTree(H, ino, wn) ==
  \A h \in H :
    /\ ino[h] \in Nodes /\ Attached(ino[h])
    /\ wn[h] \in Nodes /\ parent[wn[h]] # NoNode => Attached(parent[wn[h]])

LEMMA OffTreeFree ==
  ASSUME TypeOK, Acyclic, TreeOK, NEW tl, TableOK(tl), NEW H \in SUBSET Handles, NEW ino,
         NEW wn, Counted(tl, H, ino, wn), OnTree(H, ino, wn),
         NEW m \in Nodes, parent[m] # NoNode, ~Attached(m)
  PROVE  tl[m] = 0
  <1>1. ReadersOf(H, ino, m) = {}
    BY AttachedAbove DEF ReadersOf, OnTree, Path
  <1>2. WritersOf(H, wn, m) = {}
    <2>1. Attached(parent[m]) => Attached(m)
      BY ChainFacts DEF Attached
    <2> QED
      BY <2>1 DEF WritersOf, OnTree
  <1> QED
    BY <1>1, <1>2, InUse DEF Counted, TableOK

-----------------------------------------------------------------------------
(* What try_get_path comes to.                                              *)

(* It got the path: the walk reached the root, and met no writer.           *)
Got(tl, r, i, o) ==
  LET n == Ino(r, i)
      w == IF r.op \in WriteOps THEN LookupNode(n, Entry(r, i)) ELSE NoNode
  IN  /\ o.w = w /\ o.tl = LockPath(tl, n, w) /\ o.p = PathNames(n)
      /\ Attached(n) /\ w \notin Path(n)
      /\ w \in Nodes => tl[w] = 0 /\ parent[w] = n
      /\ \A m \in Nodes : m \in Path(n) => tl[m] >= 0

(* It did not: at most a writer has announced itself.                       *)
Missed(tl, o) ==
  /\ o.w = NoNode /\ o.p = NoPath
  /\ \E w \in Nodes \cup {NoNode} : o.tl = Announce(tl, w)

LEMMA TryPathEnds ==
  ASSUME TypeOK, Acyclic, TreeOK, NEW tl, TableOK(tl), NEW r, NEW i, Ino(r, i) \in Nodes,
         NEW o \in TryPath(tl, r, i)
  PROVE  IF o.err = "ok" THEN Got(tl, r, i, o) ELSE Missed(tl, o)
  <1> DEFINE n == Ino(r, i)
             w == IF r.op \in WriteOps THEN LookupNode(n, Entry(r, i)) ELSE NoNode
  <1>1. w \in Nodes \cup {NoNode} /\ NoNode \notin Nodes
    BY LookupNodeType, NodeTreeAssumption
  <1>2. \/ o = Failure("EAGAIN", Announce(tl, w))
        \/ o = Failure("EAGAIN", tl) \/ o = Failure("ENOENT", tl) \/ o = Failure("ENOMEM", tl)
        \/ /\ o = [err |-> "ok", tl |-> LockPath(tl, n, w), w |-> w, p |-> PathNames(n)]
           /\ ~Busy(tl, w) /\ ~Blocked(tl, n) /\ Attached(n)
    BY DEF TryPath, TryGetPath
  <1>3. tl = Announce(tl, NoNode)
    BY <1>1 DEF Announce, TableOK
  <1>4. ASSUME o.err = "ok"
        PROVE  Got(tl, r, i, o)
    <2>1. /\ o.w = w /\ o.tl = LockPath(tl, n, w) /\ o.p = PathNames(n)
          /\ ~Busy(tl, w) /\ ~Blocked(tl, n) /\ Attached(n)
      BY <1>2, <1>4 DEF Failure
    <2>2. ASSUME w \in Nodes
          PROVE  parent[w] = n /\ w \notin Path(n) /\ tl[w] = 0
      <3>1. parent[w] = n
        BY <2>2, LookupNodeType, NodeTreeAssumption DEF IsChild
      <3>2. ParentOK
        BY DEF TypeOK, TreeTypeOK, ParentOK
      <3>3. w \notin Chain(n)
        BY <2>2, <3>1, <3>2, ChildNotAbove
      <3> QED
        BY <1>1, <2>1, <2>2, <3>1, <3>3 DEF Path, Busy
    <2>3. w \notin Nodes => w \notin Path(n)
      BY ChainFacts DEF Path
    <2>4. ASSUME NEW m \in Nodes, m \in Path(n)
          PROVE  tl[m] >= 0
      <3>1. parent[m] # NoNode
        BY <2>1, <2>4, AttachedAbove DEF Path
      <3> QED
        BY <2>1, <2>4, <3>1 DEF Blocked, TableOK
    <2> QED
      BY <2>1, <2>2, <2>3, <2>4 DEF Got
  <1>5. ASSUME o.err # "ok"
        PROVE  Missed(tl, o)
    <2>1. o.w = NoNode /\ o.p = NoPath /\ (o.tl = Announce(tl, w) \/ o.tl = Announce(tl, NoNode))
      BY <1>2, <1>3, <1>5 DEF Failure
    <2> HIDE DEF w
    <2> QED
      BY <1>1, <2>1 DEF Missed
  <1> QED
    BY <1>4, <1>5

(* A path off the tree fails for good, however often it is tried.           *)
LEMMA DetachedFails ==
  ASSUME TypeOK, Acyclic, TreeOK, NEW tl, TableOK(tl), NEW r, NEW i, Ino(r, i) \in Nodes,
         NEW o \in TryPath(tl, r, i), r.op \notin OutOfMemory, ~Attached(Ino(r, i)),
         \A m \in Nodes : parent[m] # NoNode /\ ~Attached(m) => tl[m] = 0
  PROVE  o.err = "ENOENT"
  <1> DEFINE n == Ino(r, i)
             w == IF r.op \in WriteOps THEN LookupNode(n, Entry(r, i)) ELSE NoNode
  <1>1. ~Busy(tl, w)
    <2> SUFFICES ASSUME w # NoNode
                 PROVE  tl[w] = 0
      BY DEF Busy
    <2>1. w \in Nodes /\ parent[w] = n
      BY LookupNodeType, NodeTreeAssumption DEF IsChild
    <2>2. parent[w] # NoNode /\ w # Root
      BY <2>1, NodeTreeAssumption DEF TreeOK
    <2>3. ~Attached(w)
      BY <2>1, <2>2, ChainFacts DEF Attached
    <2> QED
      BY <2>1, <2>2, <2>3
  <1>2. ~Blocked(tl, n)
    <2> SUFFICES ASSUME NEW m \in Path(n), parent[m] # NoNode
                 PROVE  ~(tl[m] < 0)
      BY DEF Blocked
    <2>1. m \in Nodes /\ ~Attached(m)
      BY ChainFacts DEF Path, Attached
    <2> QED
      BY <2>1
  <1>3. o = Failure("ENOENT", tl)
    <2>1. TryPath(tl, r, i) = TryGetPath(tl, n, Entry(r, i), r.op \in WriteOps)
      BY DEF TryPath
    <2> QED
      BY <1>1, <1>2, <2>1 DEF TryGetPath
  <1> QED
    BY <1>3 DEF Failure

-----------------------------------------------------------------------------
(* A thread at work on the two paths of request r, with the outcomes o1 and *)
(* o2 so far: the account balances for what it has of them and for what the *)
(* other threads hold.                                                      *)
HeldPaths == {h \in Handles : hold[h]}
Others(t) == {h \in HeldPaths : h[1] # t}
Kept(t, o1, o2) == {h \in {<<t, 1>>, <<t, 2>>} :
                      \/ h = <<t, 1>> /\ o1.err = "ok"
                      \/ h = <<t, 2>> /\ o2.err = "ok"}
InosWith(t, r) == [h \in Handles |-> IF h[1] = t THEN Ino(r, h[2]) ELSE HandleIno(h)]
NodesWith(t, o1, o2) == [h \in Handles |-> CASE h = <<t, 1>> -> o1.w
                                             [] h = <<t, 2>> -> o2.w
                                             [] OTHER -> wnode[h]]

Balance(t, r, tl, o1, o2) ==
  Counted(tl, Others(t) \cup Kept(t, o1, o2), InosWith(t, r), NodesWith(t, o1, o2))

LEMMA HandleFacts ==
  ASSUME NEW t \in Threads
  PROVE  /\ <<t, 1>> \in Handles /\ <<t, 2>> \in Handles /\ <<t, 1>> # <<t, 2>>
         /\ <<t, 1>>[1] = t /\ <<t, 2>>[1] = t /\ <<t, 1>>[2] = 1 /\ <<t, 2>>[2] = 2
         /\ \A h \in Handles : h[1] = t => h \in {<<t, 1>>, <<t, 2>>}
         /\ \A h \in Handles : h[1] \in Threads /\ h[2] \in {1, 2} /\ h = <<h[1], h[2]>>
  BY DEF Handles

LEMMA KeptFacts ==
  ASSUME NEW t \in Threads, NEW o1, NEW o2
  PROVE  /\ Others(t) \cup Kept(t, o1, o2) \in SUBSET Handles
         /\ <<t, 1>> \in Others(t) \cup Kept(t, o1, o2) <=> o1.err = "ok"
         /\ <<t, 2>> \in Others(t) \cup Kept(t, o1, o2) <=> o2.err = "ok"
         /\ \A h \in Others(t) \cup Kept(t, o1, o2) : h[1] # t => h \in HeldPaths
         /\ \A r : InosWith(t, r)[<<t, 1>>] = Ino(r, 1) /\ InosWith(t, r)[<<t, 2>>] = Ino(r, 2)
         /\ NodesWith(t, o1, o2)[<<t, 1>>] = o1.w /\ NodesWith(t, o1, o2)[<<t, 2>>] = o2.w
         /\ \A h \in Handles : h[1] # t => /\ NodesWith(t, o1, o2)[h] = wnode[h]
                                           /\ \A r : InosWith(t, r)[h] = HandleIno(h)
  <1>1. \A h \in Handles : h[1] # t => h # <<t, 1>> /\ h # <<t, 2>>
    BY HandleFacts
  <1> QED
    BY <1>1, HandleFacts DEF Others, Kept, HeldPaths, InosWith, NodesWith

(* The account of treelock, opened for t.                                   *)
LockAccount == Counted(treelock, HeldPaths, [h \in Handles |-> HandleIno(h)], wnode)

LEMMA OpenBalance ==
  ASSUME TypeOK, LockAccount, NEW t \in Threads, NEW r,
         r = req[t] \/ (~hold[<<t, 1>>] /\ ~hold[<<t, 2>>])
  PROVE  Balance(t, r, treelock, Held(t, 1), Held(t, 2))
  <1>1. Others(t) \cup Kept(t, Held(t, 1), Held(t, 2)) = HeldPaths
    <2>1. /\ (Held(t, 1).err = "ok") = hold[<<t, 1>>]
          /\ (Held(t, 2).err = "ok") = hold[<<t, 2>>]
      BY HandleFacts DEF Held, TypeOK
    <2> QED
      BY <2>1, HandleFacts DEF Others, Kept, HeldPaths
  <1>2. NodesWith(t, Held(t, 1), Held(t, 2)) = wnode
    <2>1. Held(t, 1).w = wnode[<<t, 1>>] /\ Held(t, 2).w = wnode[<<t, 2>>]
      BY DEF Held
    <2> QED
      BY <2>1 DEF NodesWith, TypeOK
  <1>3. \A h \in HeldPaths : InosWith(t, r)[h] = HandleIno(h)
    <2> SUFFICES ASSUME NEW h \in HeldPaths, h[1] = t
                 PROVE  r = req[t]
      BY DEF InosWith, HeldPaths, HandleIno
    <2> QED
      BY HandleFacts DEF HeldPaths
  <1>4. \A n : ReadersOf(HeldPaths, InosWith(t, r), n)
               = ReadersOf(HeldPaths, [h \in Handles |-> HandleIno(h)], n)
    BY <1>3 DEF ReadersOf, HeldPaths
  <1> QED
    BY <1>1, <1>2, <1>4 DEF Balance, LockAccount, Counted

(* Trying a path that is not held, and giving paths back.                   *)
LEMMA TryFirstBalance ==
  ASSUME TypeOK, Acyclic, TreeOK, NEW t \in Threads, NEW r, Ino(r, 1) \in Nodes,
         NEW tl, TableOK(tl), NEW o0, o0.err # "ok", NEW o2, Balance(t, r, tl, o0, o2),
         NEW o \in TryPath(tl, r, 1)
  PROVE  Balance(t, r, o.tl, o, o2)
  <1> DEFINE H == Others(t) \cup Kept(t, o0, o2)
  <1>1. H \in SUBSET Handles /\ <<t, 1>> \in Handles \ H
    BY KeptFacts, HandleFacts
  <1>2. Counted(tl, H, InosWith(t, r), NodesWith(t, o0, o2))
    BY DEF Balance
  <1>3. \A h \in H : NodesWith(t, o, o2)[h] = NodesWith(t, o0, o2)[h]
    BY <1>1 DEF NodesWith
  <1>4. CASE o.err = "ok"
    <2>1. PICK w : w = o.w /\ w \in Nodes \cup {NoNode}
      BY TryPathType DEF OutcomeOK
    <2>2. /\ Got(tl, r, 1, o)
          /\ InosWith(t, r)[<<t, 1>>] = Ino(r, 1) /\ NodesWith(t, o, o2)[<<t, 1>>] = w
      <3>1. Got(tl, r, 1, o)
        BY <1>4, TryPathEnds
      <3> QED
        BY <2>1, <3>1, HandleFacts DEF InosWith, NodesWith
    <2>3. Counted(LockPath(tl, Ino(r, 1), w), H \cup {<<t, 1>>}, InosWith(t, r),
                  NodesWith(t, o, o2))
      <3> HIDE DEF H
      <3> QED
        BY <1>1, <1>2, <1>3, <2>1, <2>2, LockCounted DEF Got
    <2>4. H \cup {<<t, 1>>} = Others(t) \cup Kept(t, o, o2)
      BY <1>4, HandleFacts DEF Kept
    <2> QED
      BY <2>1, <2>2, <2>3, <2>4 DEF Got, Balance
  <1>5. CASE o.err # "ok"
    <2>1. PICK w \in Nodes \cup {NoNode} : o.tl = Announce(tl, w)
      BY <1>5, TryPathEnds DEF Missed
    <2>2. Counted(o.tl, H, InosWith(t, r), NodesWith(t, o, o2))
      <3> HIDE DEF H
      <3> QED
        BY <1>1, <1>2, <1>3, <2>1, AnnounceCounted, CountedAgrees
    <2>3. H = Others(t) \cup Kept(t, o, o2)
      BY <1>5 DEF Kept
    <2> QED
      BY <2>2, <2>3 DEF Balance
  <1> QED
    BY <1>4, <1>5

LEMMA TrySecondBalance ==
  ASSUME TypeOK, Acyclic, TreeOK, NEW t \in Threads, NEW r, Ino(r, 2) \in Nodes,
         NEW tl, TableOK(tl), NEW o0, o0.err # "ok", NEW o1, Balance(t, r, tl, o1, o0),
         NEW o \in TryPath(tl, r, 2)
  PROVE  Balance(t, r, o.tl, o1, o)
  <1> DEFINE H == Others(t) \cup Kept(t, o1, o0)
  <1>1. H \in SUBSET Handles /\ <<t, 2>> \in Handles \ H
    <2>1. H \in SUBSET Handles /\ (<<t, 2>> \in H <=> o0.err = "ok")
      BY HandleFacts DEF Kept, Others, HeldPaths
    <2> QED
      BY <2>1, HandleFacts
  <1>2. Counted(tl, H, InosWith(t, r), NodesWith(t, o1, o0))
    BY DEF Balance
  <1>3. \A h \in H : NodesWith(t, o1, o)[h] = NodesWith(t, o1, o0)[h]
    BY <1>1 DEF NodesWith
  <1>4. CASE o.err = "ok"
    <2>1. PICK w : w = o.w /\ w \in Nodes \cup {NoNode}
      BY TryPathType DEF OutcomeOK
    <2>2. /\ Got(tl, r, 2, o)
          /\ InosWith(t, r)[<<t, 2>>] = Ino(r, 2) /\ NodesWith(t, o1, o)[<<t, 2>>] = w
      <3>1. Got(tl, r, 2, o)
        BY <1>4, TryPathEnds
      <3> QED
        BY <2>1, <3>1, HandleFacts DEF InosWith, NodesWith
    <2>3. Counted(LockPath(tl, Ino(r, 2), w), H \cup {<<t, 2>>}, InosWith(t, r),
                  NodesWith(t, o1, o))
      <3> HIDE DEF H
      <3> QED
        BY <1>1, <1>2, <1>3, <2>1, <2>2, LockCounted DEF Got
    <2>4. H \cup {<<t, 2>>} = Others(t) \cup Kept(t, o1, o)
      BY <1>4, HandleFacts DEF Kept
    <2> QED
      BY <2>1, <2>2, <2>3, <2>4 DEF Got, Balance
  <1>5. CASE o.err # "ok"
    <2>1. PICK w \in Nodes \cup {NoNode} : o.tl = Announce(tl, w)
      BY <1>5, TryPathEnds DEF Missed
    <2>2. Counted(o.tl, H, InosWith(t, r), NodesWith(t, o1, o))
      <3> HIDE DEF H
      <3> QED
        BY <1>1, <1>2, <1>3, <2>1, AnnounceCounted, CountedAgrees
    <2>3. H = Others(t) \cup Kept(t, o1, o)
      BY <1>5 DEF Kept
    <2> QED
      BY <2>2, <2>3 DEF Balance
  <1> QED
    BY <1>4, <1>5

LEMMA UndoBalance ==
  ASSUME NEW t \in Threads, NEW r, NEW tl, TableOK(tl), NEW o1, NEW o2,
         OutcomeOK(o1), OutcomeOK(o2), Balance(t, r, tl, o1, o2)
  PROVE  Balance(t, r, Undo(Undo(tl, r, 1, o1), r, 2, o2), NotHeld, NotHeld)
  <1> DEFINE H0 == Others(t) \cup Kept(t, o1, o2)
             H1 == H0 \ {<<t, 1>>}
             H2 == H1 \ {<<t, 2>>}
             tl1 == Undo(tl, r, 1, o1)
             tl2 == Undo(tl1, r, 2, o2)
             ino == InosWith(t, r)
             wn == NodesWith(t, o1, o2)
  <1>1. /\ H0 \in SUBSET Handles
        /\ <<t, 1>> \in H0 <=> o1.err = "ok"
        /\ <<t, 2>> \in H0 <=> o2.err = "ok"
        /\ ino[<<t, 1>>] = Ino(r, 1) /\ ino[<<t, 2>>] = Ino(r, 2)
        /\ wn[<<t, 1>>] = o1.w /\ wn[<<t, 2>>] = o2.w
        /\ Counted(tl, H0, ino, wn) /\ TableOK(tl1) /\ <<t, 1>> # <<t, 2>>
    BY KeptFacts, HandleFacts, UndoType DEF Balance
  <1> HIDE DEF H0
  <1>2. Counted(tl1, H1, ino, wn)
    <2>1. CASE o1.err = "ok"
      <3>1. tl1 = UnlockPath(tl, ino[<<t, 1>>], wn[<<t, 1>>])
        BY <1>1, <2>1 DEF Undo
      <3> HIDE DEF ino, wn, tl1
      <3>2. Counted(UnlockPath(tl, ino[<<t, 1>>], wn[<<t, 1>>]), H0 \ {<<t, 1>>}, ino, wn)
        BY <1>1, <2>1, UnlockCounted DEF OutcomeOK
      <3> QED
        BY <3>1, <3>2
    <2>2. CASE o1.err # "ok"
      <3>1. tl1 = tl /\ H1 = H0
        BY <1>1, <2>2 DEF Undo
      <3> QED
        BY <1>1, <3>1
    <2> QED
      BY <2>1, <2>2
  <1>3. H1 \in SUBSET Handles /\ (<<t, 2>> \in H1 <=> o2.err = "ok")
    BY <1>1
  <1> HIDE DEF H1, tl1
  <1>4. Counted(tl2, H2, ino, wn)
    <2>1. CASE o2.err = "ok"
      <3>1. tl2 = UnlockPath(tl1, ino[<<t, 2>>], wn[<<t, 2>>])
        BY <1>1, <2>1 DEF Undo
      <3> HIDE DEF ino, wn, tl2
      <3>2. Counted(UnlockPath(tl1, ino[<<t, 2>>], wn[<<t, 2>>]), H1 \ {<<t, 2>>}, ino, wn)
        BY <1>1, <1>2, <1>3, <2>1, UnlockCounted DEF OutcomeOK
      <3> QED
        BY <3>1, <3>2
    <2>2. CASE o2.err # "ok"
      <3>1. tl2 = tl1 /\ H2 = H1
        BY <1>3, <2>2 DEF Undo
      <3> QED
        BY <1>2, <3>1
    <2> QED
      BY <2>1, <2>2
  <1>5. H2 = Others(t) /\ Others(t) = Others(t) \cup Kept(t, NotHeld, NotHeld)
    BY HandleFacts DEF H2, H1, H0, Kept, NotHeld, Others, HeldPaths
  <1>6. \A h \in Others(t) : wn[h] = NodesWith(t, NotHeld, NotHeld)[h]
    BY HandleFacts DEF NodesWith, Others, HeldPaths
  <1>7. Counted(tl2, Others(t), ino, NodesWith(t, NotHeld, NotHeld))
    <2> HIDE DEF H2, tl2, ino, wn
    <2> QED
      BY <1>4, <1>5, <1>6, CountedAgrees
  <1> QED
    BY <1>5, <1>7 DEF Balance, tl2, tl1

(* Only what is ok of the outcomes counts.                                  *)
SameLocks(p, o) == (p.err = "ok" <=> o.err = "ok") /\ (o.err = "ok" => p.w = o.w)

LEMMA BalanceAgrees ==
  ASSUME NEW t \in Threads, NEW r, NEW tl, NEW o1, NEW o2, NEW p1, NEW p2,
         Balance(t, r, tl, o1, o2), SameLocks(p1, o1), SameLocks(p2, o2)
  PROVE  Balance(t, r, tl, p1, p2)
  <1>1. Others(t) \cup Kept(t, p1, p2) = Others(t) \cup Kept(t, o1, o2)
    BY DEF Kept, SameLocks
  <1>2. \A h \in Others(t) \cup Kept(t, o1, o2) :
          NodesWith(t, o1, o2)[h] = NodesWith(t, p1, p2)[h]
    <2> SUFFICES ASSUME NEW h \in Others(t) \cup Kept(t, o1, o2)
                 PROVE  NodesWith(t, o1, o2)[h] = NodesWith(t, p1, p2)[h]
      OBVIOUS
    <2>1. /\ Others(t) \cup Kept(t, o1, o2) \in SUBSET Handles
          /\ <<t, 1>> \in Others(t) \cup Kept(t, o1, o2) <=> o1.err = "ok"
          /\ <<t, 2>> \in Others(t) \cup Kept(t, o1, o2) <=> o2.err = "ok"
      BY KeptFacts
    <2>2. h \in Handles /\ (h = <<t, 1>> => o1.w = p1.w) /\ (h = <<t, 2>> => o2.w = p2.w)
      BY <2>1 DEF SameLocks
    <2> QED
      BY <2>2 DEF NodesWith
  <1> QED
    BY <1>1, <1>2, CountedAgrees DEF Balance

(* The account after the step, when t has kept o1 and o2.                   *)
LEMMA CloseBalance ==
  ASSUME TypeOK, NEW t \in Threads, NEW r, NEW o1, NEW o2,
         Balance(t, r, treelock', o1, o2), SetHandles(t, o1, o2), UNCHANGED treeVars,
         \A u \in Threads \ {t} : req'[u] = req[u],
         req'[t] = r \/ (o1.err # "ok" /\ o2.err # "ok")
  PROVE  LockAccount'
  <1> DEFINE H == Others(t) \cup Kept(t, o1, o2)
  <1>1. H = HeldPaths'
    <2>1. \A h \in Handles : h[1] # t => hold'[h] = hold[h]
      BY HandleFacts DEF SetHandles, TypeOK
    <2>2. /\ hold'[<<t, 1>>] <=> o1.err = "ok"
          /\ hold'[<<t, 2>>] <=> o2.err = "ok"
      <3>1. hold' = [hold EXCEPT ![<<t, 1>>] = (o1.err = "ok"), ![<<t, 2>>] = (o2.err = "ok")]
        BY DEF SetHandles
      <3>2. <<t, 1>> \in DOMAIN hold /\ <<t, 2>> \in DOMAIN hold /\ <<t, 1>> # <<t, 2>>
        BY HandleFacts DEF TypeOK
      <3>3. hold'[<<t, 1>>] = (o1.err = "ok") /\ hold'[<<t, 2>>] = (o2.err = "ok")
        BY <3>1, <3>2, Zenon
      <3> QED
        BY <3>3
    <2> QED
      BY <2>1, <2>2, HandleFacts, KeptFacts DEF HeldPaths, Others, Kept
  <1>2. \A h \in H : wnode'[h] = NodesWith(t, o1, o2)[h]
    BY HandleFacts DEF SetHandles, TypeOK, NodesWith, Others, HeldPaths, Kept
  <1>3. \A h \in H : HandleIno(h)' = InosWith(t, r)[h]
    <2> SUFFICES ASSUME NEW h \in H
                 PROVE  HandleIno(h)' = InosWith(t, r)[h]
      OBVIOUS
    <2>1. h \in Handles /\ h[1] \in Threads
      BY KeptFacts, HandleFacts
    <2>2. CASE h[1] # t
      BY <2>1, <2>2 DEF InosWith, HandleIno, Ino
    <2>3. CASE h[1] = t
      <3>1. req'[t] = r
        BY <2>3, HandleFacts DEF Others, Kept
      <3> QED
        BY <2>1, <2>3, <3>1 DEF InosWith, HandleIno, Ino
    <2> QED
      BY <2>2, <2>3
  <1>4. Walk' = Walk
    BY DEF treeVars, Walk
  <1>5. PICK S, ino, wn, tl : /\ S = H /\ ino = InosWith(t, r) /\ wn = NodesWith(t, o1, o2)
                              /\ tl = treelock' /\ Counted(tl, S, ino, wn)
    BY DEF Balance
  <1>6. ASSUME NEW n \in Nodes
        PROVE  Fits(treelock[n], ReadersOf(HeldPaths, [h \in Handles |-> HandleIno(h)], n),
                    WritersOf(HeldPaths, wnode, n))'
    <2>1. ReadersOf(HeldPaths, [h \in Handles |-> HandleIno(h)], n)' = ReadersOf(S, ino, n)
      <3>1. S \in SUBSET Handles /\ S = HeldPaths'
        BY <1>1, <1>5, KeptFacts
      <3>2. \A h \in S : HandleIno(h)' = ino[h]
        BY <1>3, <1>5
      <3>3. \A m : Path(m)' = Path(m)
        BY <1>4 DEF Path, Chain
      <3>4. \A h \in S : [g \in Handles |-> HandleIno(g)'][h] = ino[h]
        BY <3>1, <3>2
      <3> QED
        BY <3>1, <3>3, <3>4 DEF ReadersOf, Path, Chain
    <2>2. WritersOf(HeldPaths, wnode, n)' = WritersOf(S, wn, n)
      BY <1>1, <1>2, <1>5 DEF WritersOf
    <2>3. Fits(tl[n], ReadersOf(S, ino, n), WritersOf(S, wn, n))
      BY <1>5 DEF Counted
    <2> QED
      BY <1>5, <2>1, <2>2, <2>3 DEF Fits
  <1> QED
    BY <1>6 DEF LockAccount, Counted

-----------------------------------------------------------------------------
(* The inductive invariant of the locks.                                    *)

(* What a thread holds at each stage of its request.  A pass of wake_up_    *)
(* queued also looks at elements that are done: one that got its paths has  *)
(* them, and one of two paths that failed names a node that is off the tree *)
(* for good, so that trying it again locks nothing.                         *)
StageOK(t) ==
  /\ pc[t] = "idle" => req[t] = NoRequest
  /\ pc[t] = "idle" \/ req[t].op = "forget" => ~hold[<<t, 1>>] /\ ~hold[<<t, 2>>]
  /\ hold[<<t, 2>>] => HasSecond(req[t])
  /\ HasPaths(t) => hold[<<t, 1>>] /\ (hold[<<t, 2>>] <=> HasSecond(req[t]))
  /\ pc[t] = "waiting" /\ req[t].op # "forget" /\ done[t] =>
       IF err[t] = "ok" THEN hold[<<t, 1>>] /\ (hold[<<t, 2>>] <=> HasSecond(req[t]))
       ELSE /\ ~hold[<<t, 1>>] /\ ~hold[<<t, 2>>]
            /\ HasSecond(req[t]) => ~Attached(req[t].ino1) \/ ~Attached(req[t].ino2)
  /\ \A i \in {1, 2} : ~hold[<<t, i>>] => wnode[<<t, i>>] = NoNode /\ path[<<t, i>>] = NoPath

(* The nodes of a request are looked up until it ends.                      *)
InoOK(t) == \A n \in {req[t].ino1, req[t].ino2} \ {NoNode} : nlookup[n] > 0

(* A path that is held leads to the root by the names it was built from.    *)
HeldOK(t, i) ==
  hold[<<t, i>>] => /\ Attached(Ino(req[t], i))
                    /\ path[<<t, i>>] = PathNames(Ino(req[t], i))

(* A write-locked node is looked up, and only its own request moves it.     *)
WriterOK(t, i) ==
  hold[<<t, i>>] /\ wnode[<<t, i>>] # NoNode =>
    /\ req[t].op \in WriteOps
    /\ nlookup[wnode[<<t, i>>]] > 0
    /\ \/ parent[wnode[<<t, i>>]] \in {NoNode, Ino(req[t], i)}
       \/ HasPaths(t) /\ hold[<<t, 2>>] /\ parent[wnode[<<t, i>>]] = req[t].ino2

(* Until the handler acts, the node of its entry is the one it has locked.  *)
EntryOK(t, i) ==
  hold[<<t, i>>] /\ pc[t] \in {"waiting", "locked"} /\ req[t].op \in WriteOps =>
    LookupNode(Ino(req[t], i), Entry(req[t], i)) \in {wnode[<<t, i>>], NoNode}

(* And until then the kernel knows that node.                               *)
EntriesKnown(r) ==
  \A i \in {1, 2} :
    r.op \in WriteOps /\ Ino(r, i) \in Nodes /\ LookupNode(Ino(r, i), Entry(r, i)) # NoNode
      => KernelKnows(LookupNode(Ino(r, i), Entry(r, i)))

VictimsOK ==
  \A t \in Threads : pc[t] \in {"waiting", "locked"} => EntriesKnown(req[t])

ThreadOK(t) ==
  /\ StageOK(t) /\ InoOK(t)
  /\ \A i \in {1, 2} : HeldOK(t, i) /\ WriterOK(t, i) /\ EntryOK(t, i)

LockInv == LockAccount /\ VictimsOK /\ \A t \in Threads : ThreadOK(t)

(* What these theorems leave to the findings of the README: no memory for   *)
(* the second of two paths, and entries that vanish behind the mount.       *)
Benign == OutOfMemory \cap PathPairOps = {} /\ ~BackingChanges

-----------------------------------------------------------------------------
(* The outcomes a thread works with.                                        *)
OutcomeFor(r, i, o) ==
  /\ o.err = "ok" =>
       /\ Ino(r, i) \in Nodes /\ Attached(Ino(r, i)) /\ o.p = PathNames(Ino(r, i))
       /\ o.w # NoNode => /\ r.op \in WriteOps /\ nlookup[o.w] > 0
                          /\ parent[o.w] \in {NoNode, Ino(r, i)}
       /\ r.op \in WriteOps => LookupNode(Ino(r, i), Entry(r, i)) \in {o.w, NoNode}
  /\ o.err # "ok" => o.w = NoNode /\ o.p = NoPath

LEMMA WriteEntries ==
  ASSUME NEW r, WellFormed(r), NEW i \in {1, 2}, r.op \in WriteOps, Ino(r, i) \in Nodes
  PROVE  Entry(r, i) \in Names /\ Entry(r, i) # NoName
  BY NodeTreeAssumption DEF WellFormed, WriteOps, NameOps, PathPairOps, Ino, Entry

LEMMA TryOutcome ==
  ASSUME TypeOK, Acyclic, TreeOK, NEW tl, TableOK(tl), NEW r, WellFormed(r), EntriesKnown(r),
         NEW i \in {1, 2}, Ino(r, i) \in Nodes, NEW o \in TryPath(tl, r, i)
  PROVE  OutcomeFor(r, i, o)
  <1>1. CASE o.err = "ok"
    <2>1. Got(tl, r, i, o)
      BY <1>1, TryPathEnds
    <2>2. ASSUME o.w # NoNode
          PROVE  /\ r.op \in WriteOps /\ o.w = LookupNode(Ino(r, i), Entry(r, i))
                 /\ nlookup[o.w] > 0 /\ parent[o.w] = Ino(r, i)
      <3>1. r.op \in WriteOps /\ o.w = LookupNode(Ino(r, i), Entry(r, i))
        BY <2>1, <2>2 DEF Got
      <3>2. KernelKnows(o.w) /\ o.w \in Nodes
        BY <2>2, <3>1, WriteEntries, LookupNodeType DEF EntriesKnown
      <3> QED
        BY <2>1, <3>1, <3>2, KnownIsLookedUp DEF Got
    <2>3. r.op \in WriteOps => LookupNode(Ino(r, i), Entry(r, i)) = o.w
      BY <2>1 DEF Got
    <2> QED
      BY <1>1, <2>1, <2>2, <2>3 DEF OutcomeFor, Got
  <1>2. CASE o.err # "ok"
    BY <1>2, TryPathEnds DEF OutcomeFor, Missed
  <1> QED
    BY <1>1, <1>2

LEMMA NotHeldOutcome == \A r, i : OutcomeFor(r, i, NotHeld) /\ NotHeld.err = "none"
  BY DEF OutcomeFor, NotHeld

LEMMA HeldErr ==
  ASSUME TypeOK, NEW t \in Threads, NEW i \in {1, 2}
  PROVE  /\ Held(t, i).err = IF hold[<<t, i>>] THEN "ok" ELSE "none"
         /\ Held(t, i).w = wnode[<<t, i>>] /\ Held(t, i).p = path[<<t, i>>]
  BY DEF Held

LEMMA HeldInos ==
  ASSUME TypeOK, RequestsOK, NEW t \in Threads, StageOK(t), NEW i \in {1, 2}, hold[<<t, i>>]
  PROVE  Ino(req[t], i) \in Nodes
  <1>1. req[t] \in Request /\ WellFormed(req[t]) /\ req[t].op # "none"
    BY DEF TypeOK, RequestsOK, StageOK
  <1> QED
    BY <1>1 DEF WellFormed, Request, Ino, StageOK, HasSecond

LEMMA HeldOutcome ==
  ASSUME TypeOK, RequestsOK, NEW t \in Threads, ThreadOK(t), pc[t] = "waiting",
         NEW i \in {1, 2}
  PROVE  OutcomeFor(req[t], i, Held(t, i))
  <1>1. CASE hold[<<t, i>>]
    <2>1. Held(t, i).err = "ok" /\ Held(t, i).w = wnode[<<t, i>>] /\ Held(t, i).p = path[<<t, i>>]
      BY <1>1, HeldErr
    <2>2. Ino(req[t], i) \in Nodes
      BY <1>1, HeldInos DEF ThreadOK
    <2>3. HeldOK(t, i) /\ WriterOK(t, i) /\ EntryOK(t, i)
      BY DEF ThreadOK
    <2>4. ~HasPaths(t)
      BY DEF HasPaths
    <2> QED
      BY <1>1, <2>1, <2>2, <2>3, <2>4 DEF OutcomeFor, HeldOK, WriterOK, EntryOK
  <1>2. CASE ~hold[<<t, i>>]
    <2>1. Held(t, i).err = "none" /\ Held(t, i).w = wnode[<<t, i>>] /\ Held(t, i).p = path[<<t, i>>]
      BY <1>2, HeldErr
    <2> QED
      BY <1>2, <2>1 DEF OutcomeFor, ThreadOK, StageOK
  <1> QED
    BY <1>1, <1>2

LEMMA WorkOnTree ==
  ASSUME TypeOK, RequestsOK, TreeOK, Acyclic, NEW t \in Threads, \A u \in Threads : ThreadOK(u),
         NEW r, NEW o1, NEW o2, OutcomeFor(r, 1, o1), OutcomeFor(r, 2, o2)
  PROVE  OnTree(Others(t) \cup Kept(t, o1, o2), InosWith(t, r), NodesWith(t, o1, o2))
  <1> SUFFICES ASSUME NEW h \in Others(t) \cup Kept(t, o1, o2)
               PROVE  LET n == InosWith(t, r)[h]
                          w == NodesWith(t, o1, o2)[h]
                      IN  /\ n \in Nodes /\ Attached(n)
                          /\ w \in Nodes /\ parent[w] # NoNode => Attached(parent[w])
    BY DEF OnTree
  <1>1. CASE h \in Others(t)
    <2>1. PICK u \in Threads, i \in {1, 2} : h = <<u, i>> /\ u # t
      BY <1>1 DEF Others, HeldPaths, Handles
    <2>2. hold[<<u, i>>] /\ ThreadOK(u)
      BY <1>1, <2>1 DEF Others, HeldPaths
    <2>3. /\ InosWith(t, r)[h] = Ino(req[u], i) /\ NodesWith(t, o1, o2)[h] = wnode[<<u, i>>]
      BY <2>1, HandleFacts DEF InosWith, NodesWith, HandleIno, Handles
    <2>4. Ino(req[u], i) \in Nodes /\ Attached(Ino(req[u], i))
      BY <2>2, HeldInos DEF ThreadOK, HeldOK
    <2>5. ASSUME wnode[<<u, i>>] \in Nodes, parent[wnode[<<u, i>>]] # NoNode
          PROVE  Attached(parent[wnode[<<u, i>>]])
      <3>1. \/ parent[wnode[<<u, i>>]] = Ino(req[u], i)
            \/ hold[<<u, 2>>] /\ parent[wnode[<<u, i>>]] = Ino(req[u], 2)
        BY <2>2, <2>5, NodeTreeAssumption DEF ThreadOK, WriterOK, Ino
      <3> QED
        BY <2>2, <2>4, <3>1 DEF ThreadOK, HeldOK
    <2> QED
      BY <2>3, <2>4, <2>5
  <1>2. CASE h = <<t, 1>> /\ o1.err = "ok"
    <2>1. InosWith(t, r)[h] = Ino(r, 1) /\ NodesWith(t, o1, o2)[h] = o1.w
      BY <1>2, HandleFacts DEF InosWith, NodesWith
    <2> QED
      BY <1>2, <2>1, NodeTreeAssumption DEF OutcomeFor
  <1>3. CASE h = <<t, 2>> /\ o2.err = "ok"
    <2>1. InosWith(t, r)[h] = Ino(r, 2) /\ NodesWith(t, o1, o2)[h] = o2.w
      BY <1>3, HandleFacts DEF InosWith, NodesWith
    <2> QED
      BY <1>3, <2>1, NodeTreeAssumption DEF OutcomeFor
  <1> QED
    BY <1>1, <1>2, <1>3 DEF Kept

(* A path off the tree fails, whatever t has locked on the way to it.       *)
LEMMA OffTreeFails ==
  ASSUME TypeOK, RequestsOK, TreeOK, Acyclic, NEW t \in Threads, \A u \in Threads : ThreadOK(u),
         NEW r, NEW o1, NEW o2, OutcomeFor(r, 1, o1), OutcomeFor(r, 2, o2),
         NEW tl, TableOK(tl), Balance(t, r, tl, o1, o2), NEW i, Ino(r, i) \in Nodes,
         ~Attached(Ino(r, i)), r.op \notin OutOfMemory, NEW o \in TryPath(tl, r, i)
  PROVE  o.err = "ENOENT"
  <1> DEFINE H == Others(t) \cup Kept(t, o1, o2)
             ino == InosWith(t, r)
             wn == NodesWith(t, o1, o2)
  <1>1. OnTree(H, ino, wn) /\ Counted(tl, H, ino, wn) /\ H \in SUBSET Handles
    BY WorkOnTree, KeptFacts DEF Balance
  <1> HIDE DEF H, ino, wn
  <1>2. \A m \in Nodes : parent[m] # NoNode /\ ~Attached(m) => tl[m] = 0
    BY <1>1, OffTreeFree
  <1> QED
    BY <1>2, DetachedFails

-----------------------------------------------------------------------------
(* What get_path, get_path2 and queue_element_wakeup leave t with.          *)
Work(t, r, o1, o2) ==
  /\ SetHandles(t, o1, o2) /\ Balance(t, r, treelock', o1, o2)
  /\ OutcomeFor(r, 1, o1) /\ OutcomeFor(r, 2, o2)

Nothing(t, r, o1, o2) == Work(t, r, o1, o2) /\ o1.err # "ok" /\ o2.err # "ok"

Everything(t, r, o1, o2) ==
  Work(t, r, o1, o2) /\ o1.err = "ok" /\ (o2.err = "ok" <=> HasSecond(r))

LEMMA StillNothing ==
  ASSUME TypeOK, NEW t \in Threads, StageOK(t), ~hold[<<t, 1>>], ~hold[<<t, 2>>],
         UNCHANGED <<hold, wnode, path>>
  PROVE  SetHandles(t, NotHeld, NotHeld)
  <1>1. \A i \in {1, 2} : /\ hold[<<t, i>>] = FALSE /\ wnode[<<t, i>>] = NoNode
                          /\ path[<<t, i>>] = NoPath
    <2>1. hold[<<t, 1>>] \in BOOLEAN /\ hold[<<t, 2>>] \in BOOLEAN
      BY HandleFacts DEF TypeOK
    <2>2. hold[<<t, 1>>] = FALSE /\ hold[<<t, 2>>] = FALSE
      BY <2>1
    <2>3. \A i \in {1, 2} : wnode[<<t, i>>] = NoNode /\ path[<<t, i>>] = NoPath
      BY DEF StageOK
    <2> QED
      BY <2>2, <2>3
  <1>2. NotHeld.w = NoNode /\ NotHeld.p = NoPath /\ (NotHeld.err = "ok") = FALSE
    BY DEF NotHeld
  <1>3. hold' = [hold EXCEPT ![<<t, 1>>] = FALSE, ![<<t, 2>>] = FALSE]
    BY <1>1 DEF TypeOK
  <1>4. /\ wnode' = [wnode EXCEPT ![<<t, 1>>] = NoNode, ![<<t, 2>>] = NoNode]
        /\ path' = [path EXCEPT ![<<t, 1>>] = NoPath, ![<<t, 2>>] = NoPath]
    BY <1>1 DEF TypeOK
  <1> QED
    BY <1>2, <1>3, <1>4 DEF SetHandles

LEMMA MissedNothing ==
  ASSUME TypeOK, NEW t \in Threads, StageOK(t), ~hold[<<t, 1>>], ~hold[<<t, 2>>], NEW r,
         NEW tl, QueuePath(t, r, tl) \/ Refuse(t, tl), Balance(t, r, tl, NotHeld, NotHeld)
  PROVE  Nothing(t, r, NotHeld, NotHeld)
  <1>1. treelock' = tl /\ UNCHANGED <<hold, wnode, path>>
    BY DEF QueuePath, Refuse
  <1>2. SetHandles(t, NotHeld, NotHeld)
    BY <1>1, StillNothing
  <1>3. Balance(t, r, treelock', NotHeld, NotHeld)
    BY <1>1
  <1> QED
    BY <1>2, <1>3, NotHeldOutcome DEF Nothing, Work

(* The three ends of get_path and get_path2.                                *)
Refused(t) == UNCHANGED <<pc, req, done, err>>
Waits(t, r) ==
  /\ pc' = [pc EXCEPT ![t] = "waiting"] /\ req' = [req EXCEPT ![t] = r]
  /\ done' = [done EXCEPT ![t] = FALSE] /\ err' = [err EXCEPT ![t] = "ok"]
Goes(t, r) ==
  /\ pc' = [pc EXCEPT ![t] = "locked"] /\ req' = [req EXCEPT ![t] = r]
  /\ UNCHANGED <<done, err>>

LEMMA GetPathWork ==
  ASSUME TypeOK, RequestsOK, TreeOK, Acyclic, NEW t \in Threads, pc[t] = "idle",
         ThreadOK(t), LockAccount, NEW r, WellFormed(r), EntriesKnown(r), r.ino1 \in Nodes,
         \/ ~HasSecond(r) /\ GetPath(t, r)
         \/ HasSecond(r) /\ r.ino2 \in Nodes /\ GetPath2(t, r)
  PROVE  \E o1, o2 : \/ Nothing(t, r, o1, o2) /\ (Refused(t) \/ Waits(t, r))
                     \/ Everything(t, r, o1, o2) /\ Goes(t, r)
  <1>1. StageOK(t) /\ ~hold[<<t, 1>>] /\ ~hold[<<t, 2>>]
    BY DEF ThreadOK, StageOK
  <1>2. TableOK(treelock) /\ Ino(r, 1) = r.ino1 /\ Ino(r, 2) = r.ino2
    BY DEF TypeOK, TableOK, Ino
  <1>3. Balance(t, r, treelock, NotHeld, NotHeld)
    <2>1. Balance(t, r, treelock, Held(t, 1), Held(t, 2))
      BY <1>1, OpenBalance
    <2>2. Held(t, 1).err # "ok" /\ Held(t, 2).err # "ok"
      BY <1>1, HeldErr
    <2>3. SameLocks(NotHeld, Held(t, 1)) /\ SameLocks(NotHeld, Held(t, 2))
      BY <2>2, NotHeldOutcome DEF SameLocks
    <2> QED
      BY <2>1, <2>3, BalanceAgrees
  <1>4. ASSUME NEW o1 \in TryPath(treelock, r, 1)
        PROVE  /\ Balance(t, r, o1.tl, o1, NotHeld) /\ OutcomeFor(r, 1, o1)
               /\ TableOK(o1.tl) /\ OutcomeOK(o1)
               /\ o1.err # "ok" => Balance(t, r, o1.tl, NotHeld, NotHeld)
    <2>1. Balance(t, r, o1.tl, o1, NotHeld)
      BY <1>2, <1>3, TryFirstBalance, NotHeldOutcome
    <2>2. OutcomeFor(r, 1, o1) /\ TableOK(o1.tl) /\ OutcomeOK(o1)
      BY <1>2, TryOutcome, TryPathType
    <2>3. o1.err # "ok" => Balance(t, r, o1.tl, NotHeld, NotHeld)
      BY <2>1, NotHeldOutcome, BalanceAgrees DEF SameLocks
    <2> QED
      BY <2>1, <2>2, <2>3
  <1>5. ASSUME NEW tl, Balance(t, r, tl, NotHeld, NotHeld), Refuse(t, tl) \/ QueuePath(t, r, tl)
        PROVE  Nothing(t, r, NotHeld, NotHeld) /\ (Refused(t) \/ Waits(t, r))
    BY <1>1, <1>5, MissedNothing DEF Refuse, QueuePath, Refused, Waits
  <1>6. CASE ~HasSecond(r) /\ GetPath(t, r)
    <2>1. PICK o1 \in TryPath(treelock, r, 1) :
            \/ o1.err # "ok" /\ (Refuse(t, o1.tl) \/ QueuePath(t, r, o1.tl))
            \/ o1.err = "ok" /\ Grant(t, r, o1, NotHeld, o1.tl)
      BY <1>6 DEF GetPath
    <2>2. CASE o1.err # "ok" /\ (Refuse(t, o1.tl) \/ QueuePath(t, r, o1.tl))
      BY <1>4, <1>5, <2>2
    <2>3. CASE o1.err = "ok" /\ Grant(t, r, o1, NotHeld, o1.tl)
      <3>1. SetHandles(t, o1, NotHeld) /\ treelock' = o1.tl /\ Goes(t, r)
        BY <2>3 DEF Grant, Goes
      <3>2. Everything(t, r, o1, NotHeld)
        BY <1>4, <1>6, <2>3, <3>1, NotHeldOutcome DEF Everything, Work
      <3> QED
        BY <3>1, <3>2
    <2> QED
      BY <2>1, <2>2, <2>3
  <1>7. CASE HasSecond(r) /\ r.ino2 \in Nodes /\ GetPath2(t, r)
    <2>1. PICK o1 \in TryPath(treelock, r, 1) :
            \/ o1.err # "ok" /\ (Refuse(t, o1.tl) \/ QueuePath(t, r, o1.tl))
            \/ /\ o1.err = "ok"
               /\ \E o2 \in TryPath(o1.tl, r, 2) :
                    \/ /\ o2.err # "ok"
                       /\ \/ Refuse(t, Undo(o2.tl, r, 1, o1))
                          \/ QueuePath(t, r, Undo(o2.tl, r, 1, o1))
                    \/ o2.err = "ok" /\ Grant(t, r, o1, o2, o2.tl)
      BY <1>7 DEF GetPath2
    <2>2. CASE o1.err # "ok" /\ (Refuse(t, o1.tl) \/ QueuePath(t, r, o1.tl))
      BY <1>4, <1>5, <2>2
    <2>3. ASSUME o1.err = "ok", NEW o2 \in TryPath(o1.tl, r, 2),
                 \/ /\ o2.err # "ok"
                    /\ \/ Refuse(t, Undo(o2.tl, r, 1, o1))
                       \/ QueuePath(t, r, Undo(o2.tl, r, 1, o1))
                 \/ o2.err = "ok" /\ Grant(t, r, o1, o2, o2.tl)
          PROVE  \E p1, p2 : \/ Nothing(t, r, p1, p2) /\ (Refused(t) \/ Waits(t, r))
                             \/ Everything(t, r, p1, p2) /\ Goes(t, r)
      <3>1. OutcomeFor(r, 2, o2) /\ TableOK(o2.tl) /\ OutcomeOK(o2)
        BY <1>2, <1>4, <1>7, TryOutcome, TryPathType
      <3>2. Balance(t, r, o2.tl, o1, o2)
        BY <1>2, <1>4, <1>7, TrySecondBalance, NotHeldOutcome
      <3>3. CASE o2.err # "ok"
        <4>1. Balance(t, r, Undo(Undo(o2.tl, r, 1, o1), r, 2, o2), NotHeld, NotHeld)
          BY <1>4, <3>1, <3>2, UndoBalance
        <4>2. Undo(Undo(o2.tl, r, 1, o1), r, 2, o2) = Undo(o2.tl, r, 1, o1)
          BY <3>3 DEF Undo
        <4>3. Balance(t, r, Undo(o2.tl, r, 1, o1), NotHeld, NotHeld)
          BY <4>1, <4>2
        <4> QED
          BY <1>5, <2>3, <3>3, <4>3
      <3>4. CASE o2.err = "ok"
        <4>1. SetHandles(t, o1, o2) /\ treelock' = o2.tl /\ Goes(t, r)
          BY <2>3, <3>4 DEF Grant, Goes
        <4>2. Everything(t, r, o1, o2)
          BY <1>4, <1>7, <2>3, <3>1, <3>2, <3>4, <4>1 DEF Everything, Work
        <4> QED
          BY <4>1, <4>2
      <3> QED
        BY <3>3, <3>4
    <2> QED
      BY <2>1, <2>2, <2>3
  <1> QED
    BY <1>6, <1>7

(* An element of the queue: a path it holds stays as it is, one it does not *)
(* hold is tried.                                                           *)
LEMMA EnoentOffTree ==
  ASSUME NEW tl, NEW r, NEW i, NEW o \in TryPath(tl, r, i),
         r.op \notin OutOfMemory, o.err \notin {"ok", "EAGAIN"}
  PROVE  ~Attached(Ino(r, i))
  BY DEF TryPath, TryGetPath, Failure

LEMMA SecondHasMemory ==
  ASSUME Benign, NEW r, WellFormed(r), HasSecond(r)
  PROVE  r.op \notin OutOfMemory /\ Ino(r, 2) \in Nodes
  BY NodeTreeAssumption DEF Benign, WellFormed, HasSecond, Request, Ino

AtWork(t) ==
  /\ TypeOK /\ RequestsOK /\ TreeOK /\ Acyclic /\ LockAccount
  /\ \A u \in Threads : ThreadOK(u)
  /\ pc[t] = "waiting" /\ req[t].op # "forget" /\ EntriesKnown(req[t])

LEMMA AtWorkFacts ==
  ASSUME NEW t \in Threads, AtWork(t)
  PROVE  /\ WellFormed(req[t]) /\ Ino(req[t], 1) \in Nodes
         /\ OutcomeFor(req[t], 1, Held(t, 1)) /\ OutcomeFor(req[t], 2, Held(t, 2))
         /\ OutcomeOK(Held(t, 1)) /\ OutcomeOK(Held(t, 2))
         /\ Held(t, 1).err = IF hold[<<t, 1>>] THEN "ok" ELSE "none"
         /\ Held(t, 2).err = IF hold[<<t, 2>>] THEN "ok" ELSE "none"
  <1>1. WellFormed(req[t]) /\ req[t].op # "none"
    BY DEF AtWork, RequestsOK
  <1>2. HandlesOK
    BY DEF AtWork, TypeOK, HandlesOK
  <1>3. OutcomeFor(req[t], 1, Held(t, 1)) /\ OutcomeFor(req[t], 2, Held(t, 2))
    BY HeldOutcome DEF AtWork
  <1> QED
    BY <1>1, <1>2, <1>3, HeldType, HeldErr DEF AtWork, WellFormed, Ino

(* What is known of outcome o of an element's path i.                       *)
Element(t, i, o) ==
  /\ OutcomeFor(req[t], i, o) /\ TableOK(o.tl) /\ OutcomeOK(o)
  /\ o.err \in {"ok", "EAGAIN", "ENOENT", "ENOMEM"}
  /\ hold[<<t, i>>] => o.err = "ok"
  /\ HasSecond(req[t]) /\ o.err \notin {"ok", "EAGAIN"} => ~Attached(Ino(req[t], i))
  /\ HasSecond(req[t]) /\ ~hold[<<t, i>>] /\ ~Attached(Ino(req[t], i)) => o.err = "ENOENT"

LEMMA FirstElement1 ==
  ASSUME Benign, NEW t \in Threads, AtWork(t), NEW o \in TryElement(treelock, t, 1)
  PROVE  Element(t, 1, o) /\ Balance(t, req[t], o.tl, o, Held(t, 2))
  <1>1. /\ TypeOK /\ RequestsOK /\ TreeOK /\ Acyclic /\ TableOK(treelock)
        /\ \A u \in Threads : ThreadOK(u)
    BY DEF AtWork, TypeOK, TableOK
  <1>2. Balance(t, req[t], treelock, Held(t, 1), Held(t, 2))
    BY OpenBalance DEF AtWork
  <1>3. CASE hold[<<t, 1>>]
    <2>1. o = [Held(t, 1) EXCEPT !.tl = treelock]
      BY <1>3 DEF TryElement
    <2>2. o.err = Held(t, 1).err /\ o.tl = treelock /\ o.w = Held(t, 1).w /\ o.p = Held(t, 1).p
      BY <2>1 DEF Held
    <2>3. o.err = "ok" /\ SameLocks(o, Held(t, 1)) /\ SameLocks(Held(t, 2), Held(t, 2))
      BY <1>3, <2>2, AtWorkFacts DEF SameLocks
    <2>4. Balance(t, req[t], o.tl, o, Held(t, 2))
      BY <1>2, <2>2, <2>3, BalanceAgrees
    <2>5. OutcomeFor(req[t], 1, o) /\ OutcomeOK(o)
      BY <2>2, AtWorkFacts DEF OutcomeFor, OutcomeOK
    <2> QED
      BY <1>1, <1>3, <2>2, <2>3, <2>4, <2>5 DEF Element
  <1>4. CASE ~hold[<<t, 1>>]
    <2>1. o \in TryPath(treelock, req[t], 1) /\ Held(t, 1).err # "ok"
      BY <1>4, AtWorkFacts DEF TryElement
    <2>2. Balance(t, req[t], o.tl, o, Held(t, 2))
      BY <1>1, <1>2, <2>1, AtWorkFacts, TryFirstBalance
    <2>3. /\ TableOK(o.tl) /\ OutcomeOK(o) /\ o.err \in {"ok", "EAGAIN", "ENOENT", "ENOMEM"}
          /\ OutcomeFor(req[t], 1, o)
      BY <1>1, <2>1, AtWorkFacts, TryPathType, TryOutcome DEF AtWork
    <2>4. ASSUME HasSecond(req[t])
          PROVE  /\ o.err \notin {"ok", "EAGAIN"} => ~Attached(Ino(req[t], 1))
                 /\ ~Attached(Ino(req[t], 1)) => o.err = "ENOENT"
      <3>1. req[t].op \notin OutOfMemory
        BY <2>4, AtWorkFacts, SecondHasMemory
      <3>2. o.err \notin {"ok", "EAGAIN"} => ~Attached(Ino(req[t], 1))
        BY <2>1, <3>1, EnoentOffTree
      <3>3. ~Attached(Ino(req[t], 1)) => o.err = "ENOENT"
        BY <1>1, <1>2, <2>1, <3>1, AtWorkFacts, OffTreeFails
      <3> QED
        BY <3>2, <3>3
    <2> QED
      BY <1>4, <2>2, <2>3, <2>4 DEF Element
  <1> QED
    BY <1>3, <1>4

LEMMA SecondElement ==
  ASSUME Benign, NEW t \in Threads, AtWork(t), NEW tl, TableOK(tl), NEW o1,
         OutcomeFor(req[t], 1, o1), Balance(t, req[t], tl, o1, Held(t, 2)),
         NEW o \in TrySecond(tl, t)
  PROVE  /\ Balance(t, req[t], o.tl, o1, o) /\ OutcomeFor(req[t], 2, o)
         /\ TableOK(o.tl) /\ OutcomeOK(o)
         /\ HasSecond(req[t]) => Element(t, 2, o)
         /\ ~HasSecond(req[t]) => o.err = "none"
  <1>1. /\ TypeOK /\ RequestsOK /\ TreeOK /\ Acyclic
        /\ \A u \in Threads : ThreadOK(u)
    BY DEF AtWork
  <1>2. CASE HasSecond(req[t])
    <2>1. o \in TryElement(tl, t, 2) /\ req[t].op \notin OutOfMemory /\ Ino(req[t], 2) \in Nodes
      BY <1>2, AtWorkFacts, SecondHasMemory DEF TrySecond
    <2>2. CASE hold[<<t, 2>>]
      <3>1. o = [Held(t, 2) EXCEPT !.tl = tl]
        BY <2>1, <2>2 DEF TryElement
      <3>2. o.err = Held(t, 2).err /\ o.tl = tl /\ o.w = Held(t, 2).w /\ o.p = Held(t, 2).p
        BY <3>1 DEF Held
      <3>3. o.err = "ok" /\ SameLocks(o, Held(t, 2)) /\ SameLocks(o1, o1)
        BY <2>2, <3>2, AtWorkFacts DEF SameLocks
      <3>4. Balance(t, req[t], o.tl, o1, o)
        BY <3>2, <3>3, BalanceAgrees
      <3>5. OutcomeFor(req[t], 2, o) /\ OutcomeOK(o)
        BY <3>2, AtWorkFacts DEF OutcomeFor, OutcomeOK
      <3> QED
        BY <1>2, <2>2, <3>2, <3>3, <3>4, <3>5 DEF Element
    <2>3. CASE ~hold[<<t, 2>>]
      <3>1. o \in TryPath(tl, req[t], 2) /\ Held(t, 2).err # "ok"
        BY <2>1, <2>3, AtWorkFacts DEF TryElement
      <3>2. Balance(t, req[t], o.tl, o1, o)
        BY <1>1, <2>1, <3>1, TrySecondBalance
      <3>3. /\ TableOK(o.tl) /\ OutcomeOK(o) /\ o.err \in {"ok", "EAGAIN", "ENOENT", "ENOMEM"}
            /\ OutcomeFor(req[t], 2, o)
        BY <1>1, <2>1, <3>1, AtWorkFacts, TryPathType, TryOutcome DEF AtWork
      <3>4. o.err \notin {"ok", "EAGAIN"} => ~Attached(Ino(req[t], 2))
        BY <2>1, <3>1, EnoentOffTree
      <3>5. ~Attached(Ino(req[t], 2)) => o.err = "ENOENT"
        BY <1>1, <2>1, <3>1, AtWorkFacts, OffTreeFails
      <3> QED
        BY <1>2, <2>3, <3>2, <3>3, <3>4, <3>5 DEF Element
    <2> QED
      BY <2>2, <2>3
  <1>3. CASE ~HasSecond(req[t])
    <2>1. o = [NotHeld EXCEPT !.tl = tl]
      BY <1>3 DEF TrySecond
    <2>2. o.err = "none" /\ o.tl = tl /\ o.w = NoNode /\ o.p = NoPath
      BY <2>1 DEF NotHeld
    <2>3. Held(t, 2).err # "ok"
      BY <1>1, <1>3, AtWorkFacts DEF ThreadOK, StageOK
    <2>4. SameLocks(o, Held(t, 2)) /\ SameLocks(o1, o1)
      BY <2>2, <2>3 DEF SameLocks
    <2>5. Balance(t, req[t], o.tl, o1, o)
      BY <2>2, <2>4, BalanceAgrees
    <2> QED
      BY <1>3, <2>2, <2>5, NoPathType DEF OutcomeFor, OutcomeOK
  <1> QED
    BY <1>2, <1>3

(* What the pass does to the element of t: it has all its paths, or none    *)
(* and for good, or it goes on waiting.                                     *)
LEMMA WakePathWork ==
  ASSUME Benign, NEW t \in Threads, AtWork(t), WakePath(t)
  PROVE  \E o1, o2 :
           \/ Everything(t, req[t], o1, o2) /\ Answer(t, "ok")
           \/ /\ Nothing(t, req[t], o1, o2)
              /\ \E e \in {"ENOENT", "ENOMEM"} : Answer(t, e)
              /\ HasSecond(req[t]) => ~Attached(req[t].ino1) \/ ~Attached(req[t].ino2)
           \/ /\ Work(t, req[t], o1, o2) /\ UNCHANGED <<done, err>>
              /\ o2.err = "ok" => HasSecond(req[t])
              /\ done[t] => err[t] # "ok" /\ Nothing(t, req[t], o1, o2)
  <1> DEFINE r == req[t]
             Goal == \E o1, o2 :
                       \/ Everything(t, r, o1, o2) /\ Answer(t, "ok")
                       \/ /\ Nothing(t, r, o1, o2)
                          /\ \E e \in {"ENOENT", "ENOMEM"} : Answer(t, e)
                          /\ HasSecond(r) => ~Attached(r.ino1) \/ ~Attached(r.ino2)
                       \/ /\ Work(t, r, o1, o2) /\ UNCHANGED <<done, err>>
                          /\ o2.err = "ok" => HasSecond(r)
                          /\ done[t] => err[t] # "ok" /\ Nothing(t, r, o1, o2)
  <1>1. Ino(r, 1) = r.ino1 /\ Ino(r, 2) = r.ino2
    BY DEF Ino
  <1>2. ASSUME NEW o1, NEW o2, NEW tl, TableOK(tl), OutcomeOK(o1), OutcomeOK(o2),
               Balance(t, r, tl, o1, o2), SetHandles(t, NotHeld, NotHeld),
               treelock' = Undo(Undo(tl, r, 1, o1), r, 2, o2)
        PROVE  Nothing(t, r, NotHeld, NotHeld)
    <2>1. Balance(t, r, Undo(Undo(tl, r, 1, o1), r, 2, o2), NotHeld, NotHeld)
      BY <1>2, UndoBalance
    <2>2. Balance(t, r, treelock', NotHeld, NotHeld)
      BY <1>2, <2>1
    <2> QED
      BY <1>2, <2>2, NotHeldOutcome DEF Nothing, Work
  <1>3. PICK o1 \in TryElement(treelock, t, 1) :
          \/ /\ o1.err \notin {"ok", "EAGAIN"}
             /\ GiveUp(t, o1, Held(t, 2), o1.tl, o1.err)
          \/ /\ o1.err \in {"ok", "EAGAIN"}
             /\ \E o2 \in TrySecond(o1.tl, t) :
                  \/ o2.err \notin {"ok", "EAGAIN", "none"} /\ GiveUp(t, o1, o2, o2.tl, o2.err)
                  \/ /\ o1.err = "ok" /\ o2.err \in {"ok", "none"}
                     /\ treelock' = o2.tl
                     /\ SetHandles(t, o1, o2)
                     /\ Answer(t, "ok")
                  \/ /\ "EAGAIN" \in {o1.err, o2.err} /\ o2.err \in {"ok", "EAGAIN", "none"}
                     /\ KeepTrying(t, o1, o2, o2.tl)
    BY DEF WakePath
  <1>4. Element(t, 1, o1) /\ Balance(t, r, o1.tl, o1, Held(t, 2))
    BY FirstElement1
  <1>5. CASE /\ o1.err \notin {"ok", "EAGAIN"}
             /\ GiveUp(t, o1, Held(t, 2), o1.tl, o1.err)
    <2>1. Nothing(t, r, NotHeld, NotHeld) /\ Answer(t, o1.err)
      BY <1>2, <1>4, <1>5, AtWorkFacts DEF GiveUp, Element
    <2>2. o1.err \in {"ENOENT", "ENOMEM"} /\ (HasSecond(r) => ~Attached(r.ino1))
      BY <1>1, <1>4, <1>5 DEF Element
    <2> QED
      BY <2>1, <2>2
  <1>6. ASSUME o1.err \in {"ok", "EAGAIN"}, NEW o2 \in TrySecond(o1.tl, t),
               \/ o2.err \notin {"ok", "EAGAIN", "none"} /\ GiveUp(t, o1, o2, o2.tl, o2.err)
               \/ /\ o1.err = "ok" /\ o2.err \in {"ok", "none"}
                  /\ treelock' = o2.tl
                  /\ SetHandles(t, o1, o2)
                  /\ Answer(t, "ok")
               \/ /\ "EAGAIN" \in {o1.err, o2.err} /\ o2.err \in {"ok", "EAGAIN", "none"}
                  /\ KeepTrying(t, o1, o2, o2.tl)
        PROVE  Goal
    <2>1. /\ Balance(t, r, o2.tl, o1, o2) /\ OutcomeFor(r, 2, o2)
          /\ TableOK(o2.tl) /\ OutcomeOK(o2)
          /\ HasSecond(r) => Element(t, 2, o2)
          /\ ~HasSecond(r) => o2.err = "none"
      <3>1. OutcomeFor(r, 1, o1) /\ TableOK(o1.tl)
        BY <1>4 DEF Element
      <3> QED
        BY <1>4, <3>1, SecondElement
    <2>2. OutcomeFor(r, 1, o1) /\ OutcomeOK(o1)
      BY <1>4 DEF Element
    <2>3. CASE o2.err \notin {"ok", "EAGAIN", "none"} /\ GiveUp(t, o1, o2, o2.tl, o2.err)
      <3>1. Nothing(t, r, NotHeld, NotHeld) /\ Answer(t, o2.err)
        BY <1>2, <2>1, <2>2, <2>3 DEF GiveUp
      <3>2. o2.err \in {"ENOENT", "ENOMEM"} /\ ~Attached(r.ino2)
        BY <1>1, <2>1, <2>3 DEF Element
      <3> QED
        BY <3>1, <3>2
    <2>4. CASE /\ o1.err = "ok" /\ o2.err \in {"ok", "none"}
               /\ treelock' = o2.tl
               /\ SetHandles(t, o1, o2)
               /\ Answer(t, "ok")
      <3>1. Balance(t, r, treelock', o1, o2)
        BY <2>1, <2>4
      <3>2. o2.err = "ok" <=> HasSecond(r)
        BY <2>1, <2>4 DEF Element
      <3>3. Everything(t, r, o1, o2)
        BY <2>1, <2>2, <2>4, <3>1, <3>2 DEF Everything, Work
      <3> QED
        BY <2>4, <3>3
    <2>5. CASE /\ "EAGAIN" \in {o1.err, o2.err} /\ o2.err \in {"ok", "EAGAIN", "none"}
               /\ KeepTrying(t, o1, o2, o2.tl)
      <3>1. o2.err = "ok" => HasSecond(r)
        BY <2>1
      <3>2. ASSUME done[t]
            PROVE  err[t] # "ok" /\ o1.err # "ok" /\ o2.err # "ok"
        <4>1. StageOK(t) /\ pc[t] = "waiting" /\ r.op # "forget"
          BY DEF AtWork, ThreadOK
        <4>2. err[t] # "ok"
          <5> SUFFICES ASSUME err[t] = "ok"
                       PROVE  FALSE
            OBVIOUS
          <5>1. hold[<<t, 1>>] /\ (hold[<<t, 2>>] <=> HasSecond(r))
            BY <3>2, <4>1 DEF StageOK
          <5>2. o1.err = "ok" /\ o2.err # "EAGAIN"
            BY <1>4, <2>1, <5>1 DEF Element
          <5> QED
            BY <2>5, <5>2
        <4>3. /\ ~hold[<<t, 1>>] /\ ~hold[<<t, 2>>]
              /\ HasSecond(r) => ~Attached(r.ino1) \/ ~Attached(r.ino2)
          BY <3>2, <4>1, <4>2 DEF StageOK
        <4>4. ~HasSecond(r)
          BY <1>1, <1>4, <1>6, <2>1, <2>5, <4>3 DEF Element
        <4> QED
          BY <2>1, <2>5, <4>2, <4>4
      <3>3. CASE KeepPartial(t, o1, o2, o2.tl)
        <4>1. /\ SetHandles(t, o1, o2) /\ Balance(t, r, treelock', o1, o2)
              /\ UNCHANGED <<done, err>>
          BY <2>1, <3>3 DEF KeepPartial
        <4>2. Work(t, r, o1, o2)
          BY <2>1, <2>2, <4>1 DEF Work
        <4> QED
          BY <3>1, <3>2, <4>1, <4>2 DEF Nothing
      <3>4. CASE KeepNothing(t, o1, o2, o2.tl)
        <4>1. Nothing(t, r, NotHeld, NotHeld) /\ UNCHANGED <<done, err>>
          BY <1>2, <2>1, <2>2, <3>4 DEF KeepNothing
        <4> QED
          BY <3>2, <4>1 DEF Nothing
      <3> QED
        BY <2>5, <3>3, <3>4 DEF KeepTrying
    <2> QED
      BY <1>6, <2>3, <2>4, <2>5
  <1> QED
    BY <1>3, <1>5, <1>6

-----------------------------------------------------------------------------
(* Steps that leave the tree alone.                                         *)
LEMMA SameTreeFacts ==
  ASSUME UNCHANGED treeVars
  PROVE  /\ parent' = parent /\ name' = name /\ nlookup' = nlookup /\ Walk' = Walk
         /\ \A p, nm : LookupNode(p, nm)' = LookupNode(p, nm)
         /\ \A n : /\ Attached(n)' <=> Attached(n)
                   /\ PathNames(n)' = PathNames(n)
  <1>1. parent' = parent /\ name' = name /\ nlookup' = nlookup
    BY DEF treeVars
  <1>2. Walk' = Walk
    BY <1>1 DEF Walk
  <1>3. \A p, nm : LookupNode(p, nm)' = LookupNode(p, nm)
    BY <1>1 DEF LookupNode, IsChild
  <1>4. \A n : Path(n)' = Path(n) /\ (Attached(n)' <=> Attached(n))
    BY <1>2 DEF Path, Attached, Chain
  <1>5. \A n : PathNames(n)' = PathNames(n)
    BY <1>1, <1>4 DEF PathNames
  <1> QED
    BY <1>1, <1>2, <1>3, <1>4, <1>5

LEMMA WorkHandles ==
  ASSUME TypeOK, NEW t \in Threads, NEW r, NEW o1, NEW o2, Work(t, r, o1, o2)
  PROVE  /\ hold'[<<t, 1>>] = (o1.err = "ok") /\ hold'[<<t, 2>>] = (o2.err = "ok")
         /\ wnode'[<<t, 1>>] = o1.w /\ wnode'[<<t, 2>>] = o2.w
         /\ path'[<<t, 1>>] = o1.p /\ path'[<<t, 2>>] = o2.p
         /\ \A u \in Threads \ {t}, i \in {1, 2} :
              /\ hold'[<<u, i>>] = hold[<<u, i>>] /\ wnode'[<<u, i>>] = wnode[<<u, i>>]
              /\ path'[<<u, i>>] = path[<<u, i>>]
         /\ \A i \in {1, 2} : ~hold'[<<t, i>>] =>
              wnode'[<<t, i>>] = NoNode /\ path'[<<t, i>>] = NoPath
  <1>1. /\ <<t, 1>> \in Handles /\ <<t, 2>> \in Handles /\ <<t, 1>> # <<t, 2>>
        /\ DOMAIN hold = Handles /\ DOMAIN wnode = Handles /\ DOMAIN path = Handles
    BY HandleFacts DEF TypeOK
  <1>2. /\ hold' = [hold EXCEPT ![<<t, 1>>] = (o1.err = "ok"), ![<<t, 2>>] = (o2.err = "ok")]
        /\ wnode' = [wnode EXCEPT ![<<t, 1>>] = o1.w, ![<<t, 2>>] = o2.w]
        /\ path' = [path EXCEPT ![<<t, 1>>] = o1.p, ![<<t, 2>>] = o2.p]
    BY DEF Work, SetHandles
  <1>3. hold'[<<t, 1>>] = (o1.err = "ok") /\ hold'[<<t, 2>>] = (o2.err = "ok")
    BY <1>1, <1>2, Zenon
  <1>4. /\ wnode'[<<t, 1>>] = o1.w /\ wnode'[<<t, 2>>] = o2.w
        /\ path'[<<t, 1>>] = o1.p /\ path'[<<t, 2>>] = o2.p
    BY <1>1, <1>2
  <1>5. \A h \in Handles : h # <<t, 1>> /\ h # <<t, 2>> =>
          hold'[h] = hold[h] /\ wnode'[h] = wnode[h] /\ path'[h] = path[h]
    BY <1>1, <1>2, Zenon
  <1>6. \A u \in Threads \ {t}, i \in {1, 2} :
          <<u, i>> \in Handles /\ <<u, i>> # <<t, 1>> /\ <<u, i>> # <<t, 2>>
    BY DEF Handles
  <1>7. OutcomeFor(r, 1, o1) /\ OutcomeFor(r, 2, o2)
    BY DEF Work
  <1>8. \A i \in {1, 2} : ~hold'[<<t, i>>] =>
          wnode'[<<t, i>>] = NoNode /\ path'[<<t, i>>] = NoPath
    BY <1>3, <1>4, <1>7 DEF OutcomeFor
  <1>9. \A u \in Threads \ {t}, i \in {1, 2} :
          /\ hold'[<<u, i>>] = hold[<<u, i>>] /\ wnode'[<<u, i>>] = wnode[<<u, i>>]
          /\ path'[<<u, i>>] = path[<<u, i>>]
    BY <1>5, <1>6, Zenon
  <1> QED
    BY <1>3, <1>4, <1>8, <1>9, Zenon

LEMMA WorkThread ==
  ASSUME TypeOK, NEW t \in Threads, NEW r, NEW o1, NEW o2, Work(t, r, o1, o2),
         UNCHANGED treeVars, req'[t] = r \/ Nothing(t, r, o1, o2), NEW i \in {1, 2}
  PROVE  HeldOK(t, i)' /\ WriterOK(t, i)' /\ EntryOK(t, i)'
  <1>1. PICK o : o = (IF i = 1 THEN o1 ELSE o2)
    OBVIOUS
  <1>2. /\ hold'[<<t, i>>] <=> o.err = "ok"
        /\ wnode'[<<t, i>>] = o.w /\ path'[<<t, i>>] = o.p
    <2>1. /\ hold'[<<t, 1>>] = (o1.err = "ok") /\ hold'[<<t, 2>>] = (o2.err = "ok")
          /\ wnode'[<<t, 1>>] = o1.w /\ wnode'[<<t, 2>>] = o2.w
          /\ path'[<<t, 1>>] = o1.p /\ path'[<<t, 2>>] = o2.p
      BY WorkHandles
    <2>2. CASE i = 1
      BY <1>1, <2>1, <2>2
    <2>3. CASE i = 2
      BY <1>1, <2>1, <2>3
    <2> QED
      BY <2>2, <2>3
  <1>3. OutcomeFor(r, i, o)
    BY <1>1 DEF Work
  <1>4. CASE ~hold'[<<t, i>>]
    BY <1>4 DEF HeldOK, WriterOK, EntryOK
  <1>5. CASE hold'[<<t, i>>]
    <2>1. req'[t] = r /\ o.err = "ok"
      BY <1>1, <1>2, <1>5 DEF Nothing
    <2>2. HeldOK(t, i)'
      BY <1>2, <1>3, <2>1, SameTreeFacts DEF HeldOK, OutcomeFor, Ino, Attached, Chain, PathNames, Path
    <2>3. WriterOK(t, i)'
      BY <1>2, <1>3, <2>1, SameTreeFacts DEF WriterOK, OutcomeFor, Ino
    <2>4. EntryOK(t, i)'
      <3>1. PICK p, nm : p = Ino(r, i) /\ nm = Entry(r, i)
        OBVIOUS
      <3>2. Ino(req'[t], i) = p /\ Entry(req'[t], i) = nm
        BY <2>1, <3>1
      <3>3. r.op \in WriteOps => LookupNode(p, nm)' \in {o.w, NoNode}
        BY <1>3, <2>1, <3>1, SameTreeFacts DEF OutcomeFor
      <3> QED
        BY <1>2, <2>1, <3>2, <3>3 DEF EntryOK, Ino, Entry
    <2> QED
      BY <2>2, <2>3, <2>4
  <1> QED
    BY <1>4, <1>5

LEMMA OtherThread ==
  ASSUME TypeOK, NEW u \in Threads, ThreadOK(u), UNCHANGED treeVars,
         pc'[u] = pc[u], req'[u] = req[u], done'[u] = done[u], err'[u] = err[u],
         \A i \in {1, 2} : /\ hold'[<<u, i>>] = hold[<<u, i>>]
                           /\ wnode'[<<u, i>>] = wnode[<<u, i>>]
                           /\ path'[<<u, i>>] = path[<<u, i>>]
  PROVE  ThreadOK(u)'
  <1>1. StageOK(u)' /\ InoOK(u)'
    BY SameTreeFacts DEF ThreadOK, StageOK, InoOK, HasPaths, HasSecond, Attached, Chain
  <1>2. ASSUME NEW i \in {1, 2}
        PROVE  HeldOK(u, i)' /\ WriterOK(u, i)' /\ EntryOK(u, i)'
    <2>1. HeldOK(u, i) /\ WriterOK(u, i) /\ EntryOK(u, i)
      BY DEF ThreadOK
    <2>2. HeldOK(u, i)'
      BY <2>1, SameTreeFacts DEF HeldOK, Ino, Attached, Chain, PathNames, Path
    <2>3. WriterOK(u, i)'
      BY <2>1, SameTreeFacts DEF WriterOK, Ino, HasPaths
    <2>4. EntryOK(u, i)'
      <3>1. PICK p, nm : p = Ino(req[u], i) /\ nm = Entry(req[u], i)
        OBVIOUS
      <3>2. Ino(req'[u], i) = p /\ Entry(req'[u], i) = nm
        BY <3>1
      <3>3. LookupNode(p, nm)' = LookupNode(p, nm)
        BY SameTreeFacts
      <3> QED
        BY <2>1, <3>1, <3>2, <3>3 DEF EntryOK, Ino, Entry
    <2> QED
      BY <2>2, <2>3, <2>4
  <1> QED
    BY <1>1, <1>2 DEF ThreadOK

(* A request's nodes, while the kernel waits for its answer.                *)
LEMMA UnansweredInos ==
  TreeInv => \A t \in Unanswered : req[t].op # "forget" => InoOK(t)
  <1> SUFFICES ASSUME TreeInv, NEW t \in Unanswered, req[t].op # "forget"
               PROVE  InoOK(t)
    OBVIOUS
  <1>1. TypeOK /\ TreeOK /\ PinsOK
    BY DEF TreeInv
  <1> QED
    BY <1>1, KnownIsLookedUp DEF InoOK, PinsOK

LEMMA UnansweredInosNext ==
  TreeInv' => (\A t \in Unanswered : req[t].op # "forget" => InoOK(t))'
  BY UnansweredInos, PTL

LEMMA VictimsStay ==
  ASSUME UNCHANGED treeVars,
         \A n : \A v \in Forgetting(n)' : v \in Forgetting(n) /\ req'[v] = req[v],
         \A u \in Threads : pc'[u] \in {"waiting", "locked"} => EntriesKnown(req'[u])
  PROVE  VictimsOK'
  <1> SUFFICES ASSUME NEW u \in Threads, pc'[u] \in {"waiting", "locked"}
               PROVE  EntriesKnown(req[u])'
    BY DEF VictimsOK
  <1>1. PICK r : r = req'[u] /\ EntriesKnown(r)
    OBVIOUS
  <1> SUFFICES ASSUME NEW i \in {1, 2}, r.op \in WriteOps, Ino(r, i) \in Nodes,
                      NEW c, c = LookupNode(Ino(req[u], i), Entry(req[u], i))', c # NoNode
               PROVE  KernelKnows(c)'
    BY <1>1 DEF EntriesKnown, Ino
  <1>2. PICK p, nm : p = Ino(r, i) /\ nm = Entry(r, i)
    OBVIOUS
  <1>3. c = LookupNode(p, nm)'
    BY <1>1, <1>2 DEF LookupNode, IsChild, Ino, Entry
  <1>4. c = LookupNode(p, nm)
    BY <1>3, SameTreeFacts
  <1>5. KernelKnows(c)
    BY <1>1, <1>2, <1>4 DEF EntriesKnown
  <1> QED
    BY <1>5, SameTreeFacts DEF KernelKnows

Elsewhere(t) ==
  \A u \in Threads \ {t} :
    pc'[u] = pc[u] /\ req'[u] = req[u] /\ done'[u] = done[u] /\ err'[u] = err[u]

LEMMA WorkStep ==
  ASSUME TypeOK, LockInv, NEW t \in Threads, NEW r, NEW o1, NEW o2, Work(t, r, o1, o2),
         UNCHANGED treeVars, req'[t] = r \/ Nothing(t, r, o1, o2), Elsewhere(t),
         VictimsOK', StageOK(t)', InoOK(t)'
  PROVE  LockInv'
  <1>1. LockAccount'
    BY CloseBalance DEF Work, Nothing, Elsewhere
  <1>2. ThreadOK(t)'
    BY WorkThread DEF ThreadOK
  <1>3. ASSUME NEW u \in Threads \ {t}
        PROVE  ThreadOK(u)'
    <2>1. \A i \in {1, 2} : /\ hold'[<<u, i>>] = hold[<<u, i>>]
                            /\ wnode'[<<u, i>>] = wnode[<<u, i>>]
                            /\ path'[<<u, i>>] = path[<<u, i>>]
      BY WorkHandles
    <2> QED
      BY <2>1, OtherThread DEF LockInv, Elsewhere
  <1> QED
    BY <1>1, <1>2, <1>3 DEF LockInv

LEMMA StillStep ==
  ASSUME TypeOK, LockInv, NEW t \in Threads, UNCHANGED treeVars,
         UNCHANGED <<treelock, hold, wnode, path>>, Elsewhere(t),
         req'[t] = req[t] \/ (~hold[<<t, 1>>] /\ ~hold[<<t, 2>>]),
         VictimsOK', ThreadOK(t)'
  PROVE  LockInv'
  <1>1. LockAccount'
    <2>1. HeldPaths' = HeldPaths
      BY DEF HeldPaths
    <2>2. \A h \in HeldPaths : HandleIno(h)' = HandleIno(h)
      <3> SUFFICES ASSUME NEW h \in HeldPaths
                   PROVE  req'[h[1]] = req[h[1]]
        BY DEF HandleIno, Ino
      <3> QED
        BY HandleFacts DEF HeldPaths, Elsewhere
    <2>3. ASSUME NEW n \in Nodes
          PROVE  Fits(treelock[n], ReadersOf(HeldPaths, [h \in Handles |-> HandleIno(h)], n),
                      WritersOf(HeldPaths, wnode, n))'
      <3>1. ReadersOf(HeldPaths, [h \in Handles |-> HandleIno(h)], n)'
            = ReadersOf(HeldPaths, [h \in Handles |-> HandleIno(h)], n)
        <4>1. \A m : Path(m)' = Path(m)
          BY SameTreeFacts DEF Path, Chain
        <4>2. \A h \in HeldPaths : [g \in Handles |-> HandleIno(g)'][h] = HandleIno(h)
          BY <2>2 DEF HeldPaths
        <4> QED
          BY <2>1, <4>1, <4>2 DEF ReadersOf, Path, Chain, HeldPaths
      <3>2. WritersOf(HeldPaths, wnode, n)' = WritersOf(HeldPaths, wnode, n)
        BY <2>1 DEF WritersOf
      <3> QED
        BY <3>1, <3>2 DEF LockInv, LockAccount, Counted, Fits
    <2> QED
      BY <2>3 DEF LockAccount, Counted
  <1>2. ASSUME NEW u \in Threads \ {t}
        PROVE  ThreadOK(u)'
    BY OtherThread DEF LockInv, Elsewhere
  <1> QED
    BY <1>1, <1>2 DEF LockInv

(* A thread that holds nothing.                                             *)
LEMMA EmptyThread ==
  ASSUME NEW t, ~hold'[<<t, 1>>], ~hold'[<<t, 2>>], StageOK(t)', InoOK(t)'
  PROVE  ThreadOK(t)'
  <1>1. ASSUME NEW i \in {1, 2}
        PROVE  HeldOK(t, i)' /\ WriterOK(t, i)' /\ EntryOK(t, i)'
    <2>1. ~hold'[<<t, i>>]
      <3>1. i = 1 \/ i = 2
        OBVIOUS
      <3> QED
        BY <3>1
    <2> QED
      BY <2>1 DEF HeldOK, WriterOK, EntryOK
  <1> QED
    BY <1>1 DEF ThreadOK

LEMMA NothingToName ==
  ASSUME NEW t, req'[t] = NoRequest
  PROVE  InoOK(t)'
  BY NodeTreeAssumption DEF InoOK, NoRequest

LEMMA MaySendKnown ==
  ASSUME Benign, NEW r, WellFormed(r), KernelMaySend(r)
  PROVE  EntriesKnown(r)
  <1> SUFFICES ASSUME NEW i \in {1, 2}, r.op \in WriteOps, Ino(r, i) \in Nodes,
                      LookupNode(Ino(r, i), Entry(r, i)) # NoNode
               PROVE  KernelKnows(LookupNode(Ino(r, i), Entry(r, i)))
    BY DEF EntriesKnown
  <1>1. Victim(r, i) = LookupNode(Ino(r, i), Entry(r, i))
    BY WriteEntries DEF Victim
  <1>2. CASE i = 1
    BY <1>1, <1>2 DEF KernelMaySend
  <1>3. CASE i = 2
    <2>1. r.op = "rename"
      BY <1>3, NodeTreeAssumption DEF WellFormed, Ino, WriteOps, PathPairOps
    <2> QED
      BY <1>1, <1>3, <2>1 DEF KernelMaySend, Benign
  <1> QED
    BY <1>2, <1>3

LEMMA ReceiveLocks ==
  ASSUME Benign, TreeInv, TreeInv', LockInv, NEW t \in Threads, NEW r, WellFormed(r),
         r.op \notin {"none", "forget"}, Receive(t, r)
  PROVE  LockInv'
  <1>1. /\ TypeOK /\ RequestsOK /\ TreeOK /\ Acyclic /\ LockAccount /\ VictimsOK
        /\ \A u \in Threads : ThreadOK(u)
        /\ pc[t] = "idle" /\ KernelMaySend(r) /\ UNCHANGED treeVars
    BY DEF TreeInv, LockInv, Receive
  <1>2. r.ino1 \in Nodes /\ r.ino2 \in Nodes \cup {NoNode} /\ EntriesKnown(r)
    BY <1>1, MaySendKnown DEF WellFormed, Request
  <1>3. PICK o1, o2 : \/ Nothing(t, r, o1, o2) /\ (Refused(t) \/ Waits(t, r))
                      \/ Everything(t, r, o1, o2) /\ Goes(t, r)
    BY <1>1, <1>2, GetPathWork DEF Receive, HasSecond
  <1>4. Work(t, r, o1, o2)
    BY <1>3 DEF Nothing, Everything
  <1>5. /\ pc \in [Threads -> {"idle", "waiting", "locked", "acted", "replied"}]
        /\ req \in [Threads -> Request] /\ done \in [Threads -> BOOLEAN] /\ DOMAIN err = Threads
    BY <1>1 DEF TypeOK
  <1>6. Elsewhere(t)
    BY <1>3, <1>5 DEF Refused, Waits, Goes, Elsewhere
  <1>7. /\ hold'[<<t, 1>>] <=> o1.err = "ok"
        /\ hold'[<<t, 2>>] <=> o2.err = "ok"
        /\ \A i \in {1, 2} : ~hold'[<<t, i>>] =>
             wnode'[<<t, i>>] = NoNode /\ path'[<<t, i>>] = NoPath
    <2>1. hold'[<<t, 1>>] = (o1.err = "ok") /\ hold'[<<t, 2>>] = (o2.err = "ok")
      BY <1>1, <1>4, WorkHandles
    <2>2. \A i \in {1, 2} : ~hold'[<<t, i>>] =>
            wnode'[<<t, i>>] = NoNode /\ path'[<<t, i>>] = NoPath
      BY <1>1, <1>4, WorkHandles
    <2> QED
      BY <2>1, <2>2
  <1>8. CASE Nothing(t, r, o1, o2) /\ Refused(t)
    <2>1. pc'[t] = "idle" /\ req'[t] = NoRequest /\ pc' = pc /\ req' = req
      BY <1>1, <1>8 DEF Refused, ThreadOK, StageOK
    <2>2. StageOK(t)'
      BY <1>7, <1>8, <2>1 DEF Nothing, StageOK, HasPaths
    <2>3. VictimsOK'
      BY <1>1, <2>1, VictimsStay DEF VictimsOK, Forgetting
    <2> QED
      BY <1>1, <1>4, <1>6, <1>8, <2>1, <2>2, <2>3, NothingToName, WorkStep
  <1>9. ASSUME pc'[t] \in {"waiting", "locked"}, req'[t] = r, StageOK(t)'
        PROVE  LockInv'
    <2>1. InoOK(t)'
      BY <1>9, UnansweredInosNext DEF Unanswered
    <2>2. VictimsOK'
      <3>1. \A n : \A v \in Forgetting(n)' : v \in Forgetting(n) /\ req'[v] = req[v]
        BY <1>6, <1>9 DEF Forgetting, Elsewhere
      <3>2. \A u \in Threads : pc'[u] \in {"waiting", "locked"} => EntriesKnown(req'[u])
        BY <1>1, <1>2, <1>6, <1>9 DEF VictimsOK, Elsewhere
      <3> QED
        BY <1>1, <3>1, <3>2, VictimsStay
    <2> QED
      BY <1>1, <1>4, <1>6, <1>9, <2>1, <2>2, WorkStep
  <1>10. CASE Nothing(t, r, o1, o2) /\ Waits(t, r)
    <2>1. /\ pc'[t] = "waiting" /\ req'[t] = r /\ done'[t] = FALSE
          /\ ~hold'[<<t, 1>>] /\ ~hold'[<<t, 2>>]
      BY <1>5, <1>7, <1>10 DEF Nothing, Waits
    <2>2. StageOK(t)'
      BY <1>7, <2>1 DEF StageOK, HasPaths
    <2> QED
      BY <1>9, <2>1, <2>2
  <1>11. CASE Everything(t, r, o1, o2) /\ Goes(t, r)
    <2>1. /\ pc'[t] = "locked" /\ req'[t] = r
          /\ hold'[<<t, 1>>] /\ (hold'[<<t, 2>>] <=> HasSecond(r))
      BY <1>5, <1>7, <1>11 DEF Everything, Goes
    <2>2. StageOK(t)'
      BY <1>7, <2>1 DEF StageOK, HasPaths, HasSecond
    <2> QED
      BY <1>9, <2>1, <2>2
  <1> QED
    BY <1>3, <1>8, <1>10, <1>11

LEMMA WakeLocks ==
  ASSUME Benign, TreeInv, TreeInv', LockInv, WakeElement
  PROVE  LockInv'
  <1>1. /\ TypeOK /\ RequestsOK /\ TreeOK /\ Acyclic /\ LockAccount /\ VictimsOK /\ QueueOK
        /\ \A u \in Threads : ThreadOK(u)
        /\ UNCHANGED treeVars /\ pc' = pc /\ req' = req /\ scan # 0
    BY DEF TreeInv, LockInv, WakeElement
  <1>2. PICK t \in Threads : /\ t = lockq[scan] /\ pc[t] = "waiting"
                             /\ IF req[t].op = "forget" THEN WakeForget(t) ELSE WakePath(t)
    BY <1>1, ScanFacts DEF WakeElement, QueueOK
  <1>3. VictimsOK'
    BY <1>1, VictimsStay DEF VictimsOK, Forgetting
  <1>4. InoOK(t)'
    BY <1>1, SameTreeFacts DEF InoOK, ThreadOK
  <1>5. /\ done \in [Threads -> BOOLEAN] /\ DOMAIN err = Threads
    BY <1>1 DEF TypeOK
  <1>6. CASE req[t].op = "forget" /\ WakeForget(t)
    <2>1. UNCHANGED <<treelock, hold, wnode, path>> /\ Elsewhere(t)
      BY <1>1, <1>5, <1>6 DEF WakeForget, Elsewhere
    <2>2. StageOK(t) /\ ~hold[<<t, 1>>] /\ ~hold[<<t, 2>>]
      BY <1>1, <1>6 DEF ThreadOK, StageOK
    <2>3. StageOK(t)'
      BY <1>1, <1>2, <1>6, <2>1, <2>2 DEF StageOK, HasPaths
    <2>4. ThreadOK(t)'
      BY <1>4, <2>1, <2>2, <2>3, EmptyThread
    <2> QED
      BY <1>1, <1>3, <2>1, <2>4, StillStep
  <1>7. CASE req[t].op # "forget" /\ WakePath(t)
    <2>1. AtWork(t)
      BY <1>1, <1>2, <1>7 DEF AtWork, VictimsOK
    <2>2. PICK r : r = req[t]
      OBVIOUS
    <2>3. PICK o1, o2 :
            \/ Everything(t, r, o1, o2) /\ Answer(t, "ok")
            \/ /\ Nothing(t, r, o1, o2)
               /\ \E e \in {"ENOENT", "ENOMEM"} : Answer(t, e)
               /\ HasSecond(r) => ~Attached(r.ino1) \/ ~Attached(r.ino2)
            \/ /\ Work(t, r, o1, o2) /\ UNCHANGED <<done, err>>
               /\ o2.err = "ok" => HasSecond(r)
               /\ done[t] => err[t] # "ok" /\ Nothing(t, r, o1, o2)
      BY <1>7, <2>1, <2>2, WakePathWork
    <2>4. Work(t, r, o1, o2) /\ StageOK(t) /\ req'[t] = r
      BY <1>1, <2>2, <2>3 DEF Nothing, Everything, ThreadOK
    <2>5. Elsewhere(t)
      BY <1>1, <1>5, <2>3 DEF Answer, Elsewhere
    <2>6. /\ hold'[<<t, 1>>] <=> o1.err = "ok"
          /\ hold'[<<t, 2>>] <=> o2.err = "ok"
          /\ \A i \in {1, 2} : ~hold'[<<t, i>>] =>
               wnode'[<<t, i>>] = NoNode /\ path'[<<t, i>>] = NoPath
      <3>1. hold'[<<t, 1>>] = (o1.err = "ok") /\ hold'[<<t, 2>>] = (o2.err = "ok")
        BY <1>1, <2>4, WorkHandles
      <3>2. \A i \in {1, 2} : ~hold'[<<t, i>>] =>
              wnode'[<<t, i>>] = NoNode /\ path'[<<t, i>>] = NoPath
        BY <1>1, <2>4, WorkHandles
      <3> QED
        BY <3>1, <3>2
    <2>7. r.op # "forget" /\ pc[t] = "waiting" /\ pc'[t] = "waiting" /\ ~HasPaths(t)'
      BY <1>1, <1>2, <1>7, <2>2 DEF HasPaths
    <2>8. \A n : Attached(n)' <=> Attached(n)
      BY <1>1, SameTreeFacts
    <2>9. StageOK(t)'
      <3>1. CASE Everything(t, r, o1, o2) /\ Answer(t, "ok")
        <4>1. /\ done'[t] = TRUE /\ err'[t] = "ok"
              /\ hold'[<<t, 1>>] /\ (hold'[<<t, 2>>] <=> HasSecond(r))
          BY <1>5, <2>6, <3>1 DEF Everything, Answer
        <4> QED
          BY <2>4, <2>6, <2>7, <4>1 DEF StageOK, HasSecond
      <3>2. ASSUME Nothing(t, r, o1, o2), err'[t] # "ok",
                   HasSecond(r) => ~Attached(r.ino1) \/ ~Attached(r.ino2)
            PROVE  StageOK(t)'
        <4>1. ~hold'[<<t, 1>>] /\ ~hold'[<<t, 2>>]
          BY <2>6, <3>2 DEF Nothing
        <4>2. HasSecond(r) => ~Attached(r.ino1)' \/ ~Attached(r.ino2)'
          BY <2>8, <3>2
        <4> QED
          BY <2>4, <2>6, <2>7, <3>2, <4>1, <4>2 DEF StageOK, HasSecond, Attached, Chain
      <3>3. CASE /\ Nothing(t, r, o1, o2)
                 /\ \E e \in {"ENOENT", "ENOMEM"} : Answer(t, e)
                 /\ HasSecond(r) => ~Attached(r.ino1) \/ ~Attached(r.ino2)
        BY <1>5, <3>2, <3>3 DEF Answer
      <3>4. CASE /\ Work(t, r, o1, o2) /\ UNCHANGED <<done, err>>
                 /\ o2.err = "ok" => HasSecond(r)
                 /\ done[t] => err[t] # "ok" /\ Nothing(t, r, o1, o2)
        <4>1. CASE done[t]
          BY <2>2, <2>4, <2>7, <3>2, <3>4, <4>1 DEF StageOK
        <4>2. CASE ~done[t]
          BY <2>4, <2>6, <2>7, <3>4, <4>2 DEF StageOK, HasSecond
        <4> QED
          BY <4>1, <4>2
      <3> QED
        BY <2>3, <3>1, <3>3, <3>4
    <2> QED
      BY <1>1, <1>3, <1>4, <2>4, <2>5, <2>9, WorkStep
  <1> QED
    BY <1>2, <1>6, <1>7

(* A thread gives its paths back.                                           *)
LEMMA GivenBack ==
  ASSUME TypeOK, LockAccount, NEW t \in Threads, SetHandles(t, NotHeld, NotHeld),
         \/ treelock' = Undo(Undo(treelock, req[t], 1, Held(t, 1)), req[t], 2, Held(t, 2))
         \/ treelock' = treelock /\ ~hold[<<t, 1>>] /\ ~hold[<<t, 2>>]
  PROVE  Nothing(t, req[t], NotHeld, NotHeld)
  <1>1. Balance(t, req[t], treelock, Held(t, 1), Held(t, 2))
    BY OpenBalance
  <1>2. TableOK(treelock) /\ HandlesOK
    BY DEF TypeOK, TableOK, HandlesOK
  <1>3. CASE treelock' = Undo(Undo(treelock, req[t], 1, Held(t, 1)), req[t], 2, Held(t, 2))
    <2>1. OutcomeOK(Held(t, 1)) /\ OutcomeOK(Held(t, 2))
      BY <1>2, HeldType
    <2>2. Balance(t, req[t], Undo(Undo(treelock, req[t], 1, Held(t, 1)), req[t], 2, Held(t, 2)),
                  NotHeld, NotHeld)
      BY <1>1, <1>2, <2>1, UndoBalance
    <2>3. Balance(t, req[t], treelock', NotHeld, NotHeld)
      BY <1>3, <2>2
    <2> QED
      BY <2>3, NotHeldOutcome DEF Nothing, Work
  <1>4. CASE treelock' = treelock /\ ~hold[<<t, 1>>] /\ ~hold[<<t, 2>>]
    <2>1. Held(t, 1).err # "ok" /\ Held(t, 2).err # "ok"
      BY <1>4, HeldErr
    <2>2. Balance(t, req[t], treelock, NotHeld, NotHeld)
      BY <1>1, <2>1, NotHeldOutcome, BalanceAgrees DEF SameLocks
    <2>3. Balance(t, req[t], treelock', NotHeld, NotHeld)
      BY <1>4, <2>2
    <2> QED
      BY <2>3, NotHeldOutcome DEF Nothing, Work
  <1> QED
    BY <1>3, <1>4

LEMMA EndStage ==
  ASSUME TypeOK, NEW t \in Threads, NEW r, Nothing(t, r, NotHeld, NotHeld),
         pc'[t] = "idle", req'[t] = NoRequest
  PROVE  StageOK(t)'
  <1>1. hold'[<<t, 1>>] = (NotHeld.err = "ok") /\ hold'[<<t, 2>>] = (NotHeld.err = "ok")
    BY WorkHandles DEF Nothing
  <1>2. \A i \in {1, 2} : ~hold'[<<t, i>>] =>
          wnode'[<<t, i>>] = NoNode /\ path'[<<t, i>>] = NoPath
    BY WorkHandles DEF Nothing
  <1>3. ~hold'[<<t, 1>>] /\ ~hold'[<<t, 2>>]
    BY <1>1, NotHeldOutcome
  <1> QED
    BY <1>2, <1>3 DEF StageOK, HasPaths

LEMMA EndLocks ==
  ASSUME TypeOK, RequestsOK, LockInv, NEW t \in Threads, Nothing(t, req[t], NotHeld, NotHeld),
         UNCHANGED treeVars, Elsewhere(t), pc'[t] = "idle", req'[t] = NoRequest
  PROVE  LockInv'
  <1>1. StageOK(t)' /\ InoOK(t)'
    BY EndStage, NothingToName
  <1>2. VictimsOK'
    <2>1. \A n : \A v \in Forgetting(n)' : v \in Forgetting(n) /\ req'[v] = req[v]
      BY DEF Forgetting, Elsewhere
    <2>2. \A u \in Threads : pc'[u] \in {"waiting", "locked"} => EntriesKnown(req'[u])
      BY DEF Elsewhere, LockInv, VictimsOK
    <2> QED
      BY <2>1, <2>2, VictimsStay
  <1> QED
    BY <1>1, <1>2, WorkStep DEF Nothing

LEMMA FreeLocks ==
  ASSUME TreeInv, LockInv, NEW t \in Threads, FreePath(t)
  PROVE  LockInv'
  <1>1. TypeOK /\ RequestsOK /\ LockAccount
    BY DEF TreeInv, LockInv
  <1>2. Nothing(t, req[t], NotHeld, NotHeld)
    BY <1>1, GivenBack DEF FreePath
  <1>3. /\ Elsewhere(t) /\ pc'[t] = "idle" /\ req'[t] = NoRequest /\ UNCHANGED treeVars
    BY <1>1 DEF FreePath, Idle, Elsewhere, TypeOK
  <1> QED
    BY <1>1, <1>2, <1>3, EndLocks

LEMMA SameVictims ==
  ASSUME LockInv, UNCHANGED treeVars, req' = req,
         \A u \in Threads : pc'[u] \in {"waiting", "locked"} => pc[u] \in {"waiting", "locked"},
         \A u \in Threads : pc'[u] = "waiting" => pc[u] = "waiting"
  PROVE  VictimsOK'
  BY VictimsStay DEF LockInv, VictimsOK, Forgetting

LEMMA ResumeLocks ==
  ASSUME TreeInv, LockInv, NEW t \in Threads, Resume(t)
  PROVE  LockInv'
  <1>1. /\ TypeOK /\ RequestsOK /\ LockAccount /\ ThreadOK(t) /\ StageOK(t)
        /\ UNCHANGED treeVars /\ treelock' = treelock
        /\ pc[t] = "waiting" /\ req[t].op # "forget" /\ done[t]
    BY DEF TreeInv, LockInv, Resume, ThreadOK
  <1>2. CASE err[t] # "ok" /\ Idle(t) /\ SetHandles(t, NotHeld, NotHeld)
    <2>1. ~hold[<<t, 1>>] /\ ~hold[<<t, 2>>]
      BY <1>1, <1>2 DEF StageOK
    <2>2. Nothing(t, req[t], NotHeld, NotHeld)
      BY <1>1, <1>2, <2>1, GivenBack
    <2>3. Elsewhere(t) /\ pc'[t] = "idle" /\ req'[t] = NoRequest
      BY <1>1, <1>2 DEF Resume, Idle, Elsewhere, TypeOK
    <2> QED
      BY <1>1, <2>2, <2>3, EndLocks
  <1>3. CASE /\ err[t] = "ok" /\ pc' = [pc EXCEPT ![t] = "locked"]
             /\ UNCHANGED <<hold, wnode, path, req>>
    <2>1. Elsewhere(t) /\ pc'[t] = "locked" /\ req' = req
      BY <1>1, <1>3 DEF Resume, Elsewhere, TypeOK
    <2>2. VictimsOK'
      BY <1>1, <1>3, <2>1, SameVictims DEF Elsewhere
    <2>3. StageOK(t)' /\ InoOK(t)'
      <3>1. hold[<<t, 1>>] /\ (hold[<<t, 2>>] <=> HasSecond(req[t]))
        BY <1>1, <1>3 DEF StageOK
      <3>2. StageOK(t)'
        BY <1>1, <1>3, <2>1, <3>1 DEF StageOK, HasPaths, HasSecond
      <3> QED
        BY <1>1, <2>1, <3>2, SameTreeFacts DEF InoOK, ThreadOK
    <2>4. ASSUME NEW i \in {1, 2}
          PROVE  HeldOK(t, i)' /\ WriterOK(t, i)' /\ EntryOK(t, i)'
      <3>1. HeldOK(t, i) /\ WriterOK(t, i) /\ EntryOK(t, i) /\ ~HasPaths(t)
        BY <1>1 DEF ThreadOK, HasPaths
      <3>2. HeldOK(t, i)'
        BY <1>1, <1>3, <3>1, SameTreeFacts
        DEF HeldOK, Ino, Attached, Chain, PathNames, Path
      <3>3. WriterOK(t, i)'
        BY <1>1, <1>3, <3>1, SameTreeFacts DEF WriterOK, Ino
      <3>4. EntryOK(t, i)'
        <4>1. PICK p, nm : p = Ino(req[t], i) /\ nm = Entry(req[t], i)
          OBVIOUS
        <4>2. Ino(req'[t], i) = p /\ Entry(req'[t], i) = nm
          BY <1>3, <4>1
        <4>3. LookupNode(p, nm)' = LookupNode(p, nm)
          BY <1>1, SameTreeFacts
        <4> QED
          BY <1>1, <1>3, <3>1, <4>1, <4>2, <4>3 DEF EntryOK, Ino, Entry
      <3> QED
        BY <3>2, <3>3, <3>4
    <2> QED
      BY <1>1, <1>3, <2>1, <2>2, <2>3, <2>4, StillStep DEF ThreadOK
  <1> QED
    BY <1>2, <1>3 DEF Resume

LEMMA ReplyLocks ==
  ASSUME TreeInv, LockInv, NEW t \in Threads, Reply(t)
  PROVE  LockInv'
  <1>1. /\ TypeOK /\ RequestsOK /\ LockAccount /\ ThreadOK(t) /\ StageOK(t)
        /\ UNCHANGED treeVars /\ UNCHANGED lockVars /\ req' = req
        /\ pc[t] \in {"locked", "acted"}
        /\ pc'[t] = "replied" /\ \A u \in Threads \ {t} : pc'[u] = pc[u]
    BY DEF TreeInv, LockInv, Reply, ThreadOK, TypeOK
  <1>2. UNCHANGED <<treelock, hold, wnode, path>> /\ Elsewhere(t)
    BY <1>1 DEF lockVars, Elsewhere
  <1>3. VictimsOK'
    <2>1. \A u \in Threads : pc'[u] \in {"waiting", "locked"} => pc'[u] = pc[u]
      BY <1>1
    <2> QED
      BY <1>1, <2>1, SameVictims
  <1>4. HasPaths(t) /\ pc[t] # "idle" /\ req[t].op # "forget"
    BY <1>1 DEF HasPaths, RequestsOK
  <1>5. StageOK(t)' /\ InoOK(t)'
    <2>1. StageOK(t)'
      BY <1>1, <1>2, <1>4 DEF StageOK, HasPaths, HasSecond
    <2> QED
      BY <1>1, <2>1, SameTreeFacts DEF InoOK, ThreadOK
  <1>6. ASSUME NEW i \in {1, 2}
        PROVE  HeldOK(t, i)' /\ WriterOK(t, i)' /\ EntryOK(t, i)'
    <2>1. HeldOK(t, i) /\ WriterOK(t, i)
      BY <1>1 DEF ThreadOK
    <2>2. HeldOK(t, i)'
      BY <1>1, <1>2, <2>1, SameTreeFacts DEF HeldOK, Ino, Attached, Chain, PathNames, Path
    <2>3. WriterOK(t, i)'
      BY <1>1, <1>2, <2>1, SameTreeFacts DEF WriterOK, Ino, HasPaths
    <2>4. EntryOK(t, i)'
      BY <1>1 DEF EntryOK
    <2> QED
      BY <2>2, <2>3, <2>4
  <1> QED
    BY <1>1, <1>2, <1>3, <1>5, <1>6, StillStep DEF ThreadOK

LEMMA QueueForgetLocks ==
  ASSUME TreeInv, LockInv, NEW t \in Threads, pc[t] = "idle", NEW n \in Nodes,
         NEW k \in 1..nlookup[n], KernelMayForget(n),
         QueuePath(t, [NoRequest EXCEPT !.op = "forget", !.ino1 = n, !.count = k], treelock),
         UNCHANGED treeVars
  PROVE  LockInv'
  <1>1. PICK r : r = [NoRequest EXCEPT !.op = "forget", !.ino1 = n, !.count = k]
    OBVIOUS
  <1>2. r.op = "forget" /\ r.ino1 = n /\ r.ino2 = NoNode
    BY <1>1 DEF NoRequest
  <1>3. /\ TypeOK /\ LockAccount /\ ThreadOK(t) /\ StageOK(t) /\ VictimsOK
    BY DEF TreeInv, LockInv, ThreadOK
  <1>4. /\ UNCHANGED <<treelock, hold, wnode, path>>
        /\ pc'[t] = "waiting" /\ req'[t] = r /\ Elsewhere(t) /\ done'[t] = FALSE
    BY <1>1, <1>3 DEF QueuePath, Elsewhere, TypeOK
  <1>5. ~hold[<<t, 1>>] /\ ~hold[<<t, 2>>]
    BY <1>3 DEF StageOK
  <1>6. StageOK(t)'
    BY <1>2, <1>3, <1>4, <1>5 DEF StageOK, HasPaths
  <1>7. InoOK(t)'
    <2>1. nlookup'[n] > 0
      BY SameTreeFacts, <1>3 DEF TypeOK, TreeTypeOK
    <2> QED
      BY <1>2, <1>4, <2>1 DEF InoOK
  <1>8. ThreadOK(t)'
    BY <1>4, <1>5, <1>6, <1>7, EmptyThread
  <1>9. VictimsOK'
    <2> SUFFICES ASSUME NEW u \in Threads, pc'[u] \in {"waiting", "locked"}
                 PROVE  EntriesKnown(req[u])'
      BY DEF VictimsOK
    <2>1. CASE u = t
      BY <1>2, <1>4, <2>1 DEF EntriesKnown, WriteOps
    <2>2. CASE u # t
      <3>1. PICK q : q = req'[u] /\ q = req[u] /\ EntriesKnown(q) /\ u \in Unanswered
        BY <1>3, <1>4, <2>2 DEF VictimsOK, Elsewhere, Unanswered
      <3> SUFFICES ASSUME NEW i \in {1, 2}, q.op \in WriteOps, Ino(q, i) \in Nodes,
                          NEW c, c = LookupNode(Ino(req[u], i), Entry(req[u], i))', c # NoNode
                   PROVE  KernelKnows(c)'
        BY <3>1 DEF EntriesKnown, Ino
      <3>2. PICK p, nm : p = Ino(q, i) /\ nm = Entry(q, i)
        OBVIOUS
      <3>3. c = LookupNode(p, nm)'
        BY <3>1, <3>2 DEF LookupNode, IsChild, Ino, Entry
      <3>4. c = LookupNode(p, nm)
        BY <3>3, SameTreeFacts
      <3>5. KernelKnows(c)
        BY <3>1, <3>2, <3>4 DEF EntriesKnown
      <3>6. c = Victim(q, i) /\ q.op # "forget"
        <4>1. WellFormed(q)
          BY <3>1 DEF TreeInv, RequestsOK
        <4> QED
          BY <3>2, <3>4, <4>1, WriteEntries DEF Victim, WriteOps
      <3>7. c \in Pins(q)
        <4>1. i = 1 \/ i = 2
          OBVIOUS
        <4> QED
          BY <3>6, <4>1 DEF Pins
      <3>8. c # n
        BY <3>1, <3>7 DEF KernelMayForget
      <3>9. \A v \in Forgetting(c)' : v \in Forgetting(c) /\ req'[v] = req[v]
        BY <1>2, <1>4, <3>8 DEF Forgetting, Elsewhere
      <3> QED
        BY <3>5, <3>9, SameTreeFacts DEF KernelKnows
    <2> QED
      BY <2>1, <2>2
  <1> QED
    BY <1>3, <1>4, <1>5, <1>8, <1>9, StillStep

-----------------------------------------------------------------------------
(* Steps that change the tree.  Only the nodes of T move or change their    *)
(* name, and no path that is held visits one of them.                       *)
Spared(T) == \A m \in Nodes \ T : parent'[m] = parent[m] /\ name'[m] = name[m]

Apart(T) == \A h \in HeldPaths : Chain(HandleIno(h)) \cap T = {}

LEMMA HeldIno ==
  ASSUME TypeOK, RequestsOK, \A u \in Threads : ThreadOK(u), NEW h \in HeldPaths
  PROVE  /\ HandleIno(h) \in Nodes /\ Attached(HandleIno(h)) /\ nlookup[HandleIno(h)] > 0
         /\ h[1] \in Threads /\ h[2] \in {1, 2} /\ h = <<h[1], h[2]>> /\ hold[<<h[1], h[2]>>]
  <1>1. PICK u \in Threads, i \in {1, 2} : h = <<u, i>> /\ hold[<<u, i>>]
    BY DEF HeldPaths, Handles
  <1>2. HandleIno(h) = Ino(req[u], i)
    BY <1>1 DEF HandleIno
  <1>3. Ino(req[u], i) \in Nodes /\ Attached(Ino(req[u], i))
    BY <1>1, HeldInos DEF ThreadOK, HeldOK
  <1>4. nlookup[Ino(req[u], i)] > 0
    <2>1. Ino(req[u], i) \in {req[u].ino1, req[u].ino2} \ {NoNode}
      BY <1>3, NodeTreeAssumption DEF Ino
    <2> QED
      BY <2>1 DEF ThreadOK, InoOK
  <1> QED
    BY <1>1, <1>2, <1>3, <1>4

LEMMA SparedPaths ==
  ASSUME TypeOK, RequestsOK, Acyclic, TreeTypeOK', Acyclic', \A u \in Threads : ThreadOK(u),
         NEW T, Spared(T), Apart(T), NEW h \in HeldPaths, NEW x, x = HandleIno(h)
  PROVE  Walk'[x] = Walk[x] /\ \A m \in Walk[x] : name'[m] = name[m]
  <1>1. x \in Nodes
    BY HeldIno
  <1>2. ParentOK /\ ParentOK'
    BY DEF TypeOK, TreeTypeOK, ParentOK
  <1>3. \A m \in Chain(x) : m \in Nodes \ T
    BY <1>1, ChainFacts DEF Apart
  <1>4. \A m \in Chain(x) : parent'[m] = parent[m] /\ name'[m] = name[m]
    BY <1>3 DEF Spared
  <1>5. Chain(x)' = Chain(x)
    BY <1>1, <1>2, <1>4, ChainStays
  <1> QED
    BY <1>4, <1>5 DEF Chain

LEMMA AccountStays ==
  ASSUME TypeOK, RequestsOK, Acyclic, TreeTypeOK', Acyclic', LockInv,
         NEW T, Spared(T), Apart(T), UNCHANGED <<treelock, hold, wnode>>,
         \A h \in HeldPaths : req'[h[1]] = req[h[1]]
  PROVE  LockAccount'
  <1>1. HeldPaths' = HeldPaths
    BY DEF HeldPaths
  <1>2. \A h \in HeldPaths : HandleIno(h)' = HandleIno(h)
    BY DEF HandleIno, Ino
  <1>3. \A h \in HeldPaths : Walk'[HandleIno(h)] = Walk[HandleIno(h)]
    BY SparedPaths DEF LockInv
  <1>4. ASSUME NEW n \in Nodes
        PROVE  Fits(treelock[n], ReadersOf(HeldPaths, [h \in Handles |-> HandleIno(h)], n),
                    WritersOf(HeldPaths, wnode, n))'
    <2>1. ReadersOf(HeldPaths, [h \in Handles |-> HandleIno(h)], n)'
          = ReadersOf(HeldPaths, [h \in Handles |-> HandleIno(h)], n)
      <3>1. \A h \in HeldPaths : /\ [g \in Handles |-> HandleIno(g)'][h] = HandleIno(h)
                                 /\ [g \in Handles |-> HandleIno(g)][h] = HandleIno(h)
        BY <1>2 DEF HeldPaths
      <3> QED
        BY <1>1, <1>3, <3>1 DEF ReadersOf, Path, Chain
    <2>2. WritersOf(HeldPaths, wnode, n)' = WritersOf(HeldPaths, wnode, n)
      BY <1>1 DEF WritersOf
    <2> QED
      BY <2>1, <2>2 DEF LockInv, LockAccount, Counted, Fits
  <1> QED
    BY <1>4 DEF LockAccount, Counted

LEMMA HeldStays ==
  ASSUME TypeOK, RequestsOK, Acyclic, TreeTypeOK', Acyclic', LockInv,
         NEW T, Spared(T), Apart(T), NEW u \in Threads, NEW i \in {1, 2},
         UNCHANGED <<hold, path>>, hold[<<u, i>>] => req'[u] = req[u]
  PROVE  HeldOK(u, i)'
  <1> SUFFICES ASSUME hold[<<u, i>>]
               PROVE  HeldOK(u, i)'
    BY DEF HeldOK
  <1>1. PICK x : x = Ino(req[u], i) /\ x = Ino(req'[u], i)
    OBVIOUS
  <1>2. HeldOK(u, i)
    BY DEF LockInv, ThreadOK
  <1>3. <<u, i>> \in HeldPaths /\ HandleIno(<<u, i>>) = x
    BY <1>1 DEF HeldPaths, Handles, HandleIno
  <1>4. Walk'[x] = Walk[x] /\ \A m \in Walk[x] : name'[m] = name[m]
    BY <1>3, SparedPaths DEF LockInv
  <1>5. Attached(x) /\ path[<<u, i>>] = PathNames(x)
    BY <1>1, <1>2 DEF HeldOK
  <1>6. PathNames(x)' = PathNames(x) /\ Attached(x)'
    BY <1>4, <1>5 DEF PathNames, Path, Chain, Attached
  <1> QED
    BY <1>1, <1>5, <1>6 DEF HeldOK, Ino, Attached, Chain, PathNames, Path

(* The nodes a thread has write-locked: nobody else reads or writes them.   *)
Own(t) == {w \in Nodes \ {Root} : \E i \in {1, 2} : hold[<<t, i>>] /\ wnode[<<t, i>>] = w}

LEMMA OwnAlone ==
  ASSUME TypeOK, LockAccount, NEW h \in HeldPaths, wnode[h] \in Nodes
  PROVE  /\ treelock[wnode[h]] = TREELOCK_WRITE
         /\ \A g \in HeldPaths : wnode[h] \notin Path(HandleIno(g))
         /\ \A g \in HeldPaths : wnode[g] = wnode[h] => g = h
  <1> DEFINE R == ReadersOf(HeldPaths, [g \in Handles |-> HandleIno(g)], wnode[h])
             W == WritersOf(HeldPaths, wnode, wnode[h])
  <1>1. treelock[wnode[h]] \in Int /\ Fits(treelock[wnode[h]], R, W)
    BY DEF TypeOK, LockAccount, Counted
  <1>2. R \in SUBSET Handles /\ W \in SUBSET Handles /\ h \in W
    BY DEF ReadersOf, WritersOf, HeldPaths
  <1>3. treelock[wnode[h]] = TREELOCK_WRITE /\ R = {} /\ W = {h}
    <2> HIDE DEF R, W
    <2> QED
      BY <1>1, <1>2, WriterAlone
  <1> QED
    BY <1>3 DEF ReadersOf, WritersOf, HeldPaths

LEMMA OwnApart ==
  ASSUME TypeOK, RequestsOK, Acyclic, TreeOK, LockInv, NEW t \in Threads
  PROVE  Apart(Own(t) \cup Unused)
  <1> SUFFICES ASSUME NEW g \in HeldPaths, NEW m \in Chain(HandleIno(g)),
                      m \in Own(t) \cup Unused
               PROVE  FALSE
    BY DEF Apart
  <1>1. HandleIno(g) \in Nodes /\ nlookup[HandleIno(g)] > 0
    BY HeldIno DEF LockInv
  <1>2. m \notin Unused
    BY <1>1, UnusedFacts DEF TypeOK
  <1>3. PICK i \in {1, 2} : hold[<<t, i>>] /\ wnode[<<t, i>>] = m /\ m \in Nodes \ {Root}
    BY <1>2 DEF Own
  <1>4. <<t, i>> \in HeldPaths
    BY <1>3 DEF HeldPaths, Handles
  <1> QED
    BY <1>3, <1>4, OwnAlone DEF LockInv, Path

-----------------------------------------------------------------------------
(* What a handler does to the tree while it holds its paths.                *)
Moves(r) ==
  \/ r.op \in {"lookup", "create"} /\ FindNode(r.ino1, r.name1)
  \/ r.op = "unlink" /\ RemoveNode(r.ino1, r.name1)
  \/ r.op = "unlink" /\ HideNode(r.ino1, r.name1)
  \/ r.op = "link" /\ FindNode(r.ino2, r.name2)
  \/ r.op = "rename" /\ RenameNode(r.ino1, r.name1, r.ino2, r.name2)
  \/ r.op = "rename" /\ HideNode(r.ino2, r.name2)

LEMMA ActFacts ==
  ASSUME TreeInv, LockInv, NEW t \in Threads, Act(t) \/ Hide(t)
  PROVE  /\ UNCHANGED lockVars /\ req' = req /\ pc[t] = "locked" /\ Moves(req[t])
         /\ \/ pc' = [pc EXCEPT ![t] = "acted"]
            \/ pc' = pc /\ req[t].op = "rename" /\ HideNode(req[t].ino2, req[t].name2)
         /\ req[t].ino1 \in Nodes /\ nlookup[req[t].ino1] > 0
         /\ req[t].op \in {"lookup", "create", "unlink", "rename"} => req[t].name1 \in Names
         /\ req[t].op \in {"rename", "link"} =>
              req[t].ino2 \in Nodes /\ req[t].name2 \in Names /\ nlookup[req[t].ino2] > 0
         /\ hold[<<t, 1>>] /\ (req[t].ino2 \in Nodes => hold[<<t, 2>>])
         /\ t \in Unanswered /\ WellFormed(req[t])
  <1>1. /\ UNCHANGED lockVars /\ req' = req /\ pc[t] = "locked"
        /\ \/ pc' = [pc EXCEPT ![t] = "acted"]
           \/ pc' = pc /\ req[t].op = "rename" /\ HideNode(req[t].ino2, req[t].name2)
    <2>1. CASE Act(t)
      BY <2>1 DEF Act
    <2>2. CASE Hide(t)
      BY <2>2 DEF Hide
    <2> QED
      BY <2>1, <2>2
  <1>2. Moves(req[t])
    BY DEF Act, Hide, Moves
  <1>3. /\ WellFormed(req[t]) /\ t \in Unanswered /\ HasPaths(t)
        /\ req[t].ino1 \in Nodes
        /\ req[t].op \in {"lookup", "create", "unlink", "rename"} => req[t].name1 \in Names
        /\ req[t].op \in {"rename", "link"} => req[t].ino2 \in Nodes /\ req[t].name2 \in Names
    BY <1>1 DEF TreeInv, RequestsOK, WellFormed, NameOps, PathPairOps, Unanswered, HasPaths
  <1>4. \A n \in {req[t].ino1, req[t].ino2} \ {NoNode} : nlookup[n] > 0
    BY DEF LockInv, ThreadOK, InoOK
  <1>5. hold[<<t, 1>>] /\ (req[t].ino2 \in Nodes => hold[<<t, 2>>])
    BY <1>3, NodeTreeAssumption DEF LockInv, ThreadOK, StageOK, HasSecond
  <1> QED
    BY <1>1, <1>2, <1>3, <1>4, <1>5, NodeTreeAssumption

LEMMA ActStages ==
  ASSUME TreeInv, LockInv, NEW t \in Threads, Act(t) \/ Hide(t)
  PROVE  /\ pc[t] = "locked" /\ pc'[t] \in {"locked", "acted"}
         /\ pc'[t] = "locked" =>
              req[t].op = "rename" /\ HideNode(req[t].ino2, req[t].name2)
         /\ \A u \in Threads \ {t} : pc'[u] = pc[u]
  <1>1. /\ pc[t] = "locked"
        /\ \/ pc' = [pc EXCEPT ![t] = "acted"]
           \/ pc' = pc /\ req[t].op = "rename" /\ HideNode(req[t].ino2, req[t].name2)
    BY ActFacts
  <1>2. DOMAIN pc = Threads
    BY DEF TreeInv, TypeOK
  <1> QED
    BY <1>1, <1>2

LEMMA ActKeeps ==
  ASSUME TreeInv, LockInv, NEW t \in Threads, Act(t) \/ Hide(t)
  PROVE  /\ Keeps(Changes(req[t]))
         /\ req[t].op = "rename" /\ HideNode(req[t].ino2, req[t].name2) => Keeps({})
         /\ \/ Shortens
            \/ /\ req[t].op = "rename"
               /\ RenameNode(req[t].ino1, req[t].name1, req[t].ino2, req[t].name2)
  <1>0. PICK r : r = req[t]
    OBVIOUS
  <1>1. /\ Moves(r) /\ r.ino1 \in Nodes /\ nlookup[r.ino1] > 0
        /\ r.op \in {"lookup", "create", "unlink", "rename"} => r.name1 \in Names
        /\ r.op \in {"rename", "link"} =>
             r.ino2 \in Nodes /\ r.name2 \in Names /\ nlookup[r.ino2] > 0
        /\ TreeTypeOK /\ Acyclic /\ TreeOK
    BY <1>0, ActFacts DEF TreeInv, TypeOK
  <1>2. CASE r.op \in {"lookup", "create"} /\ FindNode(r.ino1, r.name1)
    <2>1. Keeps({r.ino1}) /\ Shortens
      BY <1>1, <1>2, FindNodeKeeps
    <2> QED
      BY <1>0, <1>2, <2>1 DEF Changes
  <1>3. CASE r.op = "unlink" /\ (RemoveNode(r.ino1, r.name1) \/ HideNode(r.ino1, r.name1))
    <2>1. Keeps({}) /\ Shortens
      BY <1>1, <1>3, RemoveNodeKeeps, HideNodeKeeps
    <2> QED
      BY <1>0, <1>3, <2>1 DEF Keeps
  <1>4. CASE r.op = "link" /\ FindNode(r.ino2, r.name2)
    <2>1. Keeps({r.ino2}) /\ Shortens
      BY <1>1, <1>4, FindNodeKeeps
    <2> QED
      BY <1>0, <1>4, <2>1 DEF Changes
  <1>5. CASE r.op = "rename" /\ HideNode(r.ino2, r.name2)
    <2>1. Keeps({}) /\ Shortens
      BY <1>1, <1>5, HideNodeKeeps
    <2> QED
      BY <1>0, <2>1 DEF Keeps
  <1>6. CASE r.op = "rename" /\ RenameNode(r.ino1, r.name1, r.ino2, r.name2)
    <2>1. Separated(r)
      BY <1>0, <1>6, ActFacts DEF TreeInv, RenamesOK
    <2>2. Keeps({r.ino2})
      BY <1>1, <1>6, <2>1, RenameNodeKeeps DEF Separated
    <2>3. Keeps({r.ino1, r.ino2})
      BY <2>2 DEF Keeps
    <2>4. Changes(r) = {r.ino1, r.ino2}
      BY <1>6 DEF Changes
    <2>5. r.op = "rename" /\ HideNode(r.ino2, r.name2) => Keeps({})
      BY <1>1, HideNodeKeeps
    <2> QED
      BY <1>0, <1>6, <2>3, <2>4, <2>5
  <1> QED
    BY <1>1, <1>2, <1>3, <1>4, <1>5, <1>6 DEF Moves

(* The node of an entry, when the handler acts on it, is the one its        *)
(* request has locked.                                                      *)
LEMMA OwnEntry ==
  ASSUME TreeInv, LockInv, NEW t \in Threads, pc[t] = "locked", req[t].op \in WriteOps,
         NEW i \in {1, 2}, hold[<<t, i>>], NEW c,
         c = LookupNode(Ino(req[t], i), Entry(req[t], i)), c # NoNode
  PROVE  c \in Own(t) /\ c \in Nodes /\ c = wnode[<<t, i>>] /\ parent[c] = Ino(req[t], i)
  <1>1. c = wnode[<<t, i>>]
    BY DEF LockInv, ThreadOK, EntryOK
  <1>2. c \in Nodes /\ parent[c] = Ino(req[t], i)
    BY LookupNodeType DEF IsChild
  <1>3. Ino(req[t], i) \in Nodes
    BY HeldInos DEF TreeInv, LockInv, ThreadOK
  <1>4. c # Root
    BY <1>2, <1>3, NodeTreeAssumption DEF TreeInv, TreeOK
  <1> QED
    BY <1>1, <1>2, <1>4 DEF Own

LEMMA ActTouches ==
  ASSUME TreeInv, LockInv, NEW t \in Threads, Act(t) \/ Hide(t)
  PROVE  /\ Spared(Own(t) \cup Unused)
         /\ req[t].op \in WriteOps => \A w \in Own(t) :
              \/ parent'[w] \in {parent[w], NoNode}
              \/ parent'[w] = req[t].ino2 /\ req[t].ino2 \in Nodes
  <1>0. PICK r : r = req[t]
    OBVIOUS
  <1>1. /\ Moves(r) /\ hold[<<t, 1>>] /\ (r.ino2 \in Nodes => hold[<<t, 2>>])
        /\ pc[t] = "locked"
        /\ r.op = "rename" => r.ino2 \in Nodes
        /\ DOMAIN parent = Nodes /\ DOMAIN name = Nodes /\ NoNode \notin Nodes
    BY <1>0, ActFacts, NodeTreeAssumption DEF TreeInv, TypeOK, TreeTypeOK
  <1>2. ASSUME NEW p, NEW nm, FindNode(p, nm)
        PROVE  Spared(Unused)
    <2>1. PICK c : /\ \/ c = LookupNode(p, nm) /\ c # NoNode
                      \/ c \in Unused
                   /\ parent' = [parent EXCEPT ![c] = p]
                   /\ name' = [name EXCEPT ![c] = nm]
      BY <1>2 DEF FindNode
    <2>2. c # NoNode /\ c = LookupNode(p, nm) => parent[c] = p /\ name[c] = nm
      BY LookupNodeType DEF IsChild
    <2> QED
      BY <1>1, <2>1, <2>2 DEF Spared
  <1>3. ASSUME r.op \in WriteOps
        PROVE  LookupNode(r.ino1, r.name1) # NoNode => LookupNode(r.ino1, r.name1) \in Own(t)
    <2>1. Ino(r, 1) = r.ino1 /\ Entry(r, 1) = r.name1
      BY DEF Ino, Entry
    <2> QED
      BY <1>0, <1>1, <1>3, <2>1, OwnEntry
  <1>4. ASSUME r.op = "rename"
        PROVE  LookupNode(r.ino2, r.name2) # NoNode => LookupNode(r.ino2, r.name2) \in Own(t)
    <2>1. Ino(r, 2) = r.ino2 /\ Entry(r, 2) = r.name2 /\ r.op \in WriteOps
      BY <1>4 DEF Ino, Entry, WriteOps
    <2> QED
      BY <1>0, <1>1, <1>4, <2>1, OwnEntry
  <1>5. Own(t) \in SUBSET Nodes
    BY DEF Own
  <1>6. CASE \/ r.op \in {"lookup", "create"} /\ FindNode(r.ino1, r.name1)
             \/ r.op = "link" /\ FindNode(r.ino2, r.name2)
    <2>1. Spared(Unused) /\ r.op \notin WriteOps
      BY <1>2, <1>6 DEF WriteOps
    <2> QED
      BY <1>0, <2>1 DEF Spared
  <1>7. CASE r.op = "unlink" /\ RemoveNode(r.ino1, r.name1)
    BY <1>0, <1>1, <1>3, <1>5, <1>7 DEF RemoveNode, Spared, WriteOps
  <1>8. CASE r.op = "unlink" /\ HideNode(r.ino1, r.name1)
    BY <1>0, <1>1, <1>3, <1>5, <1>8 DEF HideNode, Spared, WriteOps
  <1>9. CASE r.op = "rename" /\ HideNode(r.ino2, r.name2)
    BY <1>0, <1>1, <1>4, <1>5, <1>9 DEF HideNode, Spared
  <1>10. CASE r.op = "rename" /\ RenameNode(r.ino1, r.name1, r.ino2, r.name2)
    <2>1. PICK c, old :
            /\ c = LookupNode(r.ino1, r.name1)
            /\ old = IF c = NoNode THEN NoNode ELSE LookupNode(r.ino2, r.name2)
            /\ parent' = [m \in Nodes |-> CASE m = c -> r.ino2
                                            [] m = old /\ m # c -> NoNode
                                            [] OTHER -> parent[m]]
            /\ name' = [m \in Nodes |-> CASE m = c -> r.name2
                                          [] m = old /\ m # c -> NoName
                                          [] OTHER -> name[m]]
      BY <1>10 DEF RenameNode
    <2>2. /\ c \in Nodes => c \in Own(t)
          /\ old \in Nodes => old \in Own(t)
      BY <1>1, <1>3, <1>4, <1>10, <2>1 DEF WriteOps
    <2>3. \A m \in Nodes \ (Own(t) \cup Unused) : m # c /\ m # old
      BY <2>2
    <2>4. Spared(Own(t) \cup Unused)
      BY <2>1, <2>3 DEF Spared
    <2>5. \A m \in Nodes : parent'[m] \in {parent[m], NoNode, r.ino2}
      BY <2>1
    <2> QED
      BY <1>0, <1>1, <1>5, <1>10, <2>4, <2>5
  <1> QED
    BY <1>1, <1>6, <1>7, <1>8, <1>9, <1>10 DEF Moves

(* A path that is off the tree stays off it.                                *)
LEMMA DetachedStays ==
  ASSUME TreeInv, LockInv, NEW t \in Threads, Act(t) \/ Hide(t), NEW x \in Nodes,
         nlookup[x] > 0, ~Attached(x)
  PROVE  Root \notin Walk'[x]
  <1>1. CASE Shortens
    BY <1>1 DEF Shortens, Attached, Chain
  <1>2. CASE /\ req[t].op = "rename"
             /\ RenameNode(req[t].ino1, req[t].name1, req[t].ino2, req[t].name2)
    <2>1. PICK r : r = req[t]
      OBVIOUS
    <2>2. PICK c : /\ c = LookupNode(r.ino1, r.name1)
                   /\ \A m \in Nodes : /\ m = c => parent'[m] = r.ino2
                                       /\ m # c => parent'[m] \in {parent[m], NoNode}
      BY <1>2, <2>1 DEF RenameNode
    <2>3. /\ r.ino1 \in Nodes /\ r.ino2 \in Nodes /\ Attached(r.ino1)
      <3>1. Ino(req[t], 1) = r.ino1 /\ hold[<<t, 1>>]
        BY <2>1, ActFacts DEF Ino
      <3> QED
        BY <1>2, <2>1, <3>1, ActFacts DEF LockInv, ThreadOK, HeldOK
    <2>4. ParentOK /\ ParentOK' /\ Acyclic' /\ Acyclic /\ TypeOK
      BY ActKeeps DEF Keeps, TreeInv, TypeOK, TreeTypeOK, ParentOK
    <2>5. Chain(x)' \subseteq Chain(x)
      <3>1. CASE c = NoNode
        <4>1. OnlyCut
          BY <2>2, <3>1, NodeTreeAssumption DEF OnlyCut
        <4> QED
          BY <2>4, <4>1, CutShortens
      <3>2. CASE c # NoNode
        <4>1. c \in Nodes /\ parent[c] = r.ino1
          BY <2>2, <3>2, LookupNodeType DEF IsChild
        <4>2. Graft(c, r.ino2)
          BY <2>2 DEF Graft
        <4>3. Attached(c)
          BY <2>3, <2>4, <4>1, ChainFacts, NodeTreeAssumption DEF Attached
        <4>4. c \notin Chain(x)
          BY <2>4, <4>1, <4>3, ChainFacts DEF Attached
        <4> QED
          BY <2>3, <2>4, <4>1, <4>2, <4>4, GraftShortens
      <3> QED
        BY <3>1, <3>2
    <2> QED
      BY <2>5 DEF Attached, Chain
  <1> QED
    BY <1>1, <1>2, ActKeeps

LEMMA LookupStays ==
  ASSUME TreeOK, NEW p \in Nodes, NEW nm,
         \A c \in Nodes : parent'[c] = p /\ name'[c] = nm => IsChild(c, p, nm)
  PROVE  LookupNode(p, nm)' \in {LookupNode(p, nm), NoNode}
  <1> SUFFICES ASSUME LookupNode(p, nm)' # NoNode
               PROVE  LookupNode(p, nm)' = LookupNode(p, nm)
    OBVIOUS
  <1>1. PICK c \in Nodes : c = LookupNode(p, nm)' /\ parent'[c] = p /\ name'[c] = nm
    BY DEF LookupNode, IsChild
  <1>2. IsChild(c, p, nm)
    BY <1>1
  <1> QED
    BY <1>1, <1>2, OneNodePerEntry

LEMMA ActEntries ==
  ASSUME TreeInv, LockInv, NEW t \in Threads, Act(t) \/ Hide(t), NEW u \in Threads,
         pc'[u] \in {"waiting", "locked"}, req[u].op \in WriteOps, NEW i \in {1, 2},
         NEW p \in Nodes, p = Ino(req[u], i), NEW nm, nm = Entry(req[u], i)
  PROVE  /\ LookupNode(p, nm)' \in {LookupNode(p, nm), NoNode}
         /\ pc[u] \in {"waiting", "locked"} /\ WellFormed(req[u])
  <1>1. /\ pc[u] \in {"waiting", "locked"} /\ u \in Unanswered
        /\ u = t => req[t].op = "rename" /\ HideNode(req[t].ino2, req[t].name2)
    BY ActStages DEF Unanswered
  <1>2. WellFormed(req[u]) /\ nm \in Names
    <2>1. WellFormed(req[u])
      BY DEF TreeInv, RequestsOK
    <2> QED
      BY <2>1, WriteEntries
  <1>3. \A c \in Nodes : parent'[c] = p /\ name'[c] = nm => IsChild(c, p, nm)
    <2>1. CASE u = t
      BY <1>1, <1>2, <2>1, ActKeeps DEF Keeps
    <2>2. CASE u # t
      <3>1. p \in Changes(req[u])
        <4>1. req[u].op \in {"unlink", "rename"} /\ (req[u].op = "unlink" => p = req[u].ino1)
          BY <1>2, NodeTreeAssumption DEF WriteOps, WellFormed, PathPairOps, Ino
        <4> QED
          BY <4>1 DEF Changes, Ino
      <3>2. p \notin Changes(req[t])
        BY <1>1, <2>2, <3>1, ActFacts DEF TreeInv, DirsOK
      <3> QED
        BY <1>2, <3>2, ActKeeps DEF Keeps
    <2> QED
      BY <2>1, <2>2
  <1> QED
    BY <1>1, <1>2, <1>3, LookupStays DEF TreeInv

LEMMA EntryStays ==
  ASSUME NEW u, NEW i \in {1, 2}, EntryOK(u, i), UNCHANGED <<hold, wnode>>, req'[u] = req[u],
         pc'[u] \in {"waiting", "locked"} => pc[u] \in {"waiting", "locked"},
         hold[<<u, i>>] => Ino(req[u], i) \in Nodes,
         \A p \in Nodes : \A nm :
           /\ p = Ino(req[u], i) /\ nm = Entry(req[u], i) /\ req[u].op \in WriteOps
           /\ pc'[u] \in {"waiting", "locked"}
           => LookupNode(p, nm)' \in {LookupNode(p, nm), NoNode}
  PROVE  EntryOK(u, i)'
  <1> SUFFICES ASSUME hold[<<u, i>>], pc'[u] \in {"waiting", "locked"}, req[u].op \in WriteOps
               PROVE  EntryOK(u, i)'
    BY DEF EntryOK
  <1>1. PICK p, nm : p = Ino(req[u], i) /\ nm = Entry(req[u], i)
    OBVIOUS
  <1>2. LookupNode(p, nm)' \in {LookupNode(p, nm), NoNode}
    BY <1>1
  <1>3. LookupNode(p, nm) \in {wnode[<<u, i>>], NoNode}
    BY <1>1 DEF EntryOK
  <1>4. Ino(req'[u], i) = p /\ Entry(req'[u], i) = nm
    BY <1>1
  <1> QED
    BY <1>2, <1>3, <1>4 DEF EntryOK, Ino, Entry

LEMMA ActWriters ==
  ASSUME TreeInv, LockInv, NEW t \in Threads, Act(t) \/ Hide(t), NEW u \in Threads,
         NEW i \in {1, 2}
  PROVE  WriterOK(u, i)'
  <1> DEFINE w == wnode[<<u, i>>]
  <1> SUFFICES ASSUME hold[<<u, i>>], w # NoNode
               PROVE  WriterOK(u, i)'
    BY ActFacts DEF WriterOK, lockVars
  <1>1. /\ TypeOK /\ TreeTypeOK /\ Acyclic /\ TreeOK /\ LockAccount /\ RequestsOK
        /\ \A v \in Threads : ThreadOK(v)
    BY DEF TreeInv, LockInv, TypeOK
  <1>2. /\ hold' = hold /\ wnode' = wnode /\ req' = req
        /\ HasPaths(u) => HasPaths(u)'
        /\ u = t => HasPaths(u)'
    BY <1>1, ActFacts DEF lockVars, HasPaths, TypeOK
  <1>3. <<u, i>> \in HeldPaths /\ w \in Nodes
    BY <1>1 DEF HeldPaths, Handles, TypeOK
  <1>4. /\ req[u].op \in WriteOps /\ nlookup[w] > 0
        /\ \/ parent[w] \in {NoNode, Ino(req[u], i)}
           \/ HasPaths(u) /\ hold[<<u, 2>>] /\ parent[w] = req[u].ino2
    BY <1>1 DEF ThreadOK, WriterOK
  <1>5. nlookup'[w] > 0
    <2>1. nlookup'[w] >= nlookup[w] /\ nlookup'[w] \in Nat /\ nlookup[w] \in Nat
      BY <1>1, <1>3, ActKeeps DEF Keeps, TreeTypeOK
    <2> QED
      BY <1>4, <2>1
  <1>6. w \notin Unused
    <2>1. w \in Chain(w)
      BY <1>1, <1>3, ChainFacts
    <2> QED
      BY <1>1, <1>3, <1>4, <2>1, UnusedFacts
  <1>7. CASE w \notin Own(t)
    <2>1. parent'[w] = parent[w]
      BY <1>3, <1>6, <1>7, ActTouches DEF Spared
    <2> QED
      BY <1>2, <1>4, <1>5, <2>1 DEF WriterOK, Ino
  <1>8. CASE w \in Own(t)
    <2>1. u = t
      <3>1. PICK j \in {1, 2} : hold[<<t, j>>] /\ wnode[<<t, j>>] = w
        BY <1>8 DEF Own
      <3>2. <<t, j>> \in HeldPaths
        BY <3>1 DEF HeldPaths, Handles
      <3>3. <<t, j>> = <<u, i>>
        BY <1>1, <1>3, <3>1, <3>2, OwnAlone
      <3> QED
        BY <3>3
    <2>2. \/ parent'[w] \in {parent[w], NoNode}
          \/ parent'[w] = req[u].ino2 /\ hold[<<u, 2>>]
      BY <1>4, <1>8, <2>1, ActTouches, ActFacts
    <2> QED
      BY <1>2, <1>4, <1>5, <2>1, <2>2 DEF WriterOK, Ino
  <1> QED
    BY <1>7, <1>8

LEMMA ActLocks ==
  ASSUME TreeInv, TreeInv', LockInv, NEW t \in Threads, Act(t) \/ Hide(t)
  PROVE  LockInv'
  <1> DEFINE T == Own(t) \cup Unused
  <1>1. /\ TypeOK /\ TreeTypeOK /\ Acyclic /\ TreeOK /\ RequestsOK /\ TreeTypeOK' /\ Acyclic'
        /\ \A u \in Threads : ThreadOK(u)
    BY DEF TreeInv, TypeOK, LockInv
  <1>2. UNCHANGED <<treelock, hold, wnode, path, done, err>> /\ req' = req
    BY ActFacts DEF lockVars
  <1>3. Spared(T) /\ Apart(T)
    BY <1>1, ActTouches, OwnApart
  <1> HIDE DEF T
  <1>4. LockAccount'
    BY <1>1, <1>2, <1>3, AccountStays
  <1>5. \A n \in Nodes : nlookup'[n] >= nlookup[n] /\ nlookup'[n] \in Nat /\ nlookup[n] \in Nat
    BY <1>1, ActKeeps DEF Keeps, TreeTypeOK
  <1>6. /\ pc[t] = "locked" /\ pc'[t] \in {"locked", "acted"}
        /\ \A u \in Threads \ {t} : pc'[u] = pc[u]
    BY ActStages
  <1>7. VictimsOK'
    <2> SUFFICES ASSUME NEW u \in Threads, pc'[u] \in {"waiting", "locked"}
                 PROVE  EntriesKnown(req[u])'
      BY DEF VictimsOK
    <2>1. PICK q : q = req[u] /\ q = req'[u]
      BY <1>2
    <2> SUFFICES ASSUME NEW i \in {1, 2}, q.op \in WriteOps, Ino(q, i) \in Nodes,
                        NEW c, c = LookupNode(Ino(req[u], i), Entry(req[u], i))', c # NoNode
                 PROVE  KernelKnows(c)'
      BY <2>1 DEF EntriesKnown, Ino
    <2>2. PICK p, nm : p = Ino(q, i) /\ nm = Entry(q, i)
      OBVIOUS
    <2>3. c = LookupNode(p, nm)'
      BY <2>1, <2>2 DEF LookupNode, IsChild, Ino, Entry
    <2>4. c = LookupNode(p, nm) /\ pc[u] \in {"waiting", "locked"}
      BY <2>1, <2>2, <2>3, ActEntries
    <2>5. KernelKnows(c) /\ c \in Nodes
      BY <2>1, <2>2, <2>4, LookupNodeType DEF LockInv, VictimsOK, EntriesKnown
    <2>6. \A v \in Forgetting(c)' : v \in Forgetting(c) /\ req'[v] = req[v] /\ req[v].count \in Nat
      BY <1>1, <1>2, <1>6 DEF Forgetting, TypeOK, Request
    <2> QED
      BY <1>5, <2>5, <2>6 DEF KernelKnows
  <1>8. ASSUME NEW u \in Threads
        PROVE  ThreadOK(u)'
    <2>1. InoOK(u)'
      <3>1. \A n \in {req[u].ino1, req[u].ino2} \ {NoNode} : n \in Nodes /\ nlookup[n] > 0
        BY <1>1 DEF ThreadOK, InoOK, TypeOK, Request
      <3> QED
        BY <1>2, <1>5, <3>1 DEF InoOK
    <2>2. StageOK(u)'
      <3>1. StageOK(u)
        BY <1>1 DEF ThreadOK
      <3>2. CASE u = t
        BY <1>2, <1>6, <3>1, <3>2 DEF StageOK, HasPaths, HasSecond
      <3>3. CASE u # t
        <4>1. pc'[u] = pc[u]
          BY <1>6, <3>3
        <4>2. \A x \in Nodes : nlookup[x] > 0 /\ ~Attached(x) => Root \notin Walk'[x]
          BY DetachedStays
        <4>3. HasSecond(req[u]) /\ (~Attached(req[u].ino1) \/ ~Attached(req[u].ino2))
                /\ pc[u] = "waiting"
              => Root \notin Walk'[req[u].ino1] \/ Root \notin Walk'[req[u].ino2]
          <5> SUFFICES ASSUME HasSecond(req[u]), pc[u] = "waiting"
                       PROVE  /\ ~Attached(req[u].ino1) => Root \notin Walk'[req[u].ino1]
                              /\ ~Attached(req[u].ino2) => Root \notin Walk'[req[u].ino2]
            OBVIOUS
          <5>1. req[u].ino1 \in Nodes /\ req[u].ino2 \in Nodes
            BY <1>1 DEF RequestsOK, WellFormed, HasSecond, Request
          <5>2. nlookup[req[u].ino1] > 0 /\ nlookup[req[u].ino2] > 0
            BY <1>1, <5>1, NodeTreeAssumption DEF ThreadOK, InoOK
          <5> QED
            BY <4>2, <5>1, <5>2
        <4> QED
          BY <1>2, <3>1, <4>1, <4>3 DEF StageOK, HasPaths, HasSecond, Attached, Chain
      <3> QED
        BY <3>2, <3>3
    <2>3. ASSUME NEW i \in {1, 2}
          PROVE  HeldOK(u, i)' /\ WriterOK(u, i)' /\ EntryOK(u, i)'
      <3>1. HeldOK(u, i)'
        BY <1>1, <1>2, <1>3, HeldStays
      <3>2. WriterOK(u, i)'
        BY ActWriters
      <3>3. EntryOK(u, i)'
        <4>1. EntryOK(u, i) /\ (hold[<<u, i>>] => Ino(req[u], i) \in Nodes)
          BY <1>1, HeldInos DEF ThreadOK
        <4>2. pc'[u] \in {"waiting", "locked"} => pc[u] \in {"waiting", "locked"}
          BY <1>6
        <4>3. \A p \in Nodes : \A nm :
                /\ p = Ino(req[u], i) /\ nm = Entry(req[u], i) /\ req[u].op \in WriteOps
                /\ pc'[u] \in {"waiting", "locked"}
                => LookupNode(p, nm)' \in {LookupNode(p, nm), NoNode}
          BY ActEntries
        <4> QED
          BY <1>2, <4>1, <4>2, <4>3, EntryStays
      <3> QED
        BY <3>1, <3>2, <3>3
    <2> QED
      BY <2>1, <2>2, <2>3 DEF ThreadOK
  <1> QED
    BY <1>4, <1>7, <1>8 DEF LockInv

-----------------------------------------------------------------------------
(* What a forget does to the tree: it waits for the locks of the node, so   *)
(* that a node a path needs is not deleted with it.                         *)
Forgets(n, k) ==
  /\ n \in Nodes \ {Root} /\ k \in Nat /\ k <= nlookup[n]
  /\ DropLookups(n, k) /\ ~MustWait(n, k)

LEMMA DropFacts ==
  ASSUME TreeInv, NEW n, NEW k, Forgets(n, k)
  PROVE  /\ nlookup'[n] = nlookup[n] - k
         /\ \A m \in Nodes \ {n} : nlookup'[m] = nlookup[m]
         /\ \A m \in Nodes : nlookup'[m] \in Nat /\ nlookup[m] \in Nat
         /\ \A m \in Nodes : /\ m \notin Doomed(n, k) =>
                                  parent'[m] = parent[m] /\ name'[m] = name[m]
                             /\ parent'[m] \in {parent[m], NoNode}
         /\ \A nm : \A c, q \in Nodes : parent'[c] = q /\ name'[c] = nm => IsChild(c, q, nm)
         /\ \A m \in Nodes : Walk'[m] \subseteq Walk[m]
  <1>1. /\ n \in Nodes \ {Root} /\ k \in Nat /\ k <= nlookup[n] /\ DropLookups(n, k)
        /\ TreeTypeOK /\ Acyclic /\ TreeOK
    BY DEF Forgets, TreeInv, TypeOK
  <1>2. /\ TreeTypeOK' /\ nlookup' = [nlookup EXCEPT ![n] = @ - k]
        /\ \A nm : \A c, q \in Nodes : parent'[c] = q /\ name'[c] = nm => IsChild(c, q, nm)
        /\ \A m \in Nodes : Walk'[m] \subseteq Walk[m]
    BY <1>1, DropLookupsKeeps
  <1>3. \A m \in Nodes : /\ m \notin Doomed(n, k) =>
                              parent'[m] = parent[m] /\ name'[m] = name[m]
                         /\ parent'[m] \in {parent[m], NoNode}
    BY <1>1 DEF DropLookups
  <1> QED
    BY <1>1, <1>2, <1>3 DEF TreeTypeOK

LEMMA HeldKeepsLookup ==
  ASSUME TreeInv, LockInv, NEW n, NEW k, Forgets(n, k), NEW h \in HeldPaths
  PROVE  /\ nlookup'[HandleIno(h)] > 0
         /\ wnode[h] \in Nodes /\ nlookup[wnode[h]] > 0 => nlookup'[wnode[h]] > 0
  <1>1. /\ TypeOK /\ RequestsOK /\ LockAccount /\ Acyclic /\ \A u \in Threads : ThreadOK(u)
        /\ n \in Nodes \ {Root} /\ k \in Nat /\ k <= nlookup[n]
        /\ nlookup[n] = k => treelock[n] = 0
    BY DEF TreeInv, LockInv, Forgets, MustWait
  <1>2. HandleIno(h) \in Nodes /\ nlookup[HandleIno(h)] > 0
    BY <1>1, HeldIno
  <1>3. ASSUME NEW m \in Nodes, nlookup[m] > 0, m = n => treelock[m] # 0
        PROVE  nlookup'[m] > 0
    <2>1. CASE m # n
      BY <1>3, <2>1, DropFacts
    <2>2. CASE m = n
      BY <1>1, <1>3, <2>2, DropFacts
    <2> QED
      BY <2>1, <2>2
  <1>4. HandleIno(h) = n => treelock[n] # 0
    <2> SUFFICES ASSUME HandleIno(h) = n, treelock[n] = 0
                 PROVE  FALSE
      OBVIOUS
    <2>1. PICK R, W : /\ R = ReadersOf(HeldPaths, [g \in Handles |-> HandleIno(g)], n)
                      /\ W = WritersOf(HeldPaths, wnode, n)
      OBVIOUS
    <2>2. Fits(treelock[n], R, W) /\ treelock[n] \in Int
      BY <1>1, <2>1 DEF LockAccount, Counted, TypeOK
    <2>3. R \in SUBSET Handles /\ W \in SUBSET Handles
      BY <2>1 DEF ReadersOf, WritersOf, HeldPaths
    <2>4. R = {}
      BY <2>2, <2>3, InUse
    <2>5. n \in Path(n)
      BY <1>1, ChainFacts DEF Path
    <2>6. h \in R
      BY <2>1, <2>5 DEF ReadersOf, HeldPaths
    <2> QED
      BY <2>4, <2>6
  <1>5. wnode[h] \in Nodes => treelock[wnode[h]] # 0
    BY <1>1, OwnAlone DEF TREELOCK_WRITE
  <1> QED
    BY <1>2, <1>3, <1>4, <1>5

LEMMA DropSpares ==
  ASSUME TreeInv, LockInv, NEW n, NEW k, Forgets(n, k)
  PROVE  Spared(Doomed(n, k)) /\ Apart(Doomed(n, k))
  <1>1. Spared(Doomed(n, k))
    BY DropFacts DEF Spared
  <1>2. ASSUME NEW h \in HeldPaths, NEW m \in Chain(HandleIno(h)), m \in Doomed(n, k)
        PROVE  FALSE
    <2>1. HandleIno(h) \in Nodes /\ nlookup'[HandleIno(h)] > 0
      BY HeldKeepsLookup, HeldIno DEF TreeInv, LockInv
    <2>2. PICK after : after = [nlookup EXCEPT ![n] = @ - k] /\ ~AliveUnder(after, m)
      BY <1>2 DEF Doomed
    <2>3. nlookup' = after
      BY <2>2 DEF Forgets, DropLookups
    <2> QED
      BY <2>1, <2>2, <2>3 DEF AliveUnder
  <1> QED
    BY <1>1, <1>2 DEF Apart

LEMMA DropLocks ==
  ASSUME TreeInv, TreeInv', LockInv, NEW n, NEW k, Forgets(n, k),
         UNCHANGED <<treelock, hold, wnode, path, err>>,
         \A u \in Threads :
           \/ /\ pc'[u] = pc[u] /\ req'[u] = req[u] /\ done'[u] = done[u]
              /\ u \notin Forgetting(n)
           \/ /\ pc'[u] = "idle" /\ req'[u] = NoRequest
              /\ ~hold[<<u, 1>>] /\ ~hold[<<u, 2>>],
         KernelKnows(n) => nlookup[n] > k \/ \A u \in Unanswered : n \notin Pins(req[u])
  PROVE  LockInv'
  <1>1. /\ TypeOK /\ TreeTypeOK /\ Acyclic /\ TreeOK /\ RequestsOK /\ TreeTypeOK' /\ Acyclic'
        /\ LockAccount /\ \A u \in Threads : ThreadOK(u)
        /\ n \in Nodes \ {Root} /\ k \in Nat /\ k <= nlookup[n]
    BY DEF TreeInv, TypeOK, LockInv, Forgets
  <1>2. PICK T : Spared(T) /\ Apart(T)
    BY DropSpares
  <1>3. \A u \in Threads, i \in {1, 2} :
          hold[<<u, i>>] => req'[u] = req[u] /\ pc'[u] = pc[u]
    OBVIOUS
  <1>4. \A h \in HeldPaths : req'[h[1]] = req[h[1]]
    BY <1>1, <1>3, HeldIno
  <1>5. LockAccount'
    BY <1>1, <1>2, <1>4, AccountStays
  <1>6. \A p \in Nodes : \A nm : LookupNode(p, nm)' \in {LookupNode(p, nm), NoNode}
    BY <1>1, DropFacts, LookupStays
  <1>7. \A m : \A v \in Forgetting(m)' : v \in Forgetting(m) /\ req'[v] = req[v] /\ m # n
    BY DEF Forgetting
  <1>8. VictimsOK'
    <2> SUFFICES ASSUME NEW u \in Threads, pc'[u] \in {"waiting", "locked"}
                 PROVE  EntriesKnown(req[u])'
      BY DEF VictimsOK
    <2>1. PICK q : /\ q = req[u] /\ q = req'[u] /\ pc[u] \in {"waiting", "locked"}
                   /\ u \in Unanswered /\ WellFormed(q)
      BY <1>1 DEF Unanswered, RequestsOK
    <2> SUFFICES ASSUME NEW i \in {1, 2}, q.op \in WriteOps, Ino(q, i) \in Nodes,
                        NEW c, c = LookupNode(Ino(req[u], i), Entry(req[u], i))', c # NoNode
                 PROVE  KernelKnows(c)'
      BY <2>1 DEF EntriesKnown, Ino
    <2>2. PICK p, nm : p = Ino(q, i) /\ nm = Entry(q, i)
      OBVIOUS
    <2>3. c = LookupNode(p, nm)'
      BY <2>1, <2>2 DEF LookupNode, IsChild, Ino, Entry
    <2>4. c = LookupNode(p, nm)
      BY <1>6, <2>2, <2>3
    <2>5. KernelKnows(c) /\ c \in Nodes
      BY <2>1, <2>2, <2>4, LookupNodeType DEF LockInv, VictimsOK, EntriesKnown
    <2>6. CASE c # n
      BY <1>7, <2>5, <2>6, DropFacts DEF KernelKnows
    <2>7. CASE c = n
      <3>1. n \in Pins(q)
        <4>1. c = Victim(q, i) /\ q.op # "forget"
          BY <2>1, <2>2, <2>4, WriteEntries DEF Victim, WriteOps
        <4>2. i = 1 \/ i = 2
          OBVIOUS
        <4> QED
          BY <2>7, <4>1, <4>2 DEF Pins
      <3>2. nlookup[n] > k
        BY <2>1, <2>5, <2>7, <3>1
      <3>3. nlookup'[n] > 0
        BY <1>1, <3>2, DropFacts
      <3> QED
        BY <1>7, <2>7, <3>3 DEF KernelKnows
    <2> QED
      BY <2>6, <2>7
  <1>9. ASSUME NEW u \in Threads,
               pc'[u] = "idle" /\ req'[u] = NoRequest /\ ~hold[<<u, 1>>] /\ ~hold[<<u, 2>>]
        PROVE  ThreadOK(u)'
    <2>1. StageOK(u)
      BY <1>1 DEF ThreadOK
    <2>2. StageOK(u)'
      BY <1>9, <2>1 DEF StageOK, HasPaths
    <2> QED
      BY <1>9, <2>2, NothingToName, EmptyThread
  <1>10. ASSUME NEW u \in Threads,
                /\ pc'[u] = pc[u] /\ req'[u] = req[u] /\ done'[u] = done[u]
                /\ u \notin Forgetting(n)
         PROVE  ThreadOK(u)'
    <2>1. StageOK(u) /\ InoOK(u) /\ WellFormed(req[u]) /\ req[u] \in Request
      BY <1>1 DEF ThreadOK, RequestsOK, WellFormed
    <2>2. InoOK(u)'
      <3>1. CASE u \in Unanswered' /\ req[u].op # "forget"
        BY <1>10, <3>1, UnansweredInosNext
      <3>2. CASE req[u].op = "forget"
        <4>1. pc[u] = "waiting" /\ req[u].ino1 # n /\ req[u].ino2 = NoNode
              /\ req[u].ino1 \in Nodes
          BY <1>1, <1>10, <2>1, <3>2 DEF Forgetting, RequestsOK, WellFormed, PathPairOps
        <4> QED
          BY <1>10, <2>1, <4>1, DropFacts DEF InoOK
      <3>3. CASE pc[u] = "idle"
        BY <1>10, <2>1, <3>3, NothingToName DEF StageOK
      <3>4. CASE pc[u] = "replied"
        <4>1. hold[<<u, 1>>] /\ (hold[<<u, 2>>] <=> HasSecond(req[u]))
          BY <2>1, <3>4 DEF StageOK, HasPaths
        <4>2. \A i \in {1, 2} : hold[<<u, i>>] => nlookup'[Ino(req[u], i)] > 0
          <5> SUFFICES ASSUME NEW i \in {1, 2}, hold[<<u, i>>]
                       PROVE  nlookup'[Ino(req[u], i)] > 0
            OBVIOUS
          <5>1. <<u, i>> \in HeldPaths /\ HandleIno(<<u, i>>) = Ino(req[u], i)
            BY DEF HeldPaths, Handles, HandleIno
          <5> QED
            BY <5>1, HeldKeepsLookup
        <4>3. Ino(req[u], 1) = req[u].ino1 /\ Ino(req[u], 2) = req[u].ino2
          BY DEF Ino
        <4>4. nlookup'[req[u].ino1] > 0 /\ (req[u].ino2 # NoNode => nlookup'[req[u].ino2] > 0)
          BY <4>1, <4>2, <4>3 DEF HasSecond
        <4> QED
          BY <1>10, <4>4 DEF InoOK
      <3>5. pc[u] \in {"idle", "waiting", "locked", "acted", "replied"}
        BY <1>1 DEF TypeOK
      <3> QED
        BY <1>10, <3>1, <3>2, <3>3, <3>4, <3>5 DEF Unanswered
    <2>3. StageOK(u)'
      <3>1. HasSecond(req[u]) /\ (~Attached(req[u].ino1) \/ ~Attached(req[u].ino2))
              /\ pc[u] = "waiting"
            => Root \notin Walk'[req[u].ino1] \/ Root \notin Walk'[req[u].ino2]
        <4> SUFFICES ASSUME HasSecond(req[u]), pc[u] = "waiting"
                     PROVE  /\ ~Attached(req[u].ino1) => Root \notin Walk'[req[u].ino1]
                            /\ ~Attached(req[u].ino2) => Root \notin Walk'[req[u].ino2]
          OBVIOUS
        <4>1. req[u].ino1 \in Nodes /\ req[u].ino2 \in Nodes
          BY <1>1 DEF RequestsOK, WellFormed, HasSecond, Request
        <4> QED
          BY <4>1, DropFacts DEF Attached, Chain
      <3> QED
        BY <1>10, <2>1, <3>1 DEF StageOK, HasPaths, HasSecond, Attached, Chain
    <2>4. ASSUME NEW i \in {1, 2}
          PROVE  HeldOK(u, i)' /\ WriterOK(u, i)' /\ EntryOK(u, i)'
      <3>1. HeldOK(u, i)'
        BY <1>1, <1>2, <1>10, HeldStays
      <3>2. WriterOK(u, i)'
        <4> SUFFICES ASSUME hold[<<u, i>>], wnode[<<u, i>>] # NoNode
                     PROVE  WriterOK(u, i)'
          BY DEF WriterOK
        <4>1. <<u, i>> \in HeldPaths /\ wnode[<<u, i>>] \in Nodes /\ WriterOK(u, i)
          BY <1>1 DEF HeldPaths, Handles, TypeOK, ThreadOK
        <4>2. nlookup'[wnode[<<u, i>>]] > 0
          BY <4>1, HeldKeepsLookup DEF WriterOK
        <4>3. parent'[wnode[<<u, i>>]] \in {parent[wnode[<<u, i>>]], NoNode}
          BY <4>1, DropFacts
        <4> QED
          BY <1>10, <4>1, <4>2, <4>3 DEF WriterOK, HasPaths, Ino
      <3>3. EntryOK(u, i)'
        <4>1. EntryOK(u, i) /\ (hold[<<u, i>>] => Ino(req[u], i) \in Nodes)
          BY <1>1, HeldInos DEF ThreadOK
        <4> QED
          BY <1>6, <1>10, <4>1, EntryStays
      <3> QED
        BY <3>1, <3>2, <3>3
    <2> QED
      BY <2>2, <2>3, <2>4 DEF ThreadOK
  <1>11. \A u \in Threads : ThreadOK(u)'
    BY <1>9, <1>10
  <1> QED
    BY <1>5, <1>8, <1>11 DEF LockInv

(* A forget that finds its node free, or not deleted by it, or that waits.  *)
LEMMA ReceiveForgetLocks ==
  ASSUME TreeInv, TreeInv', LockInv, NEW t \in Threads, ReceiveForget(t)
  PROVE  LockInv'
  <1>1. PICK n \in Nodes : \E k \in 1..nlookup[n] :
          /\ KernelMayForget(n)
          /\ \/ /\ QueuePath(t, [NoRequest EXCEPT !.op = "forget", !.ino1 = n, !.count = k],
                             treelock)
                /\ UNCHANGED treeVars
             \/ /\ ~MustWait(n, k)
                /\ DropLookups(n, k)
                /\ UNCHANGED <<treelock, hold, wnode, path, done, err, pc, req>>
    BY DEF ReceiveForget
  <1>2. PICK k \in 1..nlookup[n] :
          /\ KernelMayForget(n)
          /\ \/ /\ QueuePath(t, [NoRequest EXCEPT !.op = "forget", !.ino1 = n, !.count = k],
                             treelock)
                /\ UNCHANGED treeVars
             \/ /\ ~MustWait(n, k)
                /\ DropLookups(n, k)
                /\ UNCHANGED <<treelock, hold, wnode, path, done, err, pc, req>>
    BY <1>1
  <1>3. pc[t] = "idle"
    BY DEF ReceiveForget
  <1>4. CASE /\ QueuePath(t, [NoRequest EXCEPT !.op = "forget", !.ino1 = n, !.count = k],
                          treelock)
             /\ UNCHANGED treeVars
    BY <1>2, <1>3, <1>4, QueueForgetLocks
  <1>5. CASE /\ ~MustWait(n, k) /\ DropLookups(n, k)
             /\ UNCHANGED <<treelock, hold, wnode, path, done, err, pc, req>>
    <2>1. /\ n # Root /\ Forgetting(n) = {} /\ \A u \in Unanswered : n \notin Pins(req[u])
          /\ nlookup[n] \in Nat
      BY <1>2 DEF KernelMayForget, TreeInv, TypeOK, TreeTypeOK
    <2>2. Forgets(n, k)
      BY <1>5, <2>1 DEF Forgets
    <2>3. \A u \in Threads : /\ pc'[u] = pc[u] /\ req'[u] = req[u] /\ done'[u] = done[u]
                             /\ u \notin Forgetting(n)
      BY <1>5, <2>1
    <2> QED
      BY <1>5, <2>1, <2>2, <2>3, DropLocks
  <1> QED
    BY <1>2, <1>4, <1>5

LEMMA ResumeForgetLocks ==
  ASSUME TreeInv, TreeInv', LockInv, NEW t \in Threads, ResumeForget(t)
  PROVE  LockInv'
  <1>1. PICK n, k : n = req[t].ino1 /\ k = req[t].count
    OBVIOUS
  <1>2. /\ pc[t] = "waiting" /\ req[t].op = "forget"
        /\ done' = [done EXCEPT ![t] = FALSE]
        /\ UNCHANGED <<treelock, hold, wnode, path, err>>
        /\ TypeOK /\ ThreadOK(t) /\ StageOK(t) /\ InoOK(t)
    BY DEF ResumeForget, TreeInv, LockInv, ThreadOK
  <1>3. /\ n \in Nodes \ {Root} /\ k \in Nat /\ k <= nlookup[n]
        /\ \A u \in Threads : req[u].op = "forget" /\ req[u].ino1 = n => u = t
    BY <1>1, <1>2 DEF TreeInv, TypeOK, Request, RequestsOK, WellFormed, ForgetsOK
  <1>4. ~hold[<<t, 1>>] /\ ~hold[<<t, 2>>]
    BY <1>2 DEF StageOK
  <1>5. CASE UNCHANGED <<treeVars, lockq, pc, req>>
    <2>1. Elsewhere(t) /\ done'[t] = FALSE
      BY <1>2, <1>5 DEF Elsewhere, TypeOK
    <2>2. StageOK(t)' /\ InoOK(t)'
      BY <1>2, <1>5, <2>1, SameTreeFacts DEF StageOK, InoOK, HasPaths
    <2>3. ThreadOK(t)'
      BY <1>2, <1>4, <2>2, EmptyThread
    <2>4. VictimsOK'
      BY <1>5, SameVictims
    <2> QED
      BY <1>2, <1>4, <1>5, <2>1, <2>3, <2>4, StillStep
  <1>6. CASE ~MustWait(n, k) /\ DropLookups(n, k) /\ Idle(t)
    <2>1. Forgets(n, k)
      BY <1>3, <1>6 DEF Forgets
    <2>2. ASSUME NEW u \in Threads
          PROVE  \/ /\ pc'[u] = pc[u] /\ req'[u] = req[u] /\ done'[u] = done[u]
                    /\ u \notin Forgetting(n)
                 \/ /\ pc'[u] = "idle" /\ req'[u] = NoRequest
                    /\ ~hold[<<u, 1>>] /\ ~hold[<<u, 2>>]
      <3>1. CASE u = t
        BY <1>2, <1>4, <1>6, <3>1 DEF Idle, TypeOK
      <3>2. CASE u # t
        BY <1>2, <1>3, <1>6, <3>2 DEF Idle, TypeOK, Forgetting
      <3> QED
        BY <3>1, <3>2
    <2>3. KernelKnows(n) => nlookup[n] > k
      BY <1>1, <1>2, <1>3 DEF KernelKnows, Forgetting
    <2> QED
      BY <1>2, <2>1, <2>2, <2>3, DropLocks
  <1> QED
    BY <1>1, <1>5, <1>6 DEF ResumeForget

-----------------------------------------------------------------------------
(* The whole.                                                               *)
LEMMA LockInvInit == Init => LockInv
  <1> SUFFICES ASSUME Init
               PROVE  LockInv
    OBVIOUS
  <1>1. TypeOK /\ RequestsOK
    BY TreeInvInit DEF TreeInv
  <1>2. /\ treelock = [n \in Nodes |-> 0]
        /\ pc = [t \in Threads |-> "idle"] /\ req = [t \in Threads |-> NoRequest]
        /\ hold = [h \in Handles |-> FALSE] /\ wnode = [h \in Handles |-> NoNode]
        /\ path = [h \in Handles |-> NoPath]
    BY DEF Init
  <1>3. HeldPaths = {}
    BY <1>2 DEF HeldPaths
  <1>4. LockAccount
    <2>1. ASSUME NEW n \in Nodes
          PROVE  Fits(treelock[n], ReadersOf(HeldPaths, [h \in Handles |-> HandleIno(h)], n),
                      WritersOf(HeldPaths, wnode, n))
      <3>1. /\ ReadersOf(HeldPaths, [h \in Handles |-> HandleIno(h)], n) = {}
            /\ WritersOf(HeldPaths, wnode, n) = {}
        BY <1>3 DEF ReadersOf, WritersOf
      <3> QED
        BY <1>2, <3>1, FS_EmptySet DEF Fits
    <2> QED
      BY <2>1 DEF LockAccount, Counted
  <1>5. VictimsOK
    BY <1>2 DEF VictimsOK
  <1>6. ASSUME NEW t \in Threads
        PROVE  ThreadOK(t)
    <2>1. /\ <<t, 1>> \in Handles /\ <<t, 2>> \in Handles
          /\ ~hold[<<t, 1>>] /\ ~hold[<<t, 2>>]
          /\ pc[t] = "idle" /\ req[t] = NoRequest
          /\ \A i \in {1, 2} : wnode[<<t, i>>] = NoNode /\ path[<<t, i>>] = NoPath
      BY <1>2 DEF Handles
    <2>2. InoOK(t)
      BY <2>1, NodeTreeAssumption DEF InoOK, NoRequest
    <2>3. StageOK(t)
      BY <2>1 DEF StageOK, HasPaths
    <2>4. \A i \in {1, 2} : HeldOK(t, i) /\ WriterOK(t, i) /\ EntryOK(t, i)
      BY <2>1 DEF HeldOK, WriterOK, EntryOK
    <2> QED
      BY <2>2, <2>3, <2>4 DEF ThreadOK
  <1> QED
    BY <1>4, <1>5, <1>6 DEF LockInv

LEMMA StutterLocks ==
  ASSUME TreeInv, LockInv, UNCHANGED vars
  PROVE  LockInv'
  <1>1. /\ UNCHANGED treeVars /\ UNCHANGED <<treelock, hold, wnode, path, done, err, pc, req>>
        /\ TypeOK
    BY DEF vars, lockVars, TreeInv
  <1>2. \A t \in Threads : Elsewhere(t) /\ ThreadOK(t)'
    BY <1>1, OtherThread DEF Elsewhere, LockInv
  <1>3. VictimsOK'
    BY <1>1, SameVictims
  <1>4. LockAccount'
    <2>1. HeldPaths' = HeldPaths /\ \A h : HandleIno(h)' = HandleIno(h)
      BY <1>1 DEF HeldPaths, HandleIno, Ino
    <2>2. \A m : Path(m)' = Path(m)
      BY <1>1, SameTreeFacts DEF Path, Chain
    <2> QED
      BY <1>1, <2>1, <2>2 DEF LockInv, LockAccount, Counted, ReadersOf, WritersOf, Fits
  <1> QED
    BY <1>2, <1>3, <1>4 DEF LockInv

LEMMA LockInvNext ==
  ASSUME Benign, TreeInv, TreeInv', LockInv, [Next]_vars
  PROVE  LockInv'
  <1>1. CASE WakeElement
    BY <1>1, WakeLocks
  <1>2. ASSUME NEW t \in Threads,
               ReceiveNode(t) \/ ReceiveEntry(t) \/ ReceiveRename(t) \/ ReceiveLink(t)
        PROVE  LockInv'
    <2>1. PICK r : WellFormed(r) /\ r.op \notin {"none", "forget"} /\ Receive(t, r)
      BY <1>2, AnyReceived
    <2> QED
      BY <2>1, ReceiveLocks
  <1>3. ASSUME NEW t \in Threads, ReceiveForget(t)
        PROVE  LockInv'
    BY <1>3, ReceiveForgetLocks
  <1>4. ASSUME NEW t \in Threads, Act(t) \/ Hide(t)
        PROVE  LockInv'
    BY <1>4, ActLocks
  <1>5. ASSUME NEW t \in Threads, Reply(t)
        PROVE  LockInv'
    BY <1>5, ReplyLocks
  <1>6. ASSUME NEW t \in Threads, FreePath(t)
        PROVE  LockInv'
    BY <1>6, FreeLocks
  <1>7. ASSUME NEW t \in Threads, Resume(t)
        PROVE  LockInv'
    BY <1>7, ResumeLocks
  <1>8. ASSUME NEW t \in Threads, ResumeForget(t)
        PROVE  LockInv'
    BY <1>8, ResumeForgetLocks
  <1>9. CASE UNCHANGED vars
    BY <1>9, StutterLocks
  <1> QED
    BY <1>1, <1>2, <1>3, <1>4, <1>5, <1>6, <1>7, <1>8, <1>9 DEF Next

(* The account of the locks, the nodes of the requests and the paths they   *)
(* hold stay in order for good, on top of a tree that stays a tree.         *)
THEOREM LockInvariant ==
  ASSUME Benign
  PROVE  Spec => [](TreeInv /\ LockInv)
  <1>1. Init => TreeInv /\ LockInv
    BY TreeInvInit, LockInvInit
  <1>2. TreeInv /\ LockInv /\ [Next]_vars => (TreeInv /\ LockInv)'
    BY TreeInvNext, LockInvNext
  <1> QED
    BY <1>1, <1>2, PTL DEF Spec

(* node->treelock is the number of paths that read the node, behind the     *)
(* offset of a waiting writer or not, or its one writer's mark: whatever    *)
(* the handlers do, no lock leaks, is released twice or along another path, *)
(* and no assert of unlock_path fails.                                      *)
THEOREM LocksAccounted ==
  ASSUME Benign
  PROVE  Spec => []LockAccounting
  <1>1. LockInv => LockAccounting
    <2> SUFFICES ASSUME LockInv, NEW n \in Nodes
                 PROVE  LET readers == Cardinality(Readers(n))
                        IN  \/ /\ treelock[n] = TREELOCK_WRITE /\ readers = 0
                               /\ Cardinality(Writers(n)) = 1
                            \/ treelock[n] = readers /\ Writers(n) = {}
                            \/ /\ treelock[n] = readers + WaitOffset /\ readers > 0
                               /\ Writers(n) = {}
      BY DEF LockAccounting
    <2>1. /\ Readers(n) = ReadersOf(HeldPaths, [h \in Handles |-> HandleIno(h)], n)
          /\ Writers(n) = WritersOf(HeldPaths, wnode, n)
      BY DEF Readers, Writers, ReadersOf, WritersOf, HeldPaths
    <2> QED
      BY <2>1 DEF LockInv, LockAccount, Counted, Fits
  <1> QED
    BY <1>1, LockInvariant, PTL

(* The string get_path handed to the file system names the same nodes until *)
(* free_path: no other handler renames, removes or deletes one of them.     *)
THEOREM HeldPathsStay ==
  ASSUME Benign
  PROVE  Spec => []PathsStay
  <1>1. LockInv => PathsStay
    <2> SUFFICES ASSUME LockInv, NEW h \in Handles, hold[h]
                 PROVE  Attached(HandleIno(h)) /\ path[h] = PathNames(HandleIno(h))
      BY DEF PathsStay
    <2>1. PICK t \in Threads, i \in {1, 2} : h = <<t, i>>
      BY DEF Handles
    <2>2. HandleIno(h) = Ino(req[t], i) /\ HeldOK(t, i)
      BY <2>1 DEF HandleIno, LockInv, ThreadOK
    <2> QED
      BY <2>1, <2>2 DEF HeldOK
  <1> QED
    BY <1>1, LockInvariant, PTL

(* get_node finds the nodes of a request until the request ends, also when  *)
(* it is answered before its path is given back and the kernel forgets them *)
(* in between.                                                              *)
THEOREM RequestsKeepNodes ==
  ASSUME Benign
  PROVE  Spec => []NodesOutliveRequests
  <1>1. TreeInv /\ LockInv => NodesOutliveRequests
    <2> SUFFICES ASSUME TreeInv, LockInv, NEW t \in Threads,
                        NEW n \in {req[t].ino1, req[t].ino2} \ {NoNode}
                 PROVE  Alive(n)
      BY DEF NodesOutliveRequests
    <2>1. n \in Nodes /\ TypeOK /\ Acyclic
      BY DEF TreeInv, TypeOK, Request
    <2>2. nlookup[n] > 0
      BY DEF LockInv, ThreadOK, InoOK
    <2>3. n \in Chain(n)
      BY <2>1, ChainFacts
    <2> QED
      BY <2>1, <2>2, <2>3 DEF Alive, AliveUnder
  <1> QED
    BY <1>1, LockInvariant, PTL

(* The assert of delete_node never fails: a node is only deleted while      *)
(* nobody reads or write-locks it.                                          *)
THEOREM DeletedUnlocked ==
  ASSUME Benign
  PROVE  Spec => []DeletedNodesUnlocked
  <1>1. TreeInv /\ LockInv => DeletedNodesUnlocked
    <2> SUFFICES ASSUME TreeInv, LockInv, NEW n \in Nodes, ~Alive(n)
                 PROVE  treelock[n] = 0
      BY DEF DeletedNodesUnlocked
    <2>1. /\ TypeOK /\ RequestsOK /\ Acyclic /\ LockAccount /\ \A u \in Threads : ThreadOK(u)
      BY DEF TreeInv, LockInv
    <2>2. PICK R, W : /\ R = ReadersOf(HeldPaths, [h \in Handles |-> HandleIno(h)], n)
                      /\ W = WritersOf(HeldPaths, wnode, n)
      OBVIOUS
    <2>3. /\ R \in SUBSET Handles /\ W \in SUBSET Handles
          /\ Fits(treelock[n], R, W) /\ treelock[n] \in Int
      BY <2>1, <2>2 DEF LockAccount, Counted, TypeOK, ReadersOf, WritersOf, HeldPaths
    <2>4. R = {}
      <3> SUFFICES ASSUME NEW h \in HeldPaths, n \in Path(HandleIno(h))
                   PROVE  FALSE
        BY <2>2 DEF ReadersOf, HeldPaths
      <3>1. HandleIno(h) \in Nodes /\ nlookup[HandleIno(h)] > 0
        BY <2>1, HeldIno
      <3> QED
        BY <3>1 DEF Alive, AliveUnder, Path
    <2>5. W = {}
      <3> SUFFICES ASSUME NEW h \in HeldPaths, wnode[h] = n
                   PROVE  FALSE
        BY <2>2 DEF WritersOf
      <3>1. PICK t \in Threads, i \in {1, 2} : h = <<t, i>> /\ hold[<<t, i>>]
        BY DEF HeldPaths, Handles
      <3>2. nlookup[n] > 0
        BY <2>1, <3>1, NodeTreeAssumption DEF ThreadOK, WriterOK
      <3>3. n \in Chain(n)
        BY <2>1, ChainFacts
      <3> QED
        BY <3>2, <3>3 DEF Alive, AliveUnder
    <2> QED
      BY <2>3, <2>4, <2>5, InUse
  <1> QED
    BY <1>1, LockInvariant, PTL

-----------------------------------------------------------------------------
(* The table of locks.  What a request has of it, it holds along its paths, *)
(* so that the account keeps the exclusive locks apart from all others.     *)
LEMMA TableIsHeld ==
  ASSUME TypeOK, Acyclic, RequestsOK, \A u \in Threads : ThreadOK(u), NEW t \in Threads
  PROVE  /\ SharedNodes[t] \in SUBSET Nodes /\ ExclusiveNodes[t] \in SUBSET Nodes
         /\ \A n \in SharedNodes[t] :
              \E h \in HeldPaths : h[1] = t /\ n \in Path(HandleIno(h))
         /\ \A n \in ExclusiveNodes[t] : \E h \in HeldPaths : h[1] = t /\ wnode[h] = n
  <1>1. ASSUME NEW i \in {1, 2}
        PROVE  /\ wnode[<<t, i>>] \in Nodes \cup {NoNode}
               /\ wnode[<<t, i>>] # NoNode =>
                    \E h \in HeldPaths : h[1] = t /\ wnode[h] = wnode[<<t, i>>]
               /\ DOMAIN path[<<t, i>>] \in SUBSET Nodes
               /\ \A n \in DOMAIN path[<<t, i>>] :
                    \E h \in HeldPaths : h[1] = t /\ n \in Path(HandleIno(h))
    <2>1. <<t, i>> \in Handles /\ wnode[<<t, i>>] \in Nodes \cup {NoNode}
          /\ StageOK(t) /\ HeldOK(t, i)
      BY DEF Handles, TypeOK, ThreadOK
    <2>2. CASE hold[<<t, i>>]
      <3>1. <<t, i>> \in HeldPaths /\ HandleIno(<<t, i>>) = Ino(req[t], i)
        BY <2>1, <2>2 DEF HeldPaths, HandleIno
      <3>2. Ino(req[t], i) \in Nodes
        BY <2>1, <2>2, HeldInos
      <3>3. DOMAIN path[<<t, i>>] = Path(Ino(req[t], i))
        BY <2>1, <2>2 DEF HeldOK, PathNames
      <3>4. Path(Ino(req[t], i)) \in SUBSET Nodes
        BY <3>2, ChainFacts DEF Path
      <3> QED
        BY <2>1, <3>1, <3>3, <3>4
    <2>3. CASE ~hold[<<t, i>>]
      <3>1. wnode[<<t, i>>] = NoNode /\ path[<<t, i>>] = NoPath
        BY <2>1, <2>3 DEF StageOK
      <3>2. DOMAIN path[<<t, i>>] = {}
        BY <3>1 DEF NoPath
      <3> QED
        BY <2>1, <3>1, <3>2
    <2> QED
      BY <2>2, <2>3
  <1>2. /\ SharedNodes[t] = IF HasPaths(t) THEN DOMAIN path[<<t, 1>>] \cup DOMAIN path[<<t, 2>>]
                            ELSE {}
        /\ ExclusiveNodes[t] = IF HasPaths(t) THEN {wnode[<<t, 1>>], wnode[<<t, 2>>]} \ {NoNode}
                               ELSE {}
    BY DEF SharedNodes, ExclusiveNodes
  <1> QED
    BY <1>1, <1>2

LEMMA TableIsApart ==
  ASSUME TypeOK, Acyclic, RequestsOK, LockAccount, \A u \in Threads : ThreadOK(u),
         NEW t \in Threads, NEW u \in Threads
  PROVE  /\ SharedNodes[t] \cap ExclusiveNodes[u] = {}
         /\ t # u => ExclusiveNodes[t] \cap ExclusiveNodes[u] = {}
  <1> SUFFICES ASSUME NEW n \in ExclusiveNodes[u]
               PROVE  n \notin SharedNodes[t] /\ (t # u => n \notin ExclusiveNodes[t])
    OBVIOUS
  <1>1. PICK g \in HeldPaths : g[1] = u /\ wnode[g] = n
    BY TableIsHeld
  <1>2. PICK R, W : /\ R = ReadersOf(HeldPaths, [h \in Handles |-> HandleIno(h)], n)
                    /\ W = WritersOf(HeldPaths, wnode, n)
    OBVIOUS
  <1>3. n \in Nodes /\ treelock[n] \in Int
    BY TableIsHeld DEF TypeOK
  <1>4. /\ R \in SUBSET Handles /\ W \in SUBSET Handles /\ g \in W /\ Fits(treelock[n], R, W)
    BY <1>1, <1>2, <1>3 DEF LockAccount, Counted, ReadersOf, WritersOf, HeldPaths
  <1>5. R = {} /\ W = {g}
    BY <1>3, <1>4, WriterAlone
  <1>6. ASSUME n \in SharedNodes[t]
        PROVE  FALSE
    <2>1. PICK h \in HeldPaths : n \in Path(HandleIno(h))
      BY <1>6, TableIsHeld
    <2>2. h \in R
      BY <1>2, <2>1 DEF ReadersOf, HeldPaths
    <2> QED
      BY <1>5, <2>2
  <1>7. ASSUME t # u, n \in ExclusiveNodes[t]
        PROVE  FALSE
    <2>1. PICK h \in HeldPaths : h[1] = t /\ wnode[h] = n
      BY <1>7, TableIsHeld
    <2>2. h \in W
      BY <1>2, <2>1 DEF WritersOf
    <2> QED
      BY <1>1, <1>5, <1>7, <2>1, <2>2
  <1> QED
    BY <1>6, <1>7

LocksApart ==
  \A t, u \in Threads :
    /\ SharedNodes[t] \in SUBSET Nodes /\ ExclusiveNodes[t] \in SUBSET Nodes
    /\ SharedNodes[t] \cap ExclusiveNodes[u] = {}
    /\ t # u => ExclusiveNodes[t] \cap ExclusiveNodes[u] = {}

LEMMA TableNext == TreeInv' /\ LockInv' => LocksApart'
  <1>1. TreeInv /\ LockInv => LocksApart
    BY TableIsHeld, TableIsApart DEF TreeInv, LockInv, LocksApart
  <1> QED
    BY <1>1, PTL

(* The table does not change for a thread that only works on its request.   *)
RowStays(u) ==
  /\ HasPaths(u)' <=> HasPaths(u)
  /\ HasPaths(u) => \A i \in {1, 2} : /\ path'[<<u, i>>] = path[<<u, i>>]
                                      /\ wnode'[<<u, i>>] = wnode[<<u, i>>]

LEMMA KeepsTable ==
  ASSUME NEW u \in Threads, RowStays(u)
  PROVE  SharedNodes'[u] = SharedNodes[u] /\ ExclusiveNodes'[u] = ExclusiveNodes[u]
  <1>1. CASE HasPaths(u)
    <2>1. /\ path'[<<u, 1>>] = path[<<u, 1>>] /\ path'[<<u, 2>>] = path[<<u, 2>>]
          /\ wnode'[<<u, 1>>] = wnode[<<u, 1>>] /\ wnode'[<<u, 2>>] = wnode[<<u, 2>>]
          /\ HasPaths(u)'
      BY <1>1 DEF RowStays
    <2> QED
      BY <1>1, <2>1 DEF SharedNodes, ExclusiveNodes
  <1>2. CASE ~HasPaths(u)
    BY <1>2 DEF RowStays, SharedNodes, ExclusiveNodes
  <1> QED
    BY <1>1, <1>2

(* What each step is to the table.                                          *)
LEMMA HandlesElsewhere ==
  ASSUME TypeOK, NEW t \in Threads, NEW o1, NEW o2, SetHandles(t, o1, o2)
  PROVE  \A u \in Threads \ {t}, i \in {1, 2} :
           path'[<<u, i>>] = path[<<u, i>>] /\ wnode'[<<u, i>>] = wnode[<<u, i>>]
  <1>1. \A u \in Threads \ {t}, i \in {1, 2} :
          <<u, i>> \in Handles /\ <<u, i>> # <<t, 1>> /\ <<u, i>> # <<t, 2>>
    BY DEF Handles
  <1> QED
    BY <1>1 DEF SetHandles, TypeOK

LEMMA WakeKeeps ==
  ASSUME TypeOK, RequestsOK, QueueOK, WakeElement, NEW u \in Threads
  PROVE  RowStays(u)
  <1>1. PICK t : t = lockq[scan] /\ t \in Threads /\ pc[t] = "waiting"
    BY ScanFacts DEF WakeElement, QueueOK
  <1>2. pc' = pc /\ (WakeForget(t) \/ WakePath(t))
    BY <1>1 DEF WakeElement
  <1>3. (\E o1, o2 : SetHandles(t, o1, o2)) \/ UNCHANGED <<wnode, path>>
    BY <1>2, Zenon
    DEF WakeForget, WakePath, GiveUp, KeepTrying, KeepPartial, KeepNothing
  <1>4. u # t => \A i \in {1, 2} : /\ path'[<<u, i>>] = path[<<u, i>>]
                                   /\ wnode'[<<u, i>>] = wnode[<<u, i>>]
    BY <1>1, <1>3, HandlesElsewhere
  <1> QED
    BY <1>1, <1>2, <1>4 DEF RowStays, HasPaths

LEMMA ReceiveKeeps ==
  ASSUME TypeOK, NEW t \in Threads, NEW r, Receive(t, r)
  PROVE  /\ ~HasPaths(t)
         /\ \A u \in Threads \ {t} : RowStays(u)
         /\ RowStays(t) \/ HasPaths(t)'
  <1>1. pc[t] = "idle" /\ (GetPath(t, r) \/ GetPath2(t, r))
    BY DEF Receive
  <1>2. \/ UNCHANGED <<wnode, path, pc>>
        \/ UNCHANGED <<wnode, path>> /\ pc' = [pc EXCEPT ![t] = "waiting"]
        \/ /\ \E o1, o2 : SetHandles(t, o1, o2)
           /\ pc' = [pc EXCEPT ![t] = "locked"]
    BY <1>1, Zenon DEF GetPath, GetPath2, Refuse, QueuePath, Grant
  <1>3. \A u \in Threads \ {t}, i \in {1, 2} :
          path'[<<u, i>>] = path[<<u, i>>] /\ wnode'[<<u, i>>] = wnode[<<u, i>>]
    BY <1>2, HandlesElsewhere
  <1>4. \A u \in Threads \ {t} : pc'[u] = pc[u]
    BY <1>2 DEF TypeOK
  <1>5. pc'[t] \in {"idle", "waiting", "locked"}
    BY <1>1, <1>2 DEF TypeOK
  <1> QED
    BY <1>1, <1>3, <1>4, <1>5 DEF RowStays, HasPaths

LEMMA ForgetKeeps ==
  ASSUME TypeOK, NEW t \in Threads, ReceiveForget(t) \/ ResumeForget(t), NEW u \in Threads
  PROVE  RowStays(u)
  <1>1. UNCHANGED <<wnode, path>> /\ pc[t] \in {"idle", "waiting"}
    BY DEF ReceiveForget, QueuePath, ResumeForget
  <1>2. \/ pc' = pc \/ pc' = [pc EXCEPT ![t] = "waiting"] \/ pc' = [pc EXCEPT ![t] = "idle"]
    BY Zenon DEF ReceiveForget, QueuePath, ResumeForget, Idle
  <1> QED
    BY <1>1, <1>2 DEF RowStays, HasPaths, TypeOK

LEMMA WorkKeeps ==
  ASSUME TypeOK, NEW t \in Threads, Act(t) \/ Hide(t) \/ Reply(t), NEW u \in Threads
  PROVE  RowStays(u)
  <1>1. UNCHANGED <<wnode, path>> /\ pc[t] \in {"locked", "acted"}
    BY DEF Act, Hide, Reply, lockVars
  <1>2. \/ pc' = pc \/ pc' = [pc EXCEPT ![t] = "acted"] \/ pc' = [pc EXCEPT ![t] = "replied"]
    BY Zenon DEF Act, Hide, Reply
  <1> QED
    BY <1>1, <1>2 DEF RowStays, HasPaths, TypeOK

LEMMA ResumeKeeps ==
  ASSUME TypeOK, NEW t \in Threads, Resume(t)
  PROVE  /\ ~HasPaths(t)
         /\ \A u \in Threads \ {t} : RowStays(u)
         /\ RowStays(t) \/ HasPaths(t)'
  <1>1. pc[t] = "waiting"
    BY DEF Resume
  <1>2. \/ UNCHANGED <<wnode, path>> /\ pc' = [pc EXCEPT ![t] = "locked"]
        \/ SetHandles(t, NotHeld, NotHeld) /\ pc' = [pc EXCEPT ![t] = "idle"]
    BY DEF Resume, Idle
  <1>3. \A u \in Threads \ {t}, i \in {1, 2} :
          path'[<<u, i>>] = path[<<u, i>>] /\ wnode'[<<u, i>>] = wnode[<<u, i>>]
    BY <1>2, HandlesElsewhere
  <1>4. /\ \A u \in Threads \ {t} : pc'[u] = pc[u]
        /\ pc'[t] \in {"locked", "idle"}
    BY <1>2 DEF TypeOK
  <1> QED
    BY <1>1, <1>3, <1>4 DEF RowStays, HasPaths

LEMMA FreeKeeps ==
  ASSUME TypeOK, NEW t \in Threads, FreePath(t)
  PROVE  /\ \A u \in Threads \ {t} : RowStays(u)
         /\ ~HasPaths(t)'
  <1>1. SetHandles(t, NotHeld, NotHeld) /\ pc' = [pc EXCEPT ![t] = "idle"]
    BY DEF FreePath, Idle
  <1>2. \A u \in Threads \ {t}, i \in {1, 2} :
          path'[<<u, i>>] = path[<<u, i>>] /\ wnode'[<<u, i>>] = wnode[<<u, i>>]
    BY <1>1, HandlesElsewhere
  <1>3. (\A u \in Threads \ {t} : pc'[u] = pc[u]) /\ pc'[t] = "idle"
    BY <1>1 DEF TypeOK
  <1> QED
    BY <1>2, <1>3 DEF RowStays, HasPaths

(* In one step a request takes all its locks, or gives all back, or no lock *)
(* of the table changes.                                                    *)
TakesOrGives(t) == ~HasPaths(t) \/ ~HasPaths(t)'

LEMMA TableStep ==
  ASSUME TreeInv, [Next]_vars
  PROVE  \/ \A u \in Threads : RowStays(u)
         \/ \E t \in Threads : /\ \A u \in Threads \ {t} : RowStays(u)
                              /\ TakesOrGives(t)
  <1>1. TypeOK /\ RequestsOK /\ QueueOK
    BY DEF TreeInv
  <1>2. CASE WakeElement
    BY <1>1, <1>2, WakeKeeps
  <1>3. ASSUME NEW t \in Threads,
               ReceiveNode(t) \/ ReceiveEntry(t) \/ ReceiveRename(t) \/ ReceiveLink(t)
        PROVE  (\A u \in Threads \ {t} : RowStays(u)) /\ ~HasPaths(t)
    BY <1>1, <1>3, AnyReceived, ReceiveKeeps
  <1>4. ASSUME NEW t \in Threads, ReceiveForget(t) \/ ResumeForget(t)
        PROVE  \A u \in Threads : RowStays(u)
    BY <1>1, <1>4, ForgetKeeps
  <1>5. ASSUME NEW t \in Threads, Act(t) \/ Hide(t) \/ Reply(t)
        PROVE  \A u \in Threads : RowStays(u)
    BY <1>1, <1>5, WorkKeeps
  <1>6. ASSUME NEW t \in Threads, FreePath(t)
        PROVE  (\A u \in Threads \ {t} : RowStays(u)) /\ ~HasPaths(t)'
    BY <1>1, <1>6, FreeKeeps
  <1>7. ASSUME NEW t \in Threads, Resume(t)
        PROVE  (\A u \in Threads \ {t} : RowStays(u)) /\ ~HasPaths(t)
    BY <1>1, <1>7, ResumeKeeps
  <1>8. CASE UNCHANGED vars
    BY <1>8 DEF vars, lockVars, RowStays, HasPaths
  <1> QED
    BY <1>2, <1>3, <1>4, <1>5, <1>6, <1>7, <1>8 DEF Next, TakesOrGives

LEMMA TableSteps ==
  ASSUME TreeInv, [Next]_vars, LocksApart'
  PROVE  [Locks!Next]_<<SharedNodes, ExclusiveNodes>>
  <1>1. /\ DOMAIN SharedNodes = Threads /\ DOMAIN ExclusiveNodes = Threads
        /\ DOMAIN SharedNodes' = Threads /\ DOMAIN ExclusiveNodes' = Threads
        /\ SharedNodes = [u \in Threads |-> SharedNodes[u]]
        /\ ExclusiveNodes = [u \in Threads |-> ExclusiveNodes[u]]
        /\ SharedNodes' = [u \in Threads |-> SharedNodes'[u]]
        /\ ExclusiveNodes' = [u \in Threads |-> ExclusiveNodes'[u]]
    BY DEF SharedNodes, ExclusiveNodes
  <1>2. CASE \A u \in Threads : RowStays(u)
    <2>1. \A u \in Threads : /\ SharedNodes'[u] = SharedNodes[u]
                             /\ ExclusiveNodes'[u] = ExclusiveNodes[u]
      BY <1>2, KeepsTable
    <2>2. SharedNodes' = SharedNodes /\ ExclusiveNodes' = ExclusiveNodes
      BY <1>1, <2>1
    <2> QED
      BY <2>2
  <1>3. ASSUME NEW t \in Threads, \A u \in Threads \ {t} : RowStays(u),
               TakesOrGives(t)
        PROVE  Locks!Next
    <2>1. PICK S, X : S = SharedNodes'[t] /\ X = ExclusiveNodes'[t]
      OBVIOUS
    <2>2. \A u \in Threads \ {t} : /\ SharedNodes'[u] = SharedNodes[u]
                                   /\ ExclusiveNodes'[u] = ExclusiveNodes[u]
      BY <1>3, KeepsTable
    <2>3. /\ SharedNodes' = [SharedNodes EXCEPT ![t] = S]
          /\ ExclusiveNodes' = [ExclusiveNodes EXCEPT ![t] = X]
      BY <1>1, <2>1, <2>2
    <2>4. CASE ~HasPaths(t)'
      <3>1. S = {} /\ X = {}
        BY <2>1, <2>4 DEF SharedNodes, ExclusiveNodes
      <3> QED
        BY <2>3, <3>1 DEF Locks!Next, Locks!Release
    <2>5. CASE ~HasPaths(t)
      <3>1. SharedNodes[t] = {} /\ ExclusiveNodes[t] = {}
        BY <2>5 DEF SharedNodes, ExclusiveNodes
      <3>2. /\ S \in SUBSET Nodes /\ X \in SUBSET Nodes /\ S \cap X = {}
            /\ \A u \in Threads \ {t} : /\ S \cap ExclusiveNodes'[u] = {}
                                        /\ X \cap SharedNodes'[u] = {}
                                        /\ X \cap ExclusiveNodes'[u] = {}
        BY <2>1 DEF LocksApart
      <3>3. Locks!Compatible(t, S, X)
        BY <2>2, <3>2 DEF Locks!Compatible
      <3>4. Locks!Acquire(t)
        BY <2>3, <3>1, <3>2, <3>3 DEF Locks!Acquire
      <3> QED
        BY <3>4 DEF Locks!Next
    <2> QED
      BY <1>3, <2>4, <2>5 DEF TakesOrGives
  <1> QED
    BY <1>2, <1>3, TableStep

LEMMA TableInit == Init => Locks!Init
  BY DEF Init, Locks!Init, SharedNodes, ExclusiveNodes, HasPaths

(* The counters of node->treelock, the queue and its wake-ups implement the *)
(* table of shared and exclusive locks: a request has all its paths at once *)
(* or none, and never against the lock of another.                          *)
THEOREM LocksLikeATable ==
  ASSUME Benign
  PROVE  Spec => ImplementsLockTable
  <1>1. Init => Locks!Init
    BY TableInit
  <1>2. TreeInv /\ (TreeInv /\ LockInv)' /\ [Next]_vars
          => [Locks!Next]_<<SharedNodes, ExclusiveNodes>>
    BY TableNext, TableSteps
  <1> QED
    BY <1>1, <1>2, LockInvariant, PTL DEF Spec, ImplementsLockTable, Locks!Spec

-----------------------------------------------------------------------------
(* No wake-up is lost: what a pass over the queue leaves asleep could not   *)
(* lock its paths, and no other step opens one of them without a new pass.  *)

(* The node a path wants for itself, and a path that cannot be locked as    *)
(* the counts tl are.                                                       *)
Wanted(r, i) == IF r.op \in WriteOps THEN LookupNode(Ino(r, i), Entry(r, i)) ELSE NoNode
Shut(tl, r, i) == Busy(tl, Wanted(r, i)) \/ Blocked(tl, Ino(r, i))

(* What tl locks, tk locks, and what it keeps readers off, tk does.         *)
Tighter(tl, tk) ==
  \A m \in Nodes : /\ tl[m] # 0 => tk[m] # 0
                   /\ tl[m] < 0 => tk[m] < 0

(* The table is the account of some set of paths.                           *)
Accounted(tl) == \E H \in SUBSET Handles : \E ino, wn : Counted(tl, H, ino, wn)

LEMMA BalanceAccounts ==
  ASSUME NEW t \in Threads, NEW r, NEW tl, NEW o1, NEW o2, Balance(t, r, tl, o1, o2)
  PROVE  Accounted(tl)
  BY KeptFacts DEF Balance, Accounted

(* Tightening a table twice tightens it.                                    *)
LEMMA TighterTwice ==
  ASSUME NEW tl, NEW tk, NEW tm, Tighter(tl, tk), Tighter(tk, tm)
  PROVE  Tighter(tl, tm)
  BY DEF Tighter

(* A path that is shut stays shut while the table is tightened.             *)
LEMMA TighterShuts ==
  ASSUME TypeOK, Acyclic, NEW tl, NEW tk, Tighter(tl, tk), NEW r, NEW i, Ino(r, i) \in Nodes,
         Shut(tl, r, i)
  PROVE  Shut(tk, r, i)
  <1>1. Wanted(r, i) \in Nodes \cup {NoNode}
    BY LookupNodeType DEF Wanted
  <1>2. Path(Ino(r, i)) \in SUBSET Nodes
    BY ChainFacts DEF Path
  <1> HIDE DEF Wanted
  <1> QED
    BY <1>1, <1>2 DEF Shut, Busy, Blocked, Tighter

(* The offset of a waiting writer is below the mark of a writer.            *)
LEMMA OffsetBelow == WaitOffset \in Int /\ WaitOffset < -1
  <1>1. {} \in SUBSET Handles /\ Cardinality({}) = 0
    BY FS_EmptySet
  <1> QED
    BY <1>1, FewHandles, PathLockAssumption DEF TREELOCK_WRITE

(* A writer that announces itself only shuts readers out.                   *)
LEMMA AnnounceTightens ==
  ASSUME NEW tl, TableOK(tl), NEW w \in Nodes \cup {NoNode}, Accounted(tl)
  PROVE  Tighter(tl, Announce(tl, w))
  <1> SUFFICES ASSUME NEW n \in Nodes
               PROVE  /\ tl[n] # 0 => Announce(tl, w)[n] # 0
                      /\ tl[n] < 0 => Announce(tl, w)[n] < 0
    BY DEF Tighter
  <1>1. PICK H \in SUBSET Handles : \E ino, wn : Counted(tl, H, ino, wn)
    BY DEF Accounted
  <1>2. PICK R, W : tl[n] \in Int /\ Fits(tl[n], R, W) /\ R \in SUBSET Handles
    <2>1. PICK ino, wn : Counted(tl, H, ino, wn)
      BY <1>1
    <2>2. PICK R, W : R = ReadersOf(H, ino, n) /\ W = WritersOf(H, wn, n)
      OBVIOUS
    <2>3. tl[n] \in Int /\ Fits(tl[n], R, W) /\ R \in SUBSET Handles
      BY <2>1, <2>2 DEF TableOK, Counted, ReadersOf
    <2> QED
      BY <2>3
  <1>3. Announce(tl, w)[n] = IF n = w /\ tl[n] > 0 THEN tl[n] + WaitOffset ELSE tl[n]
    BY DEF Announce, TableOK
  <1>4. Cardinality(R) \in Nat /\ Cardinality(R) + WaitOffset < -1
    BY <1>2, FewHandles DEF TREELOCK_WRITE
  <1>5. tl[n] > 0 => tl[n] + WaitOffset < 0
    BY <1>2, <1>4, OffsetBelow DEF Fits, TREELOCK_WRITE
  <1> QED
    BY <1>2, <1>3, <1>5, OffsetBelow

(* A path that has just been locked only adds locks, and giving it back     *)
(* leaves no trace.                                                         *)
LEMMA LockTightens ==
  ASSUME TypeOK, Acyclic, NEW tl, TableOK(tl), NEW r, NEW i, Ino(r, i) \in Nodes,
         NEW o, Got(tl, r, i, o), o.err = "ok"
  PROVE  /\ Tighter(tl, o.tl)
         /\ Undo(o.tl, r, i, o) = tl
  <1>1. PICK n \in Nodes : n = Ino(r, i)
    OBVIOUS
  <1>2. PICK w : w = o.w
    OBVIOUS
  <1>3. /\ o.tl = LockPath(tl, n, w) /\ w \notin Path(n)
        /\ w \in Nodes => tl[w] = 0
        /\ \A m \in Nodes : m \in Path(n) => tl[m] >= 0
    BY <1>1, <1>2 DEF Got
  <1>4. ASSUME NEW m \in Nodes
        PROVE  /\ m = w => o.tl[m] = -1
               /\ m # w /\ m \in Path(n) => o.tl[m] = tl[m] + 1
               /\ m # w /\ m \notin Path(n) => o.tl[m] = tl[m]
    BY <1>3 DEF LockPath, TREELOCK_WRITE
  <1>5. Tighter(tl, o.tl)
    BY <1>3, <1>4 DEF Tighter, TableOK
  <1>6. Undo(o.tl, r, i, o) = UnlockPath(o.tl, n, w)
    BY <1>1, <1>2 DEF Undo
  <1>7. ASSUME NEW m \in Nodes
        PROVE  UnlockPath(o.tl, n, w)[m] = tl[m]
    BY <1>3, <1>4, OffsetBelow DEF UnlockPath, Dec, TableOK
  <1>8. UnlockPath(o.tl, n, w) = tl
    BY <1>7 DEF UnlockPath, TableOK
  <1> QED
    BY <1>5, <1>6, <1>8

(* try_get_path, whether it succeeds or not, frees no node; a failure with  *)
(* EAGAIN found the path shut.                                              *)
LEMMA TryTightens ==
  ASSUME TypeOK, Acyclic, TreeOK, NEW tl, TableOK(tl), NEW r, NEW i, Ino(r, i) \in Nodes,
         NEW o \in TryPath(tl, r, i), Accounted(tl)
  PROVE  /\ Tighter(tl, o.tl)
         /\ o.err = "EAGAIN" => Shut(tl, r, i)
         /\ o.err = "ok" => Got(tl, r, i, o) /\ Undo(o.tl, r, i, o) = tl
         /\ o.err # "ok" => \/ o.tl = tl
                            \/ Wanted(r, i) \in Nodes /\ o.tl = Announce(tl, Wanted(r, i))
  <1> DEFINE w == Wanted(r, i)
  <1>1. w \in Nodes \cup {NoNode}
    BY LookupNodeType DEF Wanted
  <1>2. \/ o = Failure("EAGAIN", Announce(tl, w)) /\ Busy(tl, w)
        \/ o = Failure("EAGAIN", tl) /\ Blocked(tl, Ino(r, i))
        \/ o = Failure("ENOENT", tl) \/ o = Failure("ENOMEM", tl)
        \/ o.err = "ok"
    BY DEF TryPath, TryGetPath, Wanted
  <1> HIDE DEF w
  <1>3. CASE o.err = "ok"
    BY <1>3, TryPathEnds, LockTightens
  <1>4. CASE o.err # "ok"
    <2>1. Tighter(tl, tl) /\ Tighter(tl, Announce(tl, w))
      BY <1>1, AnnounceTightens DEF Tighter
    <2>2. Busy(tl, w) => w \in Nodes
      BY <1>1 DEF Busy
    <2>3. o.tl = tl \/ (w \in Nodes /\ o.tl = Announce(tl, w))
      BY <1>2, <1>4, <2>2 DEF Failure
    <2>4. o.err = "EAGAIN" => Busy(tl, w) \/ Blocked(tl, Ino(r, i))
      BY <1>2 DEF Failure
    <2> QED
      BY <1>4, <2>1, <2>3, <2>4 DEF w, Shut
  <1> QED
    BY <1>3, <1>4

(* The two paths of a request do not stand in each other's way.             *)
NoOwnObstacle(r) ==
  LET w1 == Wanted(r, 1)
      w2 == Wanted(r, 2)
  IN  /\ w1 \in Nodes => w1 \notin Chain(Ino(r, 2))
      /\ w2 \in Nodes => w2 \notin Chain(Ino(r, 1)) /\ w2 # w1

EntriesDiffer(r) == r.op = "rename" => r.ino1 # r.ino2 \/ r.name1 # r.name2

(* The two paths of a request do not stand in each other's way.             *)
LEMMA PathsApart ==
  ASSUME NEW r, WellFormed(r), HasSecond(r), r.op = "rename" => Separated(r), EntriesDiffer(r)
  PROVE  NoOwnObstacle(r)
  <1>1. CASE r.op \notin WriteOps
    BY <1>1, NodeTreeAssumption DEF NoOwnObstacle, Wanted
  <1>2. CASE r.op \in WriteOps
    <2>1. r.op = "rename" /\ r.ino1 \in Nodes /\ r.ino2 \in Nodes
      BY <1>2 DEF WellFormed, HasSecond, WriteOps, PathPairOps
    <2>2. PICK w1, w2 : w1 = Wanted(r, 1) /\ w2 = Wanted(r, 2)
      OBVIOUS
    <2>3. /\ Ino(r, 1) = r.ino1 /\ Entry(r, 1) = r.name1
          /\ Ino(r, 2) = r.ino2 /\ Entry(r, 2) = r.name2
      BY DEF Ino, Entry
    <2>4. w1 = LookupNode(r.ino1, r.name1) /\ w2 = LookupNode(r.ino2, r.name2)
      BY <1>2, <2>2, <2>3 DEF Wanted
    <2>5. /\ w1 \in Nodes => IsChild(w1, r.ino1, r.name1)
          /\ w2 \in Nodes => IsChild(w2, r.ino2, r.name2)
      BY <2>4, LookupNodeType
    <2>6. /\ w1 \in Nodes => w1 \notin Chain(r.ino2)
          /\ w2 \in Nodes => w2 \notin Chain(r.ino1)
      BY <2>1, <2>5 DEF Separated
    <2>7. w2 \in Nodes => w2 # w1
      BY <2>1, <2>5 DEF IsChild, EntriesDiffer
    <2> QED
      BY <2>2, <2>3, <2>6, <2>7 DEF NoOwnObstacle
  <1> QED
    BY <1>1, <1>2

(* A second path that fails once the first is locked would have failed      *)
(* without it, and leaves at most the mark of a waiting writer behind.      *)
LEMMA SecondTightens ==
  ASSUME TypeOK, Acyclic, TreeOK, NEW tl, TableOK(tl), NEW r,
         Ino(r, 1) \in Nodes, Ino(r, 2) \in Nodes, NoOwnObstacle(r),
         NEW o1 \in TryPath(tl, r, 1), o1.err = "ok", TableOK(o1.tl),
         NEW o2 \in TryPath(o1.tl, r, 2), o2.err # "ok",
         Accounted(tl), Accounted(o1.tl)
  PROVE  /\ Tighter(tl, Undo(o2.tl, r, 1, o1))
         /\ o2.err = "EAGAIN" => Shut(tl, r, 2)
  <1>1. PICK n, w1, w2 : n = Ino(r, 1) /\ w1 = Wanted(r, 1) /\ w2 = Wanted(r, 2)
    OBVIOUS
  <1>2. /\ w1 \in Nodes \cup {NoNode} /\ w2 \in Nodes \cup {NoNode} /\ NoNode \notin Nodes
        /\ Path(Ino(r, 2)) \in SUBSET Nodes
    BY <1>1, LookupNodeType, NodeTreeAssumption, ChainFacts DEF Wanted, Path
  <1>3. /\ w1 \in Nodes => w1 \notin Path(Ino(r, 2))
        /\ w2 \in Nodes => w2 \notin Path(n) /\ w2 # w1
    BY <1>1 DEF NoOwnObstacle, Path
  <1>4. Got(tl, r, 1, o1) /\ Undo(o1.tl, r, 1, o1) = tl
    BY TryTightens
  <1>5. /\ o1.w = w1 /\ o1.tl = LockPath(tl, n, w1)
        /\ \A m \in Nodes : m \in Path(n) => tl[m] >= 0
    BY <1>1, <1>4 DEF Got, Wanted
  <1>6. ASSUME NEW m \in Nodes
        PROVE  /\ m # w1 /\ m \in Path(n) => o1.tl[m] = tl[m] + 1
               /\ m # w1 /\ m \notin Path(n) => o1.tl[m] = tl[m]
               /\ tl[m] \in Int /\ o1.tl[m] \in Int
    BY <1>5 DEF LockPath, TableOK
  <1>7. \/ o2.tl = o1.tl
        \/ w2 \in Nodes /\ o2.tl = Announce(o1.tl, w2)
    BY <1>1, TryTightens
  <1>8. Tighter(tl, Undo(o2.tl, r, 1, o1))
    <2>1. CASE o2.tl = o1.tl
      BY <1>4, <2>1 DEF Tighter
    <2>2. CASE w2 \in Nodes /\ o2.tl = Announce(o1.tl, w2)
      <3>1. ASSUME NEW m \in Nodes
            PROVE  /\ m = w2 => o2.tl[m] = Announce(tl, w2)[m] /\ m # w1 /\ m \notin Path(n)
                   /\ m # w2 => o2.tl[m] = o1.tl[m] /\ Announce(tl, w2)[m] = tl[m]
        BY <1>3, <1>6, <2>2 DEF Announce, TableOK
      <3>2. Undo(o2.tl, r, 1, o1) = UnlockPath(o2.tl, n, w1) /\ UnlockPath(o1.tl, n, w1) = tl
        BY <1>1, <1>4, <1>5 DEF Undo
      <3>3. ASSUME NEW m \in Nodes
            PROVE  UnlockPath(o2.tl, n, w1)[m] = Announce(tl, w2)[m]
        <4>1. CASE m = w2
          BY <3>1, <4>1 DEF UnlockPath
        <4>2. CASE m # w2
          <5>1. UnlockPath(o2.tl, n, w1)[m] = UnlockPath(o1.tl, n, w1)[m]
            BY <3>1, <4>2 DEF UnlockPath
          <5> QED
            BY <3>1, <3>2, <4>2, <5>1
        <4> QED
          BY <4>1, <4>2
      <3>4. Tighter(tl, Announce(tl, w2))
        BY <1>2, AnnounceTightens
      <3> QED
        BY <3>2, <3>3, <3>4 DEF Tighter
    <2> QED
      BY <1>7, <2>1, <2>2
  <1>9. ASSUME o2.err = "EAGAIN"
        PROVE  Shut(tl, r, 2)
    <2>1. Shut(o1.tl, r, 2)
      BY <1>9, TryTightens
    <2>2. Busy(o1.tl, w2) => Busy(tl, w2)
      BY <1>2, <1>3, <1>6 DEF Busy
    <2>3. Blocked(o1.tl, Ino(r, 2)) => Blocked(tl, Ino(r, 2))
      BY <1>2, <1>3, <1>5, <1>6 DEF Blocked
    <2> QED
      BY <1>1, <2>1, <2>2, <2>3 DEF Shut
  <1> QED
    BY <1>8, <1>9

(* A thread that has to wait cannot lock one of the paths it lacks.         *)
Waiting(r, holds, tl) ==
  \E i \in {1, 2} : (i = 2 => HasSecond(r)) /\ ~holds[i] /\ Shut(tl, r, i)

Joins(t, r) ==
  /\ Queued(t, r) /\ done' = [done EXCEPT ![t] = FALSE] /\ UNCHANGED hold
  /\ Waiting(r, [i \in {1, 2} |-> FALSE], treelock')

(* SetHandles touches the paths of its own thread only.                     *)
LEMMA HandlesApart ==
  ASSUME TypeOK, NEW t \in Threads, NEW o1, NEW o2, SetHandles(t, o1, o2)
  PROVE  /\ \A u \in Threads \ {t}, i \in {1, 2} : hold'[<<u, i>>] = hold[<<u, i>>]
         /\ hold'[<<t, 1>>] = (o1.err = "ok") /\ hold'[<<t, 2>>] = (o2.err = "ok")
  <1>1. /\ <<t, 1>> \in Handles /\ <<t, 2>> \in Handles /\ <<t, 1>> # <<t, 2>>
        /\ DOMAIN hold = Handles
    BY HandleFacts DEF TypeOK
  <1>2. hold' = [hold EXCEPT ![<<t, 1>>] = (o1.err = "ok"), ![<<t, 2>>] = (o2.err = "ok")]
    BY DEF SetHandles
  <1>3. hold'[<<t, 1>>] = (o1.err = "ok") /\ hold'[<<t, 2>>] = (o2.err = "ok")
    BY <1>1, <1>2, Zenon
  <1>4. \A h \in Handles : h # <<t, 1>> /\ h # <<t, 2>> => hold'[h] = hold[h]
    BY <1>1, <1>2, Zenon
  <1>5. \A u \in Threads \ {t}, i \in {1, 2} :
          <<u, i>> \in Handles /\ <<u, i>> # <<t, 1>> /\ <<u, i>> # <<t, 2>>
    BY DEF Handles
  <1>6. \A u \in Threads \ {t}, i \in {1, 2} : hold'[<<u, i>>] = hold[<<u, i>>]
    BY <1>4, <1>5, Zenon
  <1> QED
    BY <1>3, <1>6, Zenon

(* What get_path and get_path2 leave behind: they only take locks, and      *)
(* queue a request only when one of its paths cannot be locked.             *)
Received(t, r) ==
  /\ Tighter(treelock, treelock')
  /\ \A u \in Threads \ {t}, i \in {1, 2} : hold'[<<u, i>>] = hold[<<u, i>>]
  /\ UNCHANGED <<lockq, pc, req, done>> \/ (Granted(t, r) /\ done' = done) \/ Joins(t, r)

(* A request that is answered at once.                                      *)
LEMMA RefuseReceived ==
  ASSUME NEW t, NEW r, NEW tl, Tighter(treelock, tl), Refuse(t, tl)
  PROVE  Received(t, r)
  BY DEF Refuse, Received

(* A request that joins the queue.                                          *)
LEMMA QueueReceived ==
  ASSUME TypeOK, Acyclic, NEW t, NEW r, NEW tl, Tighter(treelock, tl), QueuePath(t, r, tl),
         NEW i \in {1, 2}, i = 2 => HasSecond(r), Ino(r, i) \in Nodes, Shut(treelock, r, i)
  PROVE  Received(t, r)
  <1>1. treelock' = tl /\ UNCHANGED hold /\ done' = [done EXCEPT ![t] = FALSE] /\ Queued(t, r)
    BY DEF QueuePath, Queued
  <1>2. Shut(treelock', r, i)
    BY <1>1, TighterShuts
  <1>3. Waiting(r, [j \in {1, 2} |-> FALSE], treelock')
    BY <1>2 DEF Waiting
  <1> QED
    BY <1>1, <1>3 DEF Joins, Received

(* A request that gets its paths.                                           *)
LEMMA GrantReceived ==
  ASSUME TypeOK, NEW t \in Threads, NEW r, NEW tl, Tighter(treelock, tl), NEW o1, NEW o2,
         Grant(t, r, o1, o2, tl)
  PROVE  Received(t, r)
  <1>1. treelock' = tl /\ SetHandles(t, o1, o2) /\ Granted(t, r) /\ done' = done
    BY DEF Grant, Granted
  <1>2. \A u \in Threads \ {t}, i \in {1, 2} : hold'[<<u, i>>] = hold[<<u, i>>]
    BY <1>1, HandlesApart
  <1> QED
    BY <1>1, <1>2 DEF Received

(* get_path_common and get_path2 take back what they took before they queue *)
(* the request, so that nobody is freed.                                    *)
LEMMA GetPathTightens ==
  ASSUME TypeOK, RequestsOK, TreeOK, Acyclic, NEW t \in Threads, pc[t] = "idle",
         ThreadOK(t), LockAccount, NEW r, WellFormed(r), r.ino1 \in Nodes,
         \/ ~HasSecond(r) /\ GetPath(t, r)
         \/ HasSecond(r) /\ r.ino2 \in Nodes /\ NoOwnObstacle(r) /\ GetPath2(t, r)
  PROVE  Received(t, r)
  <1>1. TableOK(treelock) /\ Ino(r, 1) = r.ino1 /\ Ino(r, 2) = r.ino2 /\ Ino(r, 1) \in Nodes
    BY DEF TypeOK, TableOK, Ino
  <1>2. Balance(t, r, treelock, NotHeld, NotHeld)
    <2>1. StageOK(t) /\ ~hold[<<t, 1>>] /\ ~hold[<<t, 2>>]
      BY DEF ThreadOK, StageOK
    <2>2. Balance(t, r, treelock, Held(t, 1), Held(t, 2))
      BY <2>1, OpenBalance
    <2>3. Held(t, 1).err # "ok" /\ Held(t, 2).err # "ok"
      BY <2>1, HeldErr
    <2>4. SameLocks(NotHeld, Held(t, 1)) /\ SameLocks(NotHeld, Held(t, 2))
      BY <2>3, NotHeldOutcome DEF SameLocks
    <2> QED
      BY <2>2, <2>4, BalanceAgrees
  <1>3. Accounted(treelock)
    BY <1>2, BalanceAccounts
  <1>4. ASSUME NEW o1 \in TryPath(treelock, r, 1)
        PROVE  /\ TableOK(o1.tl) /\ Tighter(treelock, o1.tl)
               /\ o1.err = "EAGAIN" => Shut(treelock, r, 1)
               /\ Accounted(o1.tl)
    <2>1. Balance(t, r, o1.tl, o1, NotHeld)
      BY <1>1, <1>2, TryFirstBalance, NotHeldOutcome
    <2>2. Accounted(o1.tl)
      BY <2>1, BalanceAccounts
    <2>3. TableOK(o1.tl)
      BY <1>1, TryPathType
    <2> QED
      BY <1>1, <1>3, <2>2, <2>3, TryTightens
  <1>5. ASSUME NEW o1 \in TryPath(treelock, r, 1), o1.err = "EAGAIN", QueuePath(t, r, o1.tl)
        PROVE  Received(t, r)
    <2>1. Tighter(treelock, o1.tl) /\ Shut(treelock, r, 1) /\ 1 \in {1, 2}
      BY <1>4, <1>5
    <2> QED
      BY <1>1, <1>5, <2>1, QueueReceived
  <1>6. ASSUME NEW o1 \in TryPath(treelock, r, 1), Refuse(t, o1.tl)
        PROVE  Received(t, r)
    BY <1>4, <1>6, RefuseReceived
  <1>7. CASE ~HasSecond(r) /\ GetPath(t, r)
    <2>1. PICK o1 \in TryPath(treelock, r, 1) :
            \/ Refuse(t, o1.tl)
            \/ o1.err = "EAGAIN" /\ QueuePath(t, r, o1.tl)
            \/ Grant(t, r, o1, NotHeld, o1.tl)
      BY <1>7 DEF GetPath
    <2>2. CASE Grant(t, r, o1, NotHeld, o1.tl)
      BY <1>4, <2>2, GrantReceived
    <2> QED
      BY <1>5, <1>6, <2>1, <2>2
  <1>8. CASE HasSecond(r) /\ r.ino2 \in Nodes /\ NoOwnObstacle(r) /\ GetPath2(t, r)
    <2>1. PICK o1 \in TryPath(treelock, r, 1) :
            \/ Refuse(t, o1.tl)
            \/ o1.err = "EAGAIN" /\ QueuePath(t, r, o1.tl)
            \/ /\ o1.err = "ok"
               /\ \E o2 \in TryPath(o1.tl, r, 2) :
                    \/ o2.err # "ok" /\ Refuse(t, Undo(o2.tl, r, 1, o1))
                    \/ o2.err = "EAGAIN" /\ QueuePath(t, r, Undo(o2.tl, r, 1, o1))
                    \/ Grant(t, r, o1, o2, o2.tl)
      BY <1>8 DEF GetPath2
    <2>2. ASSUME o1.err = "ok", NEW o2 \in TryPath(o1.tl, r, 2),
                 \/ o2.err # "ok" /\ Refuse(t, Undo(o2.tl, r, 1, o1))
                 \/ o2.err = "EAGAIN" /\ QueuePath(t, r, Undo(o2.tl, r, 1, o1))
                 \/ Grant(t, r, o1, o2, o2.tl)
          PROVE  Received(t, r)
      <3>1. Accounted(o1.tl)
        BY <1>4
      <3>2. TableOK(o1.tl) /\ Tighter(treelock, o1.tl) /\ Ino(r, 2) \in Nodes
        BY <1>1, <1>4, <1>8
      <3>3. Tighter(o1.tl, o2.tl)
        BY <3>1, <3>2, TryTightens
      <3>4. Tighter(treelock, o2.tl)
        BY <3>2, <3>3, TighterTwice
      <3>5. o2.err # "ok" => /\ Tighter(treelock, Undo(o2.tl, r, 1, o1))
                             /\ o2.err = "EAGAIN" => Shut(treelock, r, 2)
        BY <1>1, <1>3, <1>8, <2>2, <3>1, <3>2, SecondTightens
      <3>6. CASE o2.err # "ok" /\ Refuse(t, Undo(o2.tl, r, 1, o1))
        BY <3>5, <3>6, RefuseReceived
      <3>7. CASE o2.err = "EAGAIN" /\ QueuePath(t, r, Undo(o2.tl, r, 1, o1))
        <4>1. /\ Tighter(treelock, Undo(o2.tl, r, 1, o1)) /\ Shut(treelock, r, 2)
              /\ 2 \in {1, 2} /\ HasSecond(r)
          BY <1>8, <3>5, <3>7
        <4> QED
          BY <3>2, <3>7, <4>1, QueueReceived
      <3>8. CASE Grant(t, r, o1, o2, o2.tl)
        BY <3>4, <3>8, GrantReceived
      <3> QED
        BY <2>2, <3>6, <3>7, <3>8
    <2> QED
      BY <1>5, <1>6, <2>1, <2>2
  <1> QED
    BY <1>7, <1>8

(* What the pass leaves behind of the element of t.  Only the first element *)
(* ever gives a lock back; whoever is not done lacks a path that cannot be  *)
(* locked, and holds the other one only when it is first.                   *)
Passed(t) ==
  /\ t # lockq[1] => Tighter(treelock, treelock')
  /\ \A u \in Threads \ {t}, i \in {1, 2} : hold'[<<u, i>>] = hold[<<u, i>>]
  /\ \/ done'[t]
     \/ /\ \E i \in {1, 2} : /\ i = 2 => HasSecond(req[t])
                             /\ ~hold'[<<t, i>>] /\ Shut(treelock', req[t], i)
        /\ t # lockq[1] => ~hold'[<<t, 1>>] /\ ~hold'[<<t, 2>>]

(* What the locks of an element come from: the table before the pass, and   *)
(* the tables after its first and its second path.                          *)
Tried(t, o1, o2) ==
  /\ o1 \in TryElement(treelock, t, 1) /\ o1.err \in {"ok", "EAGAIN"}
  /\ o2 \in TrySecond(o1.tl, t)

(* The first path of a queued element, held already or tried again.         *)
LEMMA TriedFirst ==
  ASSUME Benign, NEW t \in Threads, AtWork(t), NEW o1 \in TryElement(treelock, t, 1)
  PROVE  /\ Tighter(treelock, o1.tl) /\ TableOK(o1.tl)
         /\ o1.err = "EAGAIN" => ~hold[<<t, 1>>] /\ Shut(treelock, req[t], 1)
         /\ hold[<<t, 1>>] => o1.tl = treelock /\ o1.err = "ok"
         /\ ~hold[<<t, 1>>] => o1 \in TryPath(treelock, req[t], 1)
         /\ Accounted(o1.tl)
  <1>1. /\ TypeOK /\ Acyclic /\ TreeOK /\ TableOK(treelock) /\ Ino(req[t], 1) \in Nodes
        /\ Balance(t, req[t], treelock, Held(t, 1), Held(t, 2))
    BY AtWorkFacts, OpenBalance DEF AtWork, TypeOK, TableOK
  <1>2. Accounted(treelock)
    BY <1>1, BalanceAccounts
  <1>3. Element(t, 1, o1) /\ Balance(t, req[t], o1.tl, o1, Held(t, 2))
    BY FirstElement1
  <1>4. TableOK(o1.tl) /\ Accounted(o1.tl)
    BY <1>3, BalanceAccounts DEF Element
  <1>5. CASE hold[<<t, 1>>]
    <2>1. o1 = [Held(t, 1) EXCEPT !.tl = treelock]
      BY <1>5 DEF TryElement
    <2>2. o1.tl = treelock /\ o1.err = "ok"
      BY <1>5, <2>1 DEF Held
    <2> QED
      BY <1>4, <1>5, <2>2 DEF Tighter
  <1>6. CASE ~hold[<<t, 1>>]
    <2>1. o1 \in TryPath(treelock, req[t], 1)
      BY <1>6 DEF TryElement
    <2> QED
      BY <1>1, <1>2, <1>4, <1>6, <2>1, TryTightens
  <1> QED
    BY <1>5, <1>6

(* The second one, tried on the table the first one left.                   *)
LEMMA TriedSecond ==
  ASSUME Benign, NEW t \in Threads, AtWork(t), NEW o1, NEW o2, Tried(t, o1, o2)
  PROVE  /\ Tighter(treelock, o2.tl) /\ Tighter(o1.tl, o2.tl)
         /\ o2.err = "EAGAIN" =>
              HasSecond(req[t]) /\ ~hold[<<t, 2>>] /\ Shut(o1.tl, req[t], 2)
         /\ ~HasSecond(req[t]) \/ hold[<<t, 2>>] => o2.tl = o1.tl
         /\ HasSecond(req[t]) /\ ~hold[<<t, 2>>] => o2 \in TryPath(o1.tl, req[t], 2)
         /\ HasSecond(req[t]) /\ ~hold[<<t, 2>>] /\ o2.err = "ok" =>
              Undo(o2.tl, req[t], 2, o2) = o1.tl
         /\ ~HasSecond(req[t]) => o2.err = "none"
  <1>1. /\ TypeOK /\ Acyclic /\ TreeOK /\ TableOK(o1.tl) /\ Tighter(treelock, o1.tl)
    BY TriedFirst DEF AtWork, Tried
  <1>2. Accounted(o1.tl)
    BY TriedFirst DEF Tried
  <1>3. CASE HasSecond(req[t]) /\ ~hold[<<t, 2>>]
    <2>1. o2 \in TryPath(o1.tl, req[t], 2)
      BY <1>3 DEF TrySecond, TryElement, Tried
    <2>2. Ino(req[t], 2) \in Nodes
      BY <1>3, AtWorkFacts, SecondHasMemory
    <2>3. /\ Tighter(o1.tl, o2.tl)
          /\ o2.err = "EAGAIN" => Shut(o1.tl, req[t], 2)
          /\ o2.err = "ok" => Undo(o2.tl, req[t], 2, o2) = o1.tl
      BY <1>1, <1>2, <2>1, <2>2, TryTightens
    <2>4. Tighter(treelock, o2.tl)
      BY <1>1, <2>3, TighterTwice
    <2> QED
      BY <1>3, <2>1, <2>3, <2>4
  <1>4. CASE ~HasSecond(req[t]) \/ hold[<<t, 2>>]
    <2>1. /\ o2 \in {[Held(t, 2) EXCEPT !.tl = o1.tl], [NotHeld EXCEPT !.tl = o1.tl]}
          /\ ~HasSecond(req[t]) => o2 = [NotHeld EXCEPT !.tl = o1.tl]
      BY <1>4 DEF TrySecond, TryElement, Tried
    <2>2. o2.tl = o1.tl /\ o2.err # "EAGAIN" /\ (~HasSecond(req[t]) => o2.err = "none")
      BY <2>1 DEF Held, NotHeld
    <2>3. Tighter(o1.tl, o2.tl)
      BY <2>2 DEF Tighter
    <2> QED
      BY <1>1, <1>4, <2>2, <2>3
  <1> QED
    BY <1>3, <1>4

(* Taking back what an element that held nothing has locked.                *)
LEMMA TriedUndone ==
  ASSUME Benign, NEW t \in Threads, AtWork(t), HasSecond(req[t]) => NoOwnObstacle(req[t]),
         ~hold[<<t, 1>>], ~hold[<<t, 2>>], NEW o1, NEW o2, Tried(t, o1, o2),
         ~(o1.err = "ok" /\ o2.err \in {"ok", "none"})
  PROVE  /\ Tighter(treelock, Undo(Undo(o2.tl, req[t], 1, o1), req[t], 2, o2))
         /\ o1.err = "ok" /\ o2.err = "EAGAIN" => Shut(treelock, req[t], 2)
  <1>1. /\ TypeOK /\ Acyclic /\ TreeOK /\ TableOK(treelock) /\ Ino(req[t], 1) \in Nodes
        /\ Balance(t, req[t], treelock, Held(t, 1), Held(t, 2))
    BY AtWorkFacts, OpenBalance DEF AtWork, TypeOK, TableOK
  <1>2. Accounted(treelock)
    BY <1>1, BalanceAccounts
  <1>3. /\ o1 \in TryPath(treelock, req[t], 1) /\ TableOK(o1.tl) /\ Tighter(treelock, o1.tl)
    BY TriedFirst DEF Tried
  <1>4. Accounted(o1.tl)
    BY TriedFirst DEF Tried
  <1>5. CASE o1.err = "ok"
    <2>1. HasSecond(req[t]) /\ o2.err # "ok" /\ o2 \in TryPath(o1.tl, req[t], 2)
      BY <1>5, TriedSecond
    <2>2. Ino(req[t], 2) \in Nodes /\ NoOwnObstacle(req[t])
      BY <2>1, AtWorkFacts, SecondHasMemory
    <2>3. /\ Tighter(treelock, Undo(o2.tl, req[t], 1, o1))
          /\ o2.err = "EAGAIN" => Shut(treelock, req[t], 2)
      BY <1>1, <1>2, <1>3, <1>4, <1>5, <2>1, <2>2, SecondTightens
    <2>4. Undo(Undo(o2.tl, req[t], 1, o1), req[t], 2, o2) = Undo(o2.tl, req[t], 1, o1)
      BY <2>1 DEF Undo
    <2> QED
      BY <2>3, <2>4
  <1>6. CASE o1.err # "ok"
    <2>1. Undo(o2.tl, req[t], 1, o1) = o2.tl
      BY <1>6 DEF Undo
    <2>2. CASE o2.err = "ok"
      <3>1. Undo(o2.tl, req[t], 2, o2) = o1.tl
        BY <2>2, TriedSecond
      <3> QED
        BY <1>3, <1>6, <2>1, <3>1
    <2>3. CASE o2.err # "ok"
      <3>1. Undo(o2.tl, req[t], 2, o2) = o2.tl /\ Tighter(treelock, o2.tl)
        BY <2>3, TriedSecond DEF Undo
      <3> QED
        BY <1>6, <2>1, <3>1
    <2> QED
      BY <2>2, <2>3
  <1> QED
    BY <1>5, <1>6

(* queue_element_wakeup leaves an element done, or without a path that      *)
(* cannot be locked.                                                        *)
LEMMA WakePathPasses ==
  ASSUME Benign, NEW t \in Threads, AtWork(t), HasSecond(req[t]) => NoOwnObstacle(req[t]),
         ~done[t] /\ (hold[<<t, 1>>] \/ hold[<<t, 2>>]) => t = lockq[1],
         WakePath(t)
  PROVE  Passed(t)
  <1>1. /\ TypeOK /\ Acyclic /\ StageOK(t) /\ pc[t] = "waiting" /\ req[t].op # "forget"
        /\ Ino(req[t], 1) \in Nodes /\ (HasSecond(req[t]) => Ino(req[t], 2) \in Nodes)
        /\ t \in DOMAIN done
    BY AtWorkFacts, SecondHasMemory DEF AtWork, ThreadOK, TypeOK
  <1>2. ASSUME t # lockq[1], ~(hold[<<t, 1>>] /\ (hold[<<t, 2>>] <=> HasSecond(req[t])))
        PROVE  ~hold[<<t, 1>>] /\ ~hold[<<t, 2>>]
    BY <1>1, <1>2 DEF StageOK
  <1>3. ASSUME NEW o1, NEW o2, SetHandles(t, o1, o2)
        PROVE  /\ \A u \in Threads \ {t}, i \in {1, 2} : hold'[<<u, i>>] = hold[<<u, i>>]
               /\ hold'[<<t, 1>>] = (o1.err = "ok") /\ hold'[<<t, 2>>] = (o2.err = "ok")
    BY <1>1, <1>3, HandlesApart
  <1>4. ASSUME NEW e, Answer(t, e)
        PROVE  done'[t]
    BY <1>1, <1>4 DEF Answer
  <1>5. PICK o1 \in TryElement(treelock, t, 1) :
          \/ /\ o1.err \notin {"ok", "EAGAIN"}
             /\ GiveUp(t, o1, Held(t, 2), o1.tl, o1.err)
          \/ /\ o1.err \in {"ok", "EAGAIN"}
             /\ \E o2 \in TrySecond(o1.tl, t) :
                  \/ o2.err \notin {"ok", "EAGAIN", "none"} /\ GiveUp(t, o1, o2, o2.tl, o2.err)
                  \/ /\ o1.err = "ok" /\ o2.err \in {"ok", "none"}
                     /\ treelock' = o2.tl
                     /\ SetHandles(t, o1, o2)
                     /\ Answer(t, "ok")
                  \/ /\ "EAGAIN" \in {o1.err, o2.err} /\ o2.err \in {"ok", "EAGAIN", "none"}
                     /\ KeepTrying(t, o1, o2, o2.tl)
    BY DEF WakePath
  <1>6. CASE /\ o1.err \notin {"ok", "EAGAIN"}
             /\ GiveUp(t, o1, Held(t, 2), o1.tl, o1.err)
    <2>1. ~hold[<<t, 1>>] /\ Tighter(treelock, o1.tl)
      BY <1>6, TriedFirst
    <2>2. ASSUME t # lockq[1]
          PROVE  treelock' = o1.tl
      <3>1. Held(t, 2).err # "ok"
        BY <1>1, <1>2, <2>1, <2>2, HeldErr
      <3> QED
        BY <1>6, <3>1 DEF GiveUp, Undo
    <2>3. SetHandles(t, NotHeld, NotHeld) /\ done'[t]
      BY <1>4, <1>6 DEF GiveUp
    <2> QED
      BY <1>3, <2>1, <2>2, <2>3 DEF Passed
  <1>7. ASSUME o1.err \in {"ok", "EAGAIN"}, NEW o2 \in TrySecond(o1.tl, t),
               \/ o2.err \notin {"ok", "EAGAIN", "none"} /\ GiveUp(t, o1, o2, o2.tl, o2.err)
               \/ /\ o1.err = "ok" /\ o2.err \in {"ok", "none"}
                  /\ treelock' = o2.tl
                  /\ SetHandles(t, o1, o2)
                  /\ Answer(t, "ok")
               \/ /\ "EAGAIN" \in {o1.err, o2.err} /\ o2.err \in {"ok", "EAGAIN", "none"}
                  /\ KeepTrying(t, o1, o2, o2.tl)
        PROVE  Passed(t)
    <2>1. Tried(t, o1, o2)
      BY <1>5, <1>7 DEF Tried
    <2>2. ASSUME t # lockq[1], ~(o1.err = "ok" /\ o2.err \in {"ok", "none"})
          PROVE  /\ ~hold[<<t, 1>>] /\ ~hold[<<t, 2>>]
                 /\ Tighter(treelock, Undo(Undo(o2.tl, req[t], 1, o1), req[t], 2, o2))
                 /\ o1.err = "ok" /\ o2.err = "EAGAIN" => Shut(treelock, req[t], 2)
      <3>1. hold[<<t, 1>>] => o1.err = "ok"
        BY TriedFirst
      <3>2. ~HasSecond(req[t]) => o2.err = "none"
        BY <2>1, TriedSecond
      <3>3. hold[<<t, 2>>] /\ HasSecond(req[t]) => o2.err = "ok"
        BY <2>1 DEF Tried, TrySecond, TryElement, Held
      <3>4. ~hold[<<t, 1>>] /\ ~hold[<<t, 2>>]
        BY <1>2, <2>2, <3>1, <3>2, <3>3
      <3> QED
        BY <2>1, <2>2, <3>4, TriedUndone
    <2>3. CASE o2.err \notin {"ok", "EAGAIN", "none"} /\ GiveUp(t, o1, o2, o2.tl, o2.err)
      <3>1. SetHandles(t, NotHeld, NotHeld) /\ done'[t]
        BY <1>4, <2>3 DEF GiveUp
      <3>2. treelock' = Undo(Undo(o2.tl, req[t], 1, o1), req[t], 2, o2)
        BY <2>3 DEF GiveUp
      <3> QED
        BY <1>3, <2>2, <2>3, <3>1, <3>2 DEF Passed
    <2>4. CASE /\ o1.err = "ok" /\ o2.err \in {"ok", "none"}
               /\ treelock' = o2.tl
               /\ SetHandles(t, o1, o2)
               /\ Answer(t, "ok")
      <3>1. Tighter(treelock, treelock') /\ done'[t]
        BY <1>4, <2>1, <2>4, TriedSecond
      <3> QED
        BY <1>3, <2>4, <3>1 DEF Passed
    <2>5. CASE /\ "EAGAIN" \in {o1.err, o2.err} /\ o2.err \in {"ok", "EAGAIN", "none"}
               /\ KeepTrying(t, o1, o2, o2.tl)
      <3>1. /\ o1.err = "EAGAIN" => Shut(treelock, req[t], 1)
            /\ o2.err = "EAGAIN" => HasSecond(req[t]) /\ Shut(o1.tl, req[t], 2)
            /\ Tighter(treelock, o2.tl) /\ Tighter(o1.tl, o2.tl)
        BY <2>1, TriedFirst, TriedSecond
      <3>2. CASE t = lockq[1]
        <4>1. treelock' = o2.tl /\ SetHandles(t, o1, o2)
          BY <2>5, <3>2 DEF KeepTrying, KeepPartial
        <4>2. hold'[<<t, 1>>] = (o1.err = "ok") /\ hold'[<<t, 2>>] = (o2.err = "ok")
          BY <1>3, <4>1
        <4>3. CASE o1.err = "EAGAIN"
          <5>1. Shut(treelock', req[t], 1) /\ ~hold'[<<t, 1>>]
            BY <1>1, <3>1, <4>1, <4>2, <4>3, TighterShuts
          <5> QED
            BY <1>3, <3>2, <4>1, <5>1 DEF Passed
        <4>4. CASE o2.err = "EAGAIN"
          <5>1. Shut(treelock', req[t], 2) /\ ~hold'[<<t, 2>>] /\ HasSecond(req[t])
            BY <1>1, <3>1, <4>1, <4>2, <4>4, TighterShuts
          <5> QED
            BY <1>3, <3>2, <4>1, <5>1 DEF Passed
        <4> QED
          BY <2>5, <4>3, <4>4
      <3>3. CASE t # lockq[1]
        <4>1. /\ treelock' = Undo(Undo(o2.tl, req[t], 1, o1), req[t], 2, o2)
              /\ SetHandles(t, NotHeld, NotHeld)
          BY <2>5, <3>3 DEF KeepTrying, KeepNothing
        <4>2. ~hold'[<<t, 1>>] /\ ~hold'[<<t, 2>>]
          BY <1>3, <4>1, NotHeldOutcome
        <4>3. /\ Tighter(treelock, treelock')
              /\ o1.err = "ok" /\ o2.err = "EAGAIN" => Shut(treelock, req[t], 2)
          BY <2>2, <2>5, <3>3, <4>1
        <4>4. CASE o1.err = "EAGAIN"
          <5>1. Shut(treelock', req[t], 1)
            BY <1>1, <3>1, <4>3, <4>4, TighterShuts
          <5> QED
            BY <1>3, <4>1, <4>2, <4>3, <5>1 DEF Passed
        <4>5. CASE o1.err = "ok" /\ o2.err = "EAGAIN"
          <5>1. Shut(treelock', req[t], 2) /\ HasSecond(req[t])
            BY <1>1, <3>1, <4>3, <4>5, TighterShuts
          <5> QED
            BY <1>3, <4>1, <4>2, <4>3, <5>1 DEF Passed
        <4> QED
          BY <1>7, <2>5, <4>4, <4>5
      <3> QED
        BY <3>2, <3>3
    <2> QED
      BY <1>7, <2>3, <2>4, <2>5
  <1> QED
    BY <1>5, <1>6, <1>7

(* A request that waits cannot lock one of the paths it lacks, or that path *)
(* no longer leads to the root.                                             *)
Lacks(t, i) == (i = 2 => HasSecond(req[t])) /\ ~hold[<<t, i>>]

Stuck(t) ==
  IF req[t].op = "forget" THEN treelock[req[t].ino1] # 0
  ELSE \E i \in {1, 2} :
         Lacks(t, i) /\ (Shut(treelock, req[t], i) \/ ~Attached(Ino(req[t], i)))

(* A path a waiting request lacks starts at a node.                         *)
LEMMA LackedIno ==
  ASSUME TypeOK, RequestsOK, NEW u \in Threads, pc[u] = "waiting", NEW i \in {1, 2},
         i = 2 => HasSecond(req[u])
  PROVE  Ino(req[u], i) \in Nodes
  <1>1. WellFormed(req[u]) /\ req[u].op # "none"
    BY DEF RequestsOK
  <1> QED
    BY <1>1 DEF WellFormed, Request, HasSecond, Ino

(* The same, said of the state before a step and of the state after it.     *)
LEMMA StuckNow ==
  ASSUME NEW u, Stuck(u), req[u].op # "forget"
  PROVE  \E i \in {1, 2} :
           /\ i = 2 => HasSecond(req[u])
           /\ ~hold[<<u, i>>]
           /\ \/ /\ req[u].op \in WriteOps
                 /\ LookupNode(Ino(req[u], i), Entry(req[u], i)) # NoNode
                 /\ treelock[LookupNode(Ino(req[u], i), Entry(req[u], i))] # 0
              \/ \E m \in Walk[Ino(req[u], i)] :
                   m # Root /\ parent[m] # NoNode /\ treelock[m] < 0
              \/ Root \notin Walk[Ino(req[u], i)]
  BY DEF Stuck, Lacks, Shut, Busy, Wanted, Blocked, Path, Chain, Attached

(* What is enough for a thread to be stuck after a step.                    *)
LEMMA StuckNext ==
  ASSUME NEW u, NEW r, r = req'[u], r.op # "forget", NEW i \in {1, 2}, i = 2 => HasSecond(r),
         ~hold'[<<u, i>>], NEW p, p = Ino(r, i), NEW nm, nm = Entry(r, i),
         \/ r.op \in WriteOps /\ LookupNode(p, nm)' # NoNode
            /\ treelock'[LookupNode(p, nm)'] # 0
         \/ \E m \in Walk'[p] : m # Root /\ parent'[m] # NoNode /\ treelock'[m] < 0
         \/ Root \notin Walk'[p]
  PROVE  Stuck(u)'
  <1>1. Lacks(u, i)'
    BY DEF Lacks, HasSecond
  <1>2. CASE r.op \in WriteOps /\ LookupNode(p, nm)' # NoNode
             /\ treelock'[LookupNode(p, nm)'] # 0
    <2>1. Wanted(req[u], i)' = LookupNode(p, nm)'
      BY <1>2 DEF Wanted, Ino, Entry, LookupNode, IsChild
    <2>2. Shut(treelock, req[u], i)'
      BY <1>2, <2>1 DEF Shut, Busy
    <2> QED
      BY <1>1, <2>2 DEF Stuck
  <1>3. CASE \E m \in Walk'[p] : m # Root /\ parent'[m] # NoNode /\ treelock'[m] < 0
    <2>1. Blocked(treelock, Ino(req[u], i))'
      BY <1>3 DEF Blocked, Path, Chain, Ino
    <2>2. Shut(treelock, req[u], i)'
      BY <2>1 DEF Shut
    <2> QED
      BY <1>1, <2>2 DEF Stuck
  <1>4. CASE Root \notin Walk'[p]
    <2>1. ~Attached(Ino(req[u], i))'
      BY <1>4 DEF Attached, Chain, Ino
    <2> QED
      BY <1>1, <2>1 DEF Stuck
  <1> QED
    BY <1>2, <1>3, <1>4

(* While the tree stays and locks are only taken, who is stuck stays so.    *)
LEMMA StuckStays ==
  ASSUME TypeOK, RequestsOK, Acyclic, UNCHANGED treeVars, Tighter(treelock, treelock'),
         NEW u \in Threads, pc[u] = "waiting", req'[u] = req[u],
         \A i \in {1, 2} : hold'[<<u, i>>] = hold[<<u, i>>], Stuck(u)
  PROVE  Stuck(u)'
  <1>1. CASE req[u].op = "forget"
    <2>1. req[u].ino1 \in Nodes
      BY <1>1 DEF RequestsOK, WellFormed
    <2> QED
      BY <1>1, <2>1 DEF Stuck, Tighter
  <1>2. CASE req[u].op # "forget"
    <2>1. PICK r : r = req[u] /\ r = req'[u]
      OBVIOUS
    <2>2. PICK i \in {1, 2} :
            /\ i = 2 => HasSecond(r)
            /\ ~hold[<<u, i>>]
            /\ \/ /\ r.op \in WriteOps
                  /\ LookupNode(Ino(r, i), Entry(r, i)) # NoNode
                  /\ treelock[LookupNode(Ino(r, i), Entry(r, i))] # 0
               \/ \E m \in Walk[Ino(r, i)] : m # Root /\ parent[m] # NoNode /\ treelock[m] < 0
               \/ Root \notin Walk[Ino(r, i)]
      BY <1>2, <2>1, StuckNow
    <2>3. PICK p, nm : p = Ino(r, i) /\ nm = Entry(r, i)
      OBVIOUS
    <2>4. p \in Nodes /\ Walk[p] \in SUBSET Nodes
      BY <2>1, <2>2, <2>3, LackedIno, ChainFacts DEF Chain
    <2>5. Walk' = Walk /\ parent' = parent /\ LookupNode(p, nm)' = LookupNode(p, nm)
      BY SameTreeFacts
    <2>6. LookupNode(p, nm) \in Nodes \cup {NoNode}
      BY LookupNodeType
    <2>7. \/ r.op \in WriteOps /\ LookupNode(p, nm)' # NoNode
             /\ treelock'[LookupNode(p, nm)'] # 0
          \/ \E m \in Walk'[p] : m # Root /\ parent'[m] # NoNode /\ treelock'[m] < 0
          \/ Root \notin Walk'[p]
      BY <2>2, <2>3, <2>4, <2>5, <2>6 DEF Tighter
    <2> QED
      BY <1>2, <2>1, <2>2, <2>3, <2>7, StuckNext
  <1> QED
    BY <1>1, <1>2

(* A path to the root that has not been cut: every node on it but the root  *)
(* has a parent.                                                            *)
PathsWhole ==
  \A x \in Nodes : Root \in Walk[x] => \A m \in Walk[x] : m # Root => parent[m] # NoNode

(* A tree has whole paths, before a step and after it.                      *)
LEMMA WholeNow == TypeOK /\ Acyclic /\ TreeOK => PathsWhole
  BY AttachedAbove DEF PathsWhole, Attached, Chain

LEMMA WholeNext == TypeOK' /\ Acyclic' /\ TreeOK' => PathsWhole'
  BY WholeNow, PTL

(* When a node above x moves, the first one that moves is still above x.    *)
LEMMA FirstMoved ==
  ASSUME ParentOK, Acyclic, ParentOK', Acyclic', NEW T, Spared(T), NEW x \in Nodes
  PROVE  \/ Walk'[x] = Walk[x] /\ \A m \in Walk[x] : m \notin T /\ parent'[m] = parent[m]
         \/ \E c \in T : c \in Walk[x] /\ c \in Walk'[x]
  <1>1. ChainsAreLeast /\ ChainsAreLeast'
    BY ChainClosure, ChainClosureNext
  <1>2. /\ x \in Walk[x] /\ Walk[x] \in SUBSET Nodes
        /\ \A m \in Walk[x] : parent[m] # NoNode => parent[m] \in Walk[x]
        /\ \A S \in SUBSET Nodes : x \in S /\ Closed(S) => Walk[x] \subseteq S
    BY <1>1 DEF ChainsAreLeast, Chain, Closed
  <1>3. /\ x \in Walk'[x]
        /\ \A m \in Walk'[x] : parent'[m] # NoNode => parent'[m] \in Walk'[x]
    BY <1>1 DEF ChainsAreLeast, Chain, Closed
  <1>4. PICK S : S = Walk[x] \cap Walk'[x]
    OBVIOUS
  <1>5. CASE S \cap T = {}
    <2>1. S \in SUBSET Nodes /\ x \in S
      BY <1>2, <1>3, <1>4
    <2>2. \A m \in S : parent'[m] = parent[m]
      BY <1>5, <2>1 DEF Spared
    <2>3. Closed(S)
      BY <1>2, <1>3, <1>4, <2>2 DEF Closed
    <2>4. Walk[x] \subseteq S
      BY <1>2, <2>1, <2>3
    <2>5. \A m \in Walk[x] : m \notin T /\ parent'[m] = parent[m]
      BY <1>5, <2>2, <2>4
    <2>6. Chain(x)' = Chain(x)
      BY <2>5, ChainStays DEF Chain
    <2> QED
      BY <2>5, <2>6 DEF Chain
  <1>6. CASE S \cap T # {}
    BY <1>4, <1>6
  <1> QED
    BY <1>5, <1>6

(* Nobody can read the nodes of T that are above the paths of u, and the    *)
(* entries u wants for itself stay.                                         *)
OutOfReach(T, u) ==
  \A i \in {1, 2} : \A p \in Nodes : \A nm :
    req[u].op # "forget" /\ p = Ino(req[u], i) /\ nm = Entry(req[u], i) =>
      /\ \A c \in Walk[p] : c \in T => c # Root /\ treelock[c] < 0
      /\ req[u].op \in WriteOps /\ LookupNode(p, nm) # NoNode =>
           LookupNode(p, nm)' = LookupNode(p, nm)

(* When only nodes move that nobody can read, and the entry a writer wants  *)
(* stays, who is stuck stays so: the path is blocked where it has moved, or *)
(* cut off there.                                                           *)
LEMMA StuckThroughMove ==
  ASSUME TypeOK, RequestsOK, Acyclic, TreeOK, TypeOK', Acyclic', TreeOK',
         NEW T, Spared(T), UNCHANGED <<treelock, hold>>,
         NEW u \in Threads, pc[u] = "waiting", req'[u] = req[u], Stuck(u),
         OutOfReach(T, u)
  PROVE  Stuck(u)'
  <1>1. CASE req[u].op = "forget"
    BY <1>1 DEF Stuck
  <1>2. CASE req[u].op # "forget"
    <2>1. PICK r : r = req[u] /\ r = req'[u]
      OBVIOUS
    <2>2. PICK i \in {1, 2} :
            /\ i = 2 => HasSecond(r)
            /\ ~hold[<<u, i>>]
            /\ \/ /\ r.op \in WriteOps
                  /\ LookupNode(Ino(r, i), Entry(r, i)) # NoNode
                  /\ treelock[LookupNode(Ino(r, i), Entry(r, i))] # 0
               \/ \E m \in Walk[Ino(r, i)] : m # Root /\ parent[m] # NoNode /\ treelock[m] < 0
               \/ Root \notin Walk[Ino(r, i)]
      BY <1>2, <2>1, StuckNow
    <2>3. PICK p, nm : p = Ino(r, i) /\ nm = Entry(r, i)
      OBVIOUS
    <2>4. p \in Nodes
      BY <2>1, <2>2, <2>3, LackedIno
    <2>5. /\ \A c \in Walk[p] : c \in T => c # Root /\ treelock[c] < 0
          /\ r.op \in WriteOps /\ LookupNode(p, nm) # NoNode =>
               LookupNode(p, nm)' = LookupNode(p, nm)
      BY <1>2, <2>1, <2>3, <2>4 DEF OutOfReach
    <2>6. ParentOK /\ ParentOK' /\ PathsWhole'
      BY WholeNext DEF TypeOK, TreeTypeOK, ParentOK
    <2>7. \/ Walk'[p] = Walk[p] /\ \A m \in Walk[p] : m \notin T /\ parent'[m] = parent[m]
          \/ \E c \in T : c \in Walk[p] /\ c \in Walk'[p]
      BY <2>4, <2>6, FirstMoved
    <2>8. \/ r.op \in WriteOps /\ LookupNode(p, nm)' # NoNode
             /\ treelock'[LookupNode(p, nm)'] # 0
          \/ \E m \in Walk'[p] : m # Root /\ parent'[m] # NoNode /\ treelock'[m] < 0
          \/ Root \notin Walk'[p]
      <3>1. CASE Walk'[p] = Walk[p] /\ \A m \in Walk[p] : m \notin T /\ parent'[m] = parent[m]
        BY <2>2, <2>3, <2>5, <3>1
      <3>2. ASSUME NEW c \in T, c \in Walk[p], c \in Walk'[p]
            PROVE  \/ \E m \in Walk'[p] : m # Root /\ parent'[m] # NoNode /\ treelock'[m] < 0
                   \/ Root \notin Walk'[p]
        <4>1. c # Root /\ treelock'[c] < 0
          BY <2>5, <3>2
        <4>2. Root \in Walk'[p] => parent'[c] # NoNode
          BY <2>4, <2>6, <3>2, <4>1 DEF PathsWhole
        <4> QED
          BY <3>2, <4>1, <4>2
      <3> QED
        BY <2>7, <3>1, <3>2
    <2>9. /\ ~hold'[<<u, i>>] /\ r.op # "forget" /\ r = req'[u]
          /\ i = 2 => HasSecond(r)
      BY <1>2, <2>1, <2>2
    <2> QED
      BY <2>3, <2>8, <2>9, StuckNext
  <1> QED
    BY <1>1, <1>2

(* What a handler moves while it holds its paths opens no path another      *)
(* request waits for: it moves only nodes it has write-locked, and the      *)
(* entry the other wants for itself is in a directory it does not change.   *)
LEMMA ActStuck ==
  ASSUME TreeInv, TreeInv', LockInv, NEW t \in Threads, Act(t) \/ Hide(t),
         NEW u \in Threads, pc[u] = "waiting", Stuck(u)
  PROVE  Stuck(u)'
  <1> DEFINE T == Own(t) \cup Unused
  <1>1. /\ TypeOK /\ TreeTypeOK /\ RequestsOK /\ Acyclic /\ TreeOK /\ LockAccount /\ DirsOK
        /\ TypeOK' /\ Acyclic' /\ TreeOK'
        /\ \A v \in Threads : ThreadOK(v)
    BY DEF TreeInv, TypeOK, LockInv
  <1>2. /\ Spared(T) /\ UNCHANGED <<treelock, hold>> /\ req' = req /\ pc[t] = "locked"
        /\ t \in Unanswered /\ u \in Unanswered /\ t # u /\ pc'[u] = "waiting"
    BY ActTouches, ActFacts, ActStages DEF lockVars, Unanswered
  <1>3. ASSUME req[u].op # "forget", NEW i \in {1, 2}, NEW p \in Nodes, p = Ino(req[u], i),
               NEW c \in Walk[p], c \in T
        PROVE  c # Root /\ treelock[c] < 0
    <2>1. nlookup[p] > 0
      <3>1. p \in {req[u].ino1, req[u].ino2} \ {NoNode}
        BY <1>3, NodeTreeAssumption DEF Ino
      <3> QED
        BY <1>1, <3>1 DEF ThreadOK, InoOK
    <2>2. c \notin Unused
      BY <1>1, <1>3, <2>1, UnusedFacts DEF Chain
    <2>3. PICK j \in {1, 2} : c # Root /\ c \in Nodes /\ hold[<<t, j>>] /\ wnode[<<t, j>>] = c
      BY <1>3, <2>2 DEF Own
    <2>4. <<t, j>> \in HeldPaths
      BY <2>3 DEF HeldPaths, Handles
    <2>5. treelock[c] = TREELOCK_WRITE
      BY <1>1, <2>3, <2>4, OwnAlone
    <2> QED
      BY <2>3, <2>5 DEF TREELOCK_WRITE
  <1>4. ASSUME req[u].op \in WriteOps, NEW i \in {1, 2}, NEW p \in Nodes, p = Ino(req[u], i),
               NEW nm, nm = Entry(req[u], i), NEW w, w = LookupNode(p, nm), w # NoNode
        PROVE  LookupNode(p, nm)' = w
    <2>1. w \in Nodes /\ parent[w] = p /\ name[w] = nm
      BY <1>4, LookupNodeType DEF IsChild
    <2>2. LookupNode(p, nm)' \in {w, NoNode}
      BY <1>1, <1>2, <1>4, ActEntries
    <2>3. nlookup[w] > 0
      <3>1. KernelKnows(w)
        BY <1>4 DEF LockInv, VictimsOK, EntriesKnown
      <3> QED
        BY <1>1, <3>1, KnownIsLookedUp
    <2>4. w \notin Unused
      BY <1>1, <2>1, <2>3, UnusedFacts, ChainFacts
    <2>5. ASSUME w \in Own(t)
          PROVE  FALSE
      <3>1. PICK j \in {1, 2} : hold[<<t, j>>] /\ wnode[<<t, j>>] = w
        BY <2>5 DEF Own
      <3>2. /\ req[t].op \in WriteOps /\ WellFormed(req[t]) /\ StageOK(t)
            /\ \/ parent[w] \in {NoNode, Ino(req[t], j)}
               \/ hold[<<t, 2>>] /\ parent[w] = req[t].ino2
        BY <1>1, <2>1, <3>1, NodeTreeAssumption DEF ThreadOK, WriterOK, RequestsOK
      <3>3. req[t].op = "unlink" => ~HasSecond(req[t]) /\ j = 1 /\ ~hold[<<t, 2>>]
        BY <3>1, <3>2 DEF WellFormed, PathPairOps, HasSecond, StageOK
      <3>4. p \in Changes(req[t])
        BY <2>1, <3>2, <3>3, NodeTreeAssumption DEF Changes, Ino, WriteOps
      <3>5. p \in Changes(req[u])
        <4>1. WellFormed(req[u])
          BY <1>1 DEF RequestsOK
        <4>2. req[u].op \in {"unlink", "rename"} /\ (req[u].op = "unlink" => p = req[u].ino1)
          BY <1>4, <4>1, NodeTreeAssumption DEF WriteOps, WellFormed, PathPairOps, Ino
        <4> QED
          BY <1>4, <4>2 DEF Changes, Ino
      <3> QED
        BY <1>1, <1>2, <3>4, <3>5 DEF DirsOK
    <2>6. parent'[w] = p /\ name'[w] = nm
      BY <1>2, <2>1, <2>4, <2>5 DEF Spared
    <2>7. LookupNode(p, nm)' # NoNode
      BY <2>1, <2>6, NodeTreeAssumption DEF LookupNode, IsChild
    <2> QED
      BY <2>2, <2>7
  <1> HIDE DEF T
  <1>5. req'[u] = req[u] /\ OutOfReach(T, u)
    BY <1>2, <1>3, <1>4 DEF OutOfReach
  <1> QED
    BY <1>1, <1>2, <1>5, StuckThroughMove

(* A forget opens no path another request waits for: neither the nodes of   *)
(* that path nor the entry it wants are deleted with it.                    *)
LEMMA DropStuck ==
  ASSUME TreeInv, TreeInv', LockInv, NEW n, NEW k, Forgets(n, k),
         UNCHANGED <<treelock, hold>>,
         NEW u \in Threads, pc[u] = "waiting", pc'[u] = "waiting", req'[u] = req[u], Stuck(u),
         KernelKnows(n) => nlookup[n] > k \/ \A v \in Unanswered : n \notin Pins(req[v])
  PROVE  Stuck(u)'
  <1> DEFINE T == Doomed(n, k)
  <1>1. /\ TypeOK /\ TreeTypeOK /\ RequestsOK /\ Acyclic /\ TreeOK /\ LockAccount
        /\ TypeOK' /\ Acyclic' /\ TreeOK'
        /\ n \in Nodes \ {Root} /\ k \in Nat /\ k <= nlookup[n]
    BY DEF TreeInv, TypeOK, LockInv, Forgets
  <1>2. Spared(T) /\ u \in Unanswered /\ u \in Unanswered' /\ WellFormed(req[u])
    BY <1>1, DropSpares DEF Unanswered, RequestsOK
  <1>3. ASSUME NEW x \in Nodes, nlookup'[x] > 0, NEW c \in Walk[x]
        PROVE  c \notin T
    <2>1. nlookup' = [nlookup EXCEPT ![n] = @ - k]
      BY DEF Forgets, DropLookups
    <2> QED
      BY <1>3, <2>1 DEF Doomed, AliveUnder, Chain
  <1>4. ASSUME req[u].op # "forget", NEW i \in {1, 2}, NEW p \in Nodes, p = Ino(req[u], i),
               NEW c \in Walk[p]
        PROVE  c \notin T
    <2>1. InoOK(u)'
      BY <1>2, <1>4, UnansweredInosNext
    <2>2. p \in {req[u].ino1, req[u].ino2} \ {NoNode}
      BY <1>4, NodeTreeAssumption DEF Ino
    <2>3. nlookup'[p] > 0
      BY <2>1, <2>2 DEF InoOK
    <2> QED
      BY <1>3, <1>4, <2>3
  <1>5. ASSUME req[u].op \in WriteOps, NEW i \in {1, 2}, NEW p \in Nodes, p = Ino(req[u], i),
               NEW nm, nm = Entry(req[u], i), NEW w, w = LookupNode(p, nm), w # NoNode
        PROVE  LookupNode(p, nm)' = w
    <2>1. w \in Nodes /\ parent[w] = p /\ name[w] = nm
      BY <1>5, LookupNodeType DEF IsChild
    <2>2. LookupNode(p, nm)' \in {w, NoNode}
      BY <1>1, <1>5, DropFacts, LookupStays
    <2>3. KernelKnows(w) /\ nlookup[w] > 0
      <3>1. KernelKnows(w)
        BY <1>5 DEF LockInv, VictimsOK, EntriesKnown
      <3> QED
        BY <1>1, <3>1, KnownIsLookedUp
    <2>4. nlookup'[w] > 0
      <3>1. CASE w # n
        BY <2>1, <2>3, <3>1, DropFacts
      <3>2. CASE w = n
        <4>1. w \in Pins(req[u])
          <5>1. w = Victim(req[u], i) /\ req[u].op # "forget"
            BY <1>2, <1>5, WriteEntries DEF Victim, WriteOps
          <5>2. i = 1 \/ i = 2
            OBVIOUS
          <5> QED
            BY <1>5, <5>1, <5>2 DEF Pins
        <4>2. nlookup[n] > k
          BY <1>2, <2>3, <3>2, <4>1
        <4> QED
          BY <1>1, <3>2, <4>2, DropFacts
      <3> QED
        BY <3>1, <3>2
    <2>5. w \in Walk[w]
      BY <1>1, <2>1, ChainFacts DEF Chain
    <2>6. parent'[w] = p /\ name'[w] = nm
      BY <1>2, <1>3, <2>1, <2>4, <2>5 DEF Spared
    <2>7. LookupNode(p, nm)' # NoNode
      BY <2>1, <2>6, NodeTreeAssumption DEF LookupNode, IsChild
    <2> QED
      BY <2>2, <2>7
  <1> HIDE DEF T
  <1>6. OutOfReach(T, u)
    BY <1>4, <1>5 DEF OutOfReach
  <1> QED
    BY <1>1, <1>2, <1>6, StuckThroughMove

(* The state of the queue: every waiting thread is in it, only its first    *)
(* element keeps a path while it waits for another, and everyone a pass has *)
(* seen and not finished is stuck.                                          *)
IsQueued(t) == \E i \in DOMAIN lockq : lockq[i] = t

WaitersQueued == \A t \in Threads : pc[t] = "waiting" => IsQueued(t)

FirstKeeps ==
  \A t \in Threads :
    pc[t] = "waiting" /\ ~done[t] /\ (hold[<<t, 1>>] \/ hold[<<t, 2>>]) => t = lockq[1]

EntriesApart == \A t \in Threads : EntriesDiffer(req[t])

SeenStuck ==
  \A i \in DOMAIN lockq : (scan = 0 \/ i < scan) /\ ~done[lockq[i]] => Stuck(lockq[i])

WakeInv == WaitersQueued /\ FirstKeeps /\ EntriesApart /\ SeenStuck

(* A thread that lacks a path that is shut after the step is stuck.         *)
LEMMA ShutStuck ==
  ASSUME UNCHANGED treeVars, NEW u, NEW r, r = req'[u], r.op # "forget", NEW i \in {1, 2},
         i = 2 => HasSecond(r), ~hold'[<<u, i>>], Shut(treelock', r, i)
  PROVE  Stuck(u)'
  <1>1. PICK p, nm : p = Ino(r, i) /\ nm = Entry(r, i)
    OBVIOUS
  <1>2. Walk' = Walk /\ parent' = parent /\ LookupNode(p, nm)' = LookupNode(p, nm)
    BY SameTreeFacts
  <1>3. CASE Busy(treelock', Wanted(r, i))
    <2>1. r.op \in WriteOps /\ LookupNode(p, nm) # NoNode /\ treelock'[LookupNode(p, nm)] # 0
      BY <1>1, <1>3 DEF Busy, Wanted
    <2>2. r.op \in WriteOps /\ LookupNode(p, nm)' # NoNode /\ treelock'[LookupNode(p, nm)'] # 0
      BY <1>2, <2>1
    <2> QED
      BY <1>1, <2>2, StuckNext
  <1>4. CASE Blocked(treelock', Ino(r, i))
    <2>1. \E m \in Walk'[p] : m # Root /\ parent'[m] # NoNode /\ treelock'[m] < 0
      BY <1>1, <1>2, <1>4 DEF Blocked, Path, Chain
    <2> QED
      BY <1>1, <2>1, StuckNext
  <1> QED
    BY <1>3, <1>4 DEF Shut

(* While no pass runs, it is enough to look at the threads that sleep after *)
(* the step: they slept before and are as stuck, or they are stuck anew.    *)
Sleeps(u) ==
  \/ /\ pc[u] = "waiting" /\ done'[u] = done[u]
     /\ \A i \in {1, 2} : hold'[<<u, i>>] = hold[<<u, i>>]
     /\ Stuck(u) => Stuck(u)'
  \/ ~hold'[<<u, 1>>] /\ ~hold'[<<u, 2>>] /\ Stuck(u)'

KeepsPlace(u) == IsQueued(u)' /\ (pc[u] = "waiting" /\ u = lockq[1] => u = lockq'[1])

LEMMA SleepStep ==
  ASSUME TreeInv', WakeInv, scan = 0, scan' = 0,
         \A u \in Threads : pc'[u] = "waiting" => Sleeps(u) /\ KeepsPlace(u),
         \A u \in Threads : EntriesDiffer(req'[u])
  PROVE  WakeInv'
  <1>1. WaitersQueued'
    BY DEF WaitersQueued, KeepsPlace
  <1>2. FirstKeeps'
    BY DEF FirstKeeps, WakeInv, KeepsPlace, Sleeps
  <1>3. EntriesApart'
    BY DEF EntriesApart, EntriesDiffer
  <1>4. ASSUME NEW u \in Threads, pc[u] = "waiting", ~done[u]
        PROVE  Stuck(u)
    BY <1>4 DEF WakeInv, WaitersQueued, IsQueued, SeenStuck
  <1>5. ASSUME NEW u \in Threads, pc'[u] = "waiting", ~done'[u]
        PROVE  Stuck(u)'
    BY <1>4, <1>5 DEF Sleeps
  <1>6. \A i \in DOMAIN lockq' : lockq'[i] \in Threads /\ pc'[lockq'[i]] = "waiting"
    BY DEF TreeInv, TypeOK, QueueOK
  <1>7. SeenStuck'
    BY <1>5, <1>6 DEF SeenStuck
  <1> QED
    BY <1>1, <1>2, <1>3, <1>7 DEF WakeInv

(* Joining the queue at its end and leaving it.                             *)
LEMMA SamePlace ==
  ASSUME WakeInv, NEW u \in Threads, pc[u] = "waiting", UNCHANGED lockq
  PROVE  KeepsPlace(u)
  BY DEF WakeInv, WaitersQueued, IsQueued, KeepsPlace

(* Joining the queue moves nobody in it.                                    *)
LEMMA AppendPlace ==
  ASSUME TypeOK, WakeInv, NEW t \in Threads, pc[t] # "waiting", lockq' = Append(lockq, t)
  PROVE  /\ KeepsPlace(t)
         /\ \A u \in Threads : pc[u] = "waiting" => KeepsPlace(u)
  <1>1. /\ lockq \in Seq(Threads) /\ Len(lockq) \in Nat /\ DOMAIN lockq = 1..Len(lockq)
        /\ DOMAIN lockq' = 1..(Len(lockq) + 1) /\ lockq'[Len(lockq) + 1] = t
        /\ \A i \in 1..Len(lockq) : lockq'[i] = lockq[i]
    BY DEF TypeOK
  <1>2. IsQueued(t)'
    BY <1>1 DEF IsQueued
  <1>3. ASSUME NEW u \in Threads, pc[u] = "waiting"
        PROVE  KeepsPlace(u)
    <2>1. PICK i \in 1..Len(lockq) : lockq[i] = u
      BY <1>1, <1>3 DEF WakeInv, WaitersQueued, IsQueued
    <2>2. IsQueued(u)' /\ lockq'[1] = lockq[1]
      BY <1>1, <2>1 DEF IsQueued
    <2> QED
      BY <2>2 DEF KeepsPlace
  <1> QED
    BY <1>2, <1>3 DEF KeepsPlace

(* Who leaves the queue moves the others up, never behind a new first       *)
(* element.                                                                 *)
LEMMA LeavePlace ==
  ASSUME TypeOK, WakeInv, NEW t \in Threads, DequeuePath(t),
         NEW u \in Threads, u # t, pc[u] = "waiting"
  PROVE  KeepsPlace(u)
  <1>1. PICK i \in DOMAIN lockq : lockq[i] = t /\ lockq' = RemoveAt(lockq, i)
    BY DEF DequeuePath
  <1>2. /\ lockq \in Seq(Threads) /\ Len(lockq) \in Nat /\ DOMAIN lockq = 1..Len(lockq)
        /\ lockq' \in Seq(Threads) /\ Len(lockq') = Len(lockq) - 1
        /\ \A j \in 1..(Len(lockq) - 1) : lockq'[j] = IF j < i THEN lockq[j] ELSE lockq[j + 1]
    BY <1>1, RemoveAtFacts DEF TypeOK
  <1>3. PICK j \in 1..Len(lockq) : lockq[j] = u
    BY <1>2 DEF WakeInv, WaitersQueued, IsQueued
  <1>4. DOMAIN lockq' = 1..(Len(lockq) - 1) /\ i \in 1..Len(lockq) /\ j # i
    BY <1>1, <1>2, <1>3
  <1>5. CASE j < i
    <2>1. j \in 1..(Len(lockq) - 1) /\ lockq'[j] = u
      BY <1>2, <1>3, <1>4, <1>5
    <2> QED
      BY <1>1, <1>2, <1>4, <2>1 DEF KeepsPlace, IsQueued
  <1>6. CASE j > i
    <2>1. j - 1 \in 1..(Len(lockq) - 1) /\ lockq'[j - 1] = u
      BY <1>2, <1>3, <1>4, <1>6
    <2>2. u = lockq[1] => u = lockq'[1]
      BY <1>1, <1>2, <1>4, <1>6
    <2> QED
      BY <1>4, <2>1, <2>2 DEF KeepsPlace, IsQueued
  <1> QED
    BY <1>3, <1>4, <1>5, <1>6

(* Steps that neither lock nor move anything.                               *)
LEMMA QuietWake ==
  ASSUME TreeInv, TreeInv', WakeInv, UNCHANGED <<treeVars, lockVars, req>>,
         \A u \in Threads : pc'[u] = "waiting" <=> pc[u] = "waiting"
  PROVE  WakeInv'
  <1>1. /\ TypeOK /\ RequestsOK /\ Acyclic /\ QueueOK
        /\ UNCHANGED <<treelock, lockq, scan, hold, done>> /\ UNCHANGED treeVars /\ req' = req
    BY DEF TreeInv, lockVars
  <1>2. ASSUME NEW u \in Threads, pc[u] = "waiting", Stuck(u)
        PROVE  Stuck(u)'
    BY <1>1, <1>2, StuckStays DEF Tighter
  <1>3. WaitersQueued' /\ FirstKeeps' /\ EntriesApart'
    BY <1>1 DEF WakeInv, WaitersQueued, IsQueued, FirstKeeps, EntriesApart, EntriesDiffer
  <1>4. \A i \in DOMAIN lockq : lockq[i] \in Threads /\ pc[lockq[i]] = "waiting"
    BY <1>1 DEF TypeOK, QueueOK
  <1>5. SeenStuck'
    BY <1>1, <1>2, <1>4 DEF WakeInv, SeenStuck
  <1> QED
    BY <1>3, <1>5 DEF WakeInv

(* An early reply locks and moves nothing.                                  *)
LEMMA ReplyWake ==
  ASSUME TreeInv, TreeInv', WakeInv, NEW t \in Threads, Reply(t)
  PROVE  WakeInv'
  <1>1. \A u \in Threads : pc'[u] = "waiting" <=> pc[u] = "waiting"
    BY DEF Reply, TreeInv, TypeOK
  <1> QED
    BY <1>1, QuietWake DEF Reply

(* free_path starts a pass, so that nothing is claimed until it ends.       *)
LEMMA FreeWake ==
  ASSUME TreeInv, TreeInv', WakeInv, NEW t \in Threads, FreePath(t)
  PROVE  WakeInv'
  <1>1. /\ lockq \in Seq(Threads) /\ pc \in [Threads -> {"idle", "waiting", "locked", "acted", "replied"}]
        /\ req \in [Threads -> Request] /\ TypeOK /\ RequestsOK
    BY DEF TreeInv, TypeOK
  <1>2. /\ pc' = [pc EXCEPT ![t] = "idle"] /\ req' = [req EXCEPT ![t] = NoRequest]
        /\ UNCHANGED <<lockq, done>> /\ scan' = FirstElement
    BY DEF FreePath, Idle
  <1>3. \A u \in Threads \ {t}, i \in {1, 2} : hold'[<<u, i>>] = hold[<<u, i>>]
    BY <1>1, HandlesApart DEF FreePath
  <1>4. WaitersQueued'
    BY <1>1, <1>2 DEF WakeInv, WaitersQueued, IsQueued
  <1>5. FirstKeeps'
    BY <1>1, <1>2, <1>3 DEF WakeInv, FirstKeeps
  <1>6. EntriesApart'
    BY <1>1, <1>2, NoRequestFacts DEF WakeInv, EntriesApart, EntriesDiffer
  <1>7. DOMAIN lockq' = 1..Len(lockq) /\ (Len(lockq) = 0 => DOMAIN lockq' = {})
    BY <1>1, <1>2
  <1>8. (lockq = << >> => DOMAIN lockq' = {}) /\ (lockq # << >> => scan' = 1)
    BY <1>1, <1>2, <1>7 DEF FirstElement
  <1>9. SeenStuck'
    BY <1>1, <1>7, <1>8 DEF SeenStuck
  <1> QED
    BY <1>4, <1>5, <1>6, <1>9 DEF WakeInv

(* A request that arrives: what it locks frees nobody, and when it joins    *)
(* the queue it cannot lock its paths.                                      *)
LEMMA ReceiveWake ==
  ASSUME TreeInv, TreeInv', LockInv, WakeInv, NEW t \in Threads, NEW r, WellFormed(r),
         r.op \notin {"none", "forget"}, Receive(t, r)
  PROVE  WakeInv'
  <1>1. /\ TypeOK /\ RequestsOK /\ TreeOK /\ Acyclic /\ LockAccount /\ ThreadOK(t)
        /\ pc[t] = "idle" /\ KernelMaySend(r) /\ UNCHANGED treeVars /\ scan = 0 /\ scan' = 0
    BY DEF TreeInv, LockInv, Receive
  <1>2. EntriesDiffer(r) /\ r.ino1 \in Nodes /\ r.ino2 \in Nodes \cup {NoNode}
    BY <1>1 DEF KernelMaySend, EntriesDiffer, WellFormed, Request
  <1>3. HasSecond(r) => NoOwnObstacle(r)
    BY <1>1, <1>2, MaySendSeparated, PathsApart
  <1>4. Received(t, r)
    BY <1>1, <1>2, <1>3, GetPathTightens DEF Receive, HasSecond
  <1>5. /\ Tighter(treelock, treelock')
        /\ \A u \in Threads \ {t}, i \in {1, 2} : hold'[<<u, i>>] = hold[<<u, i>>]
        /\ UNCHANGED <<lockq, pc, req, done>> \/ (Granted(t, r) /\ done' = done) \/ Joins(t, r)
    BY <1>4 DEF Received
  <1>6. /\ pc \in [Threads -> {"idle", "waiting", "locked", "acted", "replied"}]
        /\ req \in [Threads -> Request] /\ done \in [Threads -> BOOLEAN]
    BY <1>1 DEF TypeOK
  <1>7. \A u \in Threads \ {t} : pc'[u] = pc[u] /\ req'[u] = req[u] /\ done'[u] = done[u]
    BY <1>5, <1>6 DEF Granted, Joins, Queued
  <1>8. ASSUME NEW u \in Threads, u # t, pc[u] = "waiting"
        PROVE  Sleeps(u) /\ KeepsPlace(u)
    <2>1. Stuck(u) => Stuck(u)'
      BY <1>1, <1>5, <1>7, <1>8, StuckStays
    <2>2. Sleeps(u)
      BY <1>5, <1>7, <1>8, <2>1 DEF Sleeps
    <2>3. KeepsPlace(u)
      BY <1>1, <1>5, <1>8, SamePlace, AppendPlace DEF Granted, Joins, Queued
    <2> QED
      BY <2>2, <2>3
  <1>9. ASSUME pc'[t] = "waiting"
        PROVE  Sleeps(t) /\ KeepsPlace(t)
    <2>1. Joins(t, r)
      BY <1>1, <1>5, <1>6, <1>9 DEF Granted
    <2>2. req'[t] = r /\ KeepsPlace(t)
      BY <1>1, <1>6, <2>1, AppendPlace DEF Joins, Queued
    <2>3. ~hold'[<<t, 1>>] /\ ~hold'[<<t, 2>>]
      BY <1>1, <2>1 DEF Joins, ThreadOK, StageOK
    <2>4. PICK i \in {1, 2} : (i = 2 => HasSecond(r)) /\ Shut(treelock', r, i)
      BY <2>1 DEF Joins, Waiting
    <2>5. ~hold'[<<t, i>>]
      BY <2>3
    <2>6. Stuck(t)'
      BY <1>1, <2>2, <2>4, <2>5, ShutStuck
    <2> QED
      BY <2>2, <2>3, <2>6 DEF Sleeps
  <1>10. \A u \in Threads : EntriesDiffer(req'[u])
    <2>1. req'[t] = req[t] \/ req'[t] = r
      BY <1>5, <1>6 DEF Granted, Joins, Queued
    <2> QED
      BY <1>2, <1>7, <2>1 DEF WakeInv, EntriesApart
  <1> QED
    BY <1>1, <1>7, <1>8, <1>9, <1>10, SleepStep

(* A handler that changes the tree opens no path another one waits for.     *)
LEMMA ActWake ==
  ASSUME TreeInv, TreeInv', LockInv, WakeInv, NEW t \in Threads, Act(t) \/ Hide(t)
  PROVE  WakeInv'
  <1>1. /\ UNCHANGED <<lockq, hold, done>> /\ req' = req /\ scan = 0 /\ scan' = 0
        /\ \A u \in Threads : pc'[u] = "waiting" => pc[u] = "waiting"
    <2>1. UNCHANGED lockVars /\ req' = req /\ scan = 0
      BY ActFacts DEF Act, Hide
    <2>2. \A u \in Threads : pc'[u] = "waiting" => pc[u] = "waiting"
      BY ActStages
    <2> QED
      BY <2>1, <2>2 DEF lockVars
  <1>2. ASSUME NEW u \in Threads, pc'[u] = "waiting"
        PROVE  Sleeps(u) /\ KeepsPlace(u)
    <2>1. Stuck(u) => Stuck(u)'
      BY <1>1, <1>2, ActStuck
    <2> QED
      BY <1>1, <1>2, <2>1, SamePlace DEF Sleeps
  <1>3. \A u \in Threads : EntriesDiffer(req'[u])
    BY <1>1 DEF WakeInv, EntriesApart
  <1> QED
    BY <1>1, <1>2, <1>3, SleepStep

(* A thread whose element is done leaves with its locks.                    *)
LEMMA ResumeWake ==
  ASSUME TreeInv, TreeInv', LockInv, WakeInv, NEW t \in Threads, Resume(t)
  PROVE  WakeInv'
  <1>1. /\ TypeOK /\ RequestsOK /\ Acyclic /\ scan = 0 /\ scan' = 0 /\ DequeuePath(t)
        /\ UNCHANGED treeVars /\ treelock' = treelock /\ done' = [done EXCEPT ![t] = FALSE]
    BY DEF TreeInv, Resume
  <1>2. /\ pc \in [Threads -> {"idle", "waiting", "locked", "acted", "replied"}]
        /\ req \in [Threads -> Request] /\ done \in [Threads -> BOOLEAN]
    BY <1>1 DEF TypeOK
  <1>3. /\ pc'[t] # "waiting" /\ req'[t] \in {req[t], NoRequest}
        /\ \A u \in Threads \ {t} : pc'[u] = pc[u] /\ req'[u] = req[u] /\ done'[u] = done[u]
    BY <1>1, <1>2 DEF Resume, Idle
  <1>4. \A u \in Threads \ {t}, i \in {1, 2} : hold'[<<u, i>>] = hold[<<u, i>>]
    BY <1>1, HandlesApart DEF Resume
  <1>5. ASSUME NEW u \in Threads, pc'[u] = "waiting"
        PROVE  Sleeps(u) /\ KeepsPlace(u)
    <2>1. u # t /\ pc[u] = "waiting" /\ req'[u] = req[u]
      BY <1>3, <1>5
    <2>2. Stuck(u) => Stuck(u)'
      BY <1>1, <1>4, <2>1, StuckStays DEF Tighter
    <2>3. KeepsPlace(u)
      BY <1>1, <2>1, LeavePlace
    <2> QED
      BY <1>3, <1>4, <2>1, <2>2, <2>3 DEF Sleeps
  <1>6. \A u \in Threads : EntriesDiffer(req'[u])
    BY <1>3, NoRequestFacts DEF WakeInv, EntriesApart, EntriesDiffer
  <1> QED
    BY <1>1, <1>5, <1>6, SleepStep

(* A forget that has to wait found its node locked; one that need not wait  *)
(* frees nobody.                                                            *)
LEMMA ReceiveForgetWake ==
  ASSUME TreeInv, TreeInv', LockInv, WakeInv, NEW t \in Threads, ReceiveForget(t)
  PROVE  WakeInv'
  <1>1. PICK n \in Nodes : \E k \in 1..nlookup[n] :
          /\ KernelMayForget(n)
          /\ \/ /\ MustWait(n, k)
                /\ QueuePath(t, [NoRequest EXCEPT !.op = "forget", !.ino1 = n, !.count = k],
                             treelock)
                /\ UNCHANGED treeVars
             \/ /\ ~MustWait(n, k)
                /\ DropLookups(n, k)
                /\ UNCHANGED <<treelock, lockq, hold, wnode, path, done, err, pc, req>>
    BY DEF ReceiveForget
  <1>2. PICK k \in 1..nlookup[n] :
          /\ KernelMayForget(n)
          /\ \/ /\ MustWait(n, k)
                /\ QueuePath(t, [NoRequest EXCEPT !.op = "forget", !.ino1 = n, !.count = k],
                             treelock)
                /\ UNCHANGED treeVars
             \/ /\ ~MustWait(n, k)
                /\ DropLookups(n, k)
                /\ UNCHANGED <<treelock, lockq, hold, wnode, path, done, err, pc, req>>
    BY <1>1
  <1>3. /\ pc[t] = "idle" /\ scan = 0 /\ scan' = 0 /\ ThreadOK(t)
        /\ TypeOK /\ RequestsOK /\ Acyclic /\ \A u \in Threads : EntriesDiffer(req[u])
    BY DEF ReceiveForget, TreeInv, LockInv, WakeInv, EntriesApart
  <1>4. CASE /\ MustWait(n, k)
             /\ QueuePath(t, [NoRequest EXCEPT !.op = "forget", !.ino1 = n, !.count = k],
                          treelock)
             /\ UNCHANGED treeVars
    <2>1. PICK r : r = [NoRequest EXCEPT !.op = "forget", !.ino1 = n, !.count = k]
      OBVIOUS
    <2>2. r.op = "forget" /\ r.ino1 = n
      BY <2>1 DEF NoRequest
    <2>3. /\ treelock' = treelock /\ hold' = hold /\ lockq' = Append(lockq, t)
          /\ done' = [done EXCEPT ![t] = FALSE] /\ pc' = [pc EXCEPT ![t] = "waiting"]
          /\ req' = [req EXCEPT ![t] = r]
      BY <1>4, <2>1 DEF QueuePath
    <2>4. /\ req'[t] = r
          /\ \A u \in Threads \ {t} : pc'[u] = pc[u] /\ req'[u] = req[u] /\ done'[u] = done[u]
      BY <1>3, <2>3 DEF TypeOK
    <2>5. ASSUME NEW u \in Threads, u # t, pc[u] = "waiting"
          PROVE  Sleeps(u) /\ KeepsPlace(u)
      <3>1. Stuck(u) => Stuck(u)'
        BY <1>3, <1>4, <2>3, <2>4, <2>5, StuckStays DEF Tighter
      <3>2. KeepsPlace(u)
        BY <1>3, <2>3, <2>5, AppendPlace
      <3> QED
        BY <2>3, <2>4, <2>5, <3>1, <3>2 DEF Sleeps
    <2>6. Sleeps(t) /\ KeepsPlace(t)
      <3>1. Stuck(t)'
        BY <1>4, <2>2, <2>3, <2>4 DEF Stuck, MustWait
      <3>2. ~hold'[<<t, 1>>] /\ ~hold'[<<t, 2>>]
        BY <1>3, <2>3 DEF ThreadOK, StageOK
      <3> QED
        BY <1>3, <2>3, <3>1, <3>2, AppendPlace DEF Sleeps
    <2>7. \A u \in Threads : EntriesDiffer(req'[u])
      BY <1>3, <2>2, <2>4 DEF EntriesDiffer
    <2> QED
      BY <1>3, <2>4, <2>5, <2>6, <2>7, SleepStep
  <1>5. CASE /\ ~MustWait(n, k) /\ DropLookups(n, k)
             /\ UNCHANGED <<treelock, lockq, hold, wnode, path, done, err, pc, req>>
    <2>1. Forgets(n, k) /\ \A u \in Unanswered : n \notin Pins(req[u])
      BY <1>2, <1>3, <1>5 DEF KernelMayForget, TypeOK, TreeTypeOK, Forgets
    <2>2. ASSUME NEW u \in Threads, pc'[u] = "waiting"
          PROVE  Sleeps(u) /\ KeepsPlace(u)
      <3>1. pc[u] = "waiting" /\ req'[u] = req[u] /\ UNCHANGED <<treelock, hold>>
        BY <1>5, <2>2
      <3>2. Stuck(u) => Stuck(u)'
        BY <2>1, <2>2, <3>1, DropStuck
      <3> QED
        BY <1>5, <3>1, <3>2, SamePlace DEF Sleeps
    <2>3. \A u \in Threads : EntriesDiffer(req'[u])
      BY <1>3, <1>5
    <2> QED
      BY <1>3, <2>2, <2>3, SleepStep
  <1> QED
    BY <1>2, <1>4, <1>5

(* A forget that is signalled finds its node locked again, or leaves and    *)
(* frees nobody's path.                                                     *)
LEMMA ResumeForgetWake ==
  ASSUME TreeInv, TreeInv', LockInv, WakeInv, NEW t \in Threads, ResumeForget(t)
  PROVE  WakeInv'
  <1>1. PICK n, k : n = req[t].ino1 /\ k = req[t].count
    OBVIOUS
  <1>2. /\ pc[t] = "waiting" /\ req[t].op = "forget" /\ scan = 0 /\ scan' = 0
        /\ done' = [done EXCEPT ![t] = FALSE]
        /\ UNCHANGED <<treelock, hold>>
        /\ TypeOK /\ RequestsOK /\ Acyclic /\ ThreadOK(t) /\ StageOK(t)
        /\ \A u \in Threads : EntriesDiffer(req[u])
    BY DEF ResumeForget, TreeInv, LockInv, ThreadOK, WakeInv, EntriesApart
  <1>3. /\ n \in Nodes \ {Root} /\ k \in Nat /\ k <= nlookup[n]
    BY <1>1, <1>2 DEF TreeInv, TypeOK, Request, RequestsOK, WellFormed, ForgetsOK
  <1>4. ~hold'[<<t, 1>>] /\ ~hold'[<<t, 2>>]
    BY <1>2 DEF StageOK
  <1>5. \A u \in Threads \ {t} : done'[u] = done[u]
    BY <1>2 DEF TypeOK
  <1>6. CASE MustWait(n, k) /\ UNCHANGED <<treeVars, lockq, pc, req>>
    <2>1. ASSUME NEW u \in Threads \ {t}, pc'[u] = "waiting"
          PROVE  Sleeps(u)
      <3>1. Stuck(u) => Stuck(u)'
        BY <1>2, <1>6, <2>1, StuckStays DEF Tighter
      <3> QED
        BY <1>2, <1>5, <1>6, <2>1, <3>1 DEF Sleeps
    <2>2. Sleeps(t)
      <3>1. Stuck(t)'
        BY <1>1, <1>2, <1>6 DEF Stuck, MustWait
      <3> QED
        BY <1>4, <3>1 DEF Sleeps
    <2>3. ASSUME NEW u \in Threads, pc'[u] = "waiting"
          PROVE  KeepsPlace(u)
      BY <1>6, <2>3, SamePlace
    <2>4. \A u \in Threads : EntriesDiffer(req'[u])
      BY <1>2, <1>6
    <2> QED
      BY <1>2, <2>1, <2>2, <2>3, <2>4, SleepStep
  <1>7. CASE ~MustWait(n, k) /\ DequeuePath(t) /\ DropLookups(n, k) /\ Idle(t)
    <2>1. Forgets(n, k)
      BY <1>3, <1>7 DEF Forgets
    <2>2. /\ pc'[t] = "idle" /\ req'[t] = NoRequest
          /\ \A u \in Threads \ {t} : pc'[u] = pc[u] /\ req'[u] = req[u]
      BY <1>2, <1>7 DEF Idle, TypeOK
    <2>3. KernelKnows(n) => nlookup[n] > k
      BY <1>1, <1>2, <1>3 DEF KernelKnows, Forgetting
    <2>4. ASSUME NEW u \in Threads, pc'[u] = "waiting"
          PROVE  Sleeps(u) /\ KeepsPlace(u)
      <3>1. u # t /\ pc[u] = "waiting" /\ req'[u] = req[u]
        BY <2>2, <2>4
      <3>2. Stuck(u) => Stuck(u)'
        BY <1>2, <2>1, <2>3, <2>4, <3>1, DropStuck
      <3>3. KeepsPlace(u)
        BY <1>2, <1>7, <3>1, LeavePlace
      <3> QED
        BY <1>2, <1>5, <3>1, <3>2, <3>3 DEF Sleeps
    <2>5. \A u \in Threads : EntriesDiffer(req'[u])
      BY <1>2, <2>2, NoRequestFacts DEF EntriesDiffer
    <2> QED
      BY <1>2, <2>4, <2>5, SleepStep
  <1> QED
    BY <1>1, <1>6, <1>7 DEF ResumeForget

(* One element of a pass.  The elements before it stay stuck, since only    *)
(* the first one of the queue gives a lock back, and nobody is before it.   *)
LEMMA WakeElementWake ==
  ASSUME Benign, TreeInv, TreeInv', LockInv, WakeInv, WakeElement
  PROVE  WakeInv'
  <1>1. /\ TypeOK /\ RequestsOK /\ TreeOK /\ Acyclic /\ LockAccount /\ VictimsOK /\ QueueOK
        /\ RenamesOK /\ \A u \in Threads : ThreadOK(u)
        /\ UNCHANGED treeVars /\ pc' = pc /\ req' = req /\ lockq' = lockq
        /\ scan # 0 /\ scan' = NextElement
    BY DEF TreeInv, LockInv, WakeElement
  <1>2. PICK t \in Threads : /\ t = lockq[scan] /\ pc[t] = "waiting" /\ scan \in DOMAIN lockq
                             /\ IF req[t].op = "forget" THEN WakeForget(t) ELSE WakePath(t)
    BY <1>1, ScanFacts DEF WakeElement, QueueOK
  <1>3. done \in [Threads -> BOOLEAN]
    BY <1>1 DEF TypeOK
  <1>4. /\ t # lockq[1] => Tighter(treelock, treelock')
        /\ \A u \in Threads \ {t} : /\ done'[u] = done[u]
                                    /\ \A i \in {1, 2} : hold'[<<u, i>>] = hold[<<u, i>>]
        /\ ~done'[t] => /\ Stuck(t)'
                        /\ t # lockq[1] => ~hold'[<<t, 1>>] /\ ~hold'[<<t, 2>>]
    <2>1. CASE req[t].op = "forget" /\ WakeForget(t)
      <3>1. treelock' = treelock /\ hold' = hold
            /\ done' = [done EXCEPT ![t] = @ \/ treelock[req[t].ino1] = 0]
        BY <2>1 DEF WakeForget
      <3>2. ~done'[t] => treelock[req[t].ino1] # 0
        BY <1>3, <3>1
      <3>3. \A u \in Threads \ {t} : done'[u] = done[u]
        BY <1>3, <3>1
      <3>4. ~hold'[<<t, 1>>] /\ ~hold'[<<t, 2>>]
        BY <1>1, <2>1, <3>1 DEF ThreadOK, StageOK
      <3>5. ~done'[t] => Stuck(t)'
        BY <1>1, <2>1, <3>1, <3>2 DEF Stuck
      <3> QED
        BY <3>1, <3>3, <3>4, <3>5 DEF Tighter
    <2>2. CASE req[t].op # "forget" /\ WakePath(t)
      <3>1. AtWork(t)
        BY <1>1, <1>2, <2>2 DEF AtWork, VictimsOK
      <3>2. WellFormed(req[t]) /\ EntriesDiffer(req[t])
            /\ (req[t].op = "rename" => Separated(req[t]))
        BY <1>1, <1>2 DEF RequestsOK, RenamesOK, WakeInv, EntriesApart
      <3>3. HasSecond(req[t]) => NoOwnObstacle(req[t])
        BY <3>2, PathsApart
      <3>4. ~done[t] /\ (hold[<<t, 1>>] \/ hold[<<t, 2>>]) => t = lockq[1]
        BY <1>2 DEF WakeInv, FirstKeeps
      <3>5. Passed(t)
        BY <2>2, <3>1, <3>3, <3>4, WakePathPasses
      <3>6. \E e : Answer(t, e) \/ done' = done
        BY <2>2, <3>1, WakePathWork
      <3>7. \A u \in Threads \ {t} : done'[u] = done[u]
        BY <1>3, <3>6 DEF Answer
      <3>8. ~done'[t] => Stuck(t)'
        <4> SUFFICES ASSUME ~done'[t]
                     PROVE  Stuck(t)'
          OBVIOUS
        <4>1. PICK r : r = req[t] /\ r = req'[t] /\ r.op # "forget"
          BY <1>1, <2>2
        <4>2. PICK i \in {1, 2} :
                (i = 2 => HasSecond(r)) /\ ~hold'[<<t, i>>] /\ Shut(treelock', r, i)
          BY <3>5, <4>1 DEF Passed
        <4> QED
          BY <1>1, <4>1, <4>2, ShutStuck
      <3> QED
        BY <3>5, <3>7, <3>8 DEF Passed
    <2> QED
      BY <1>2, <2>1, <2>2
  <1>5. WaitersQueued' /\ EntriesApart'
    BY <1>1 DEF WakeInv, WaitersQueued, IsQueued, EntriesApart, EntriesDiffer
  <1>6. FirstKeeps'
    BY <1>1, <1>4 DEF WakeInv, FirstKeeps
  <1>7. ASSUME NEW i \in DOMAIN lockq, scan' = 0 \/ i < scan', ~done'[lockq[i]]
        PROVE  Stuck(lockq[i])'
    <2>1. DOMAIN lockq = 1..Len(lockq) /\ Len(lockq) \in Nat /\ scan \in 1..Len(lockq)
          /\ i \in 1..Len(lockq)
      BY <1>1, <1>2 DEF TypeOK
    <2>2. i <= scan
      <3>1. CASE scan = Len(lockq)
        BY <2>1, <3>1
      <3>2. CASE scan # Len(lockq)
        <4>1. scan' = scan + 1
          BY <1>1, <3>2 DEF NextElement
        <4> QED
          BY <1>7, <2>1, <4>1
      <3> QED
        BY <3>1, <3>2
    <2>3. CASE i = scan
      <3>1. PICK u \in Threads : u = lockq[i] /\ u = lockq'[i] /\ u = t
        BY <1>1, <1>2, <2>3
      <3>2. Stuck(u)'
        BY <1>4, <1>7, <3>1
      <3> QED
        BY <3>1, <3>2 DEF Stuck, Lacks
    <2>4. CASE i < scan
      <3>1. 1 \in DOMAIN lockq /\ scan # 1 /\ i # scan
        BY <2>1, <2>4
      <3>2. t # lockq[1] /\ lockq[i] # t /\ lockq[i] \in Threads /\ pc[lockq[i]] = "waiting"
        BY <1>1, <1>2, <3>1 DEF QueueOK, TypeOK
      <3>3. ~done[lockq[i]]
        BY <1>4, <1>7, <3>2
      <3>4. Stuck(lockq[i])
        BY <2>4, <3>3 DEF WakeInv, SeenStuck
      <3>5. PICK u \in Threads : u = lockq[i] /\ u = lockq'[i]
        BY <1>1, <3>2
      <3>6. Stuck(u)'
        BY <1>1, <1>4, <3>2, <3>4, <3>5, StuckStays
      <3> QED
        BY <1>1, <3>5, <3>6 DEF Stuck, Lacks
    <2> QED
      BY <2>1, <2>2, <2>3, <2>4
  <1>8. SeenStuck'
    BY <1>1, <1>7 DEF SeenStuck
  <1> QED
    BY <1>5, <1>6, <1>8 DEF WakeInv

(* Nobody waits at the start.                                               *)
LEMMA WakeInvInit == Init => WakeInv
  <1> SUFFICES ASSUME Init
               PROVE  WakeInv
    OBVIOUS
  <1>1. /\ lockq = << >> /\ pc = [t \in Threads |-> "idle"]
        /\ req = [t \in Threads |-> NoRequest]
    BY DEF Init
  <1>2. DOMAIN lockq = {} /\ \A t \in Threads : pc[t] # "waiting" /\ req[t].op = "none"
    BY <1>1, NoRequestFacts
  <1> QED
    BY <1>2 DEF WakeInv, WaitersQueued, FirstKeeps, EntriesApart, EntriesDiffer, SeenStuck

(* Every step of the program keeps it.                                      *)
LEMMA WakeInvNext ==
  ASSUME Benign, TreeInv, TreeInv', LockInv, WakeInv, [Next]_vars
  PROVE  WakeInv'
  <1>1. CASE WakeElement
    BY <1>1, WakeElementWake
  <1>2. ASSUME NEW t \in Threads,
               ReceiveNode(t) \/ ReceiveEntry(t) \/ ReceiveRename(t) \/ ReceiveLink(t)
        PROVE  WakeInv'
    <2>1. PICK r : WellFormed(r) /\ r.op \notin {"none", "forget"} /\ Receive(t, r)
      BY <1>2, AnyReceived
    <2> QED
      BY <2>1, ReceiveWake
  <1>3. ASSUME NEW t \in Threads, ReceiveForget(t)
        PROVE  WakeInv'
    BY <1>3, ReceiveForgetWake
  <1>4. ASSUME NEW t \in Threads, Act(t) \/ Hide(t)
        PROVE  WakeInv'
    BY <1>4, ActWake
  <1>5. ASSUME NEW t \in Threads, Reply(t)
        PROVE  WakeInv'
    BY <1>5, ReplyWake
  <1>6. ASSUME NEW t \in Threads, FreePath(t)
        PROVE  WakeInv'
    BY <1>6, FreeWake
  <1>7. ASSUME NEW t \in Threads, Resume(t)
        PROVE  WakeInv'
    BY <1>7, ResumeWake
  <1>8. ASSUME NEW t \in Threads, ResumeForget(t)
        PROVE  WakeInv'
    BY <1>8, ResumeForgetWake
  <1>9. CASE UNCHANGED vars
    <2>1. UNCHANGED <<treeVars, lockVars, req>> /\ pc' = pc
      BY <1>9 DEF vars
    <2> QED
      BY <2>1, QuietWake
  <1> QED
    BY <1>1, <1>2, <1>3, <1>4, <1>5, <1>6, <1>7, <1>8, <1>9 DEF Next

(* A path that can be locked is not shut, and leads to the root.            *)
LEMMA GotOpen ==
  ASSUME TypeOK, Acyclic, NEW tl, TableOK(tl), NEW r, NEW i, Ino(r, i) \in Nodes,
         NEW o, Got(tl, r, i, o)
  PROVE  ~Shut(tl, r, i) /\ Attached(Ino(r, i))
  <1>1. Wanted(r, i) \in Nodes \cup {NoNode} /\ (Wanted(r, i) \in Nodes => tl[Wanted(r, i)] = 0)
    BY LookupNodeType DEF Wanted, Got
  <1>2. /\ Path(Ino(r, i)) \in SUBSET Nodes
        /\ \A m \in Nodes : m \in Path(Ino(r, i)) => tl[m] >= 0
    BY ChainFacts DEF Path, Got
  <1>3. ~Busy(tl, Wanted(r, i))
    BY <1>1 DEF Busy
  <1>4. ~Blocked(tl, Ino(r, i))
    BY <1>2 DEF Blocked, TableOK
  <1> QED
    BY <1>3, <1>4 DEF Shut, Got

(* Who is stuck could not proceed if it tried: the locks its first path     *)
(* takes do not open its second.                                            *)
LEMMA StuckCannotProceed ==
  ASSUME Benign, TreeInv, LockInv, NEW t \in Threads, pc[t] = "waiting", Stuck(t)
  PROVE  ~CouldProceed(t)
  <1>1. CASE req[t].op = "forget"
    BY <1>1 DEF Stuck, CouldProceed
  <1>2. CASE req[t].op # "forget"
    <2> SUFFICES ASSUME NEW o1 \in TryElement(treelock, t, 1), o1.err = "ok",
                        NEW o2 \in TrySecond(o1.tl, t), o2.err \in {"ok", "none"}
                 PROVE  FALSE
      BY <1>2 DEF CouldProceed
    <2>1. /\ TypeOK /\ RequestsOK /\ Acyclic /\ TreeOK /\ TableOK(treelock)
          /\ AtWork(t) /\ Tried(t, o1, o2)
      BY <1>2 DEF TreeInv, LockInv, VictimsOK, AtWork, Tried, TypeOK, TableOK
    <2>2. PICK i \in {1, 2} :
            Lacks(t, i) /\ (Shut(treelock, req[t], i) \/ ~Attached(Ino(req[t], i)))
      BY <1>2 DEF Stuck
    <2>3. Ino(req[t], i) \in Nodes /\ ~hold[<<t, i>>]
      BY <2>1, <2>2, LackedIno DEF Lacks
    <2>4. Tighter(treelock, o1.tl) /\ TableOK(o1.tl)
      BY <2>1, TriedFirst
    <2>5. CASE i = 1
      <3>1. o1 \in TryPath(treelock, req[t], 1)
        BY <2>1, <2>3, <2>5, TriedFirst
      <3>2. Got(treelock, req[t], 1, o1)
        BY <2>1, <2>3, <2>5, <3>1, TryPathEnds
      <3> QED
        BY <2>1, <2>2, <2>3, <2>5, <3>2, GotOpen
    <2>6. CASE i = 2
      <3>1. o2 \in TryPath(o1.tl, req[t], 2)
        BY <2>1, <2>2, <2>3, <2>6, TriedSecond DEF Lacks
      <3>2. o2.err = "ok"
        BY <2>1, <2>3, <2>4, <2>6, <3>1, TryPathType
      <3>3. Got(o1.tl, req[t], 2, o2)
        BY <2>1, <2>3, <2>4, <2>6, <3>1, <3>2, TryPathEnds
      <3>4. ~Shut(o1.tl, req[t], 2) /\ Attached(Ino(req[t], 2))
        BY <2>1, <2>3, <2>4, <2>6, <3>3, GotOpen
      <3>5. ~Shut(treelock, req[t], 2)
        BY <2>1, <2>3, <2>4, <2>6, <3>4, TighterShuts
      <3> QED
        BY <2>2, <2>6, <3>4, <3>5
    <2> QED
      BY <2>5, <2>6
  <1> QED
    BY <1>1, <1>2

(* Every thread that waits is in the queue, and when no pass runs everyone  *)
(* in the queue who is not done lacks a path that is shut.                  *)
THEOREM WakeInvariant ==
  ASSUME Benign
  PROVE  Spec => [](TreeInv /\ LockInv /\ WakeInv)
  <1>1. Init => TreeInv /\ LockInv /\ WakeInv
    BY TreeInvInit, LockInvInit, WakeInvInit
  <1>2. TreeInv /\ LockInv /\ WakeInv /\ [Next]_vars => (TreeInv /\ LockInv /\ WakeInv)'
    BY TreeInvNext, LockInvNext, WakeInvNext
  <1> QED
    BY <1>1, <1>2, PTL DEF Spec

(* No wake-up is lost: a request that sleeps on its element's condition     *)
(* while fuse->lock is free could not lock its paths if it looked, and the  *)
(* node a forget waits for is locked, so that every thread wait_path or     *)
(* forget_node left asleep is woken by a wake_up_queued still to come.      *)
THEOREM NoWakeupIsLost ==
  ASSUME Benign
  PROVE  Spec => []NoLostWakeup
  <1>1. TreeInv /\ LockInv /\ WakeInv => NoLostWakeup
    <2> SUFFICES ASSUME TreeInv, LockInv, WakeInv, scan = 0,
                        NEW t \in Threads, pc[t] = "waiting", ~done[t]
                 PROVE  ~CouldProceed(t)
      BY DEF NoLostWakeup
    <2>1. Stuck(t)
      BY DEF WakeInv, WaitersQueued, IsQueued, SeenStuck
    <2> QED
      BY <2>1, StuckCannotProceed
  <1> QED
    BY <1>1, WakeInvariant, PTL

=============================================================================
