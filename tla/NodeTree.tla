------------------------------ MODULE NodeTree ------------------------------
(***************************************************************************)
(* The tree of `struct node` that lib/fuse.c keeps for one mount: which    *)
(* node hangs under which parent and by what name (name_table), and how    *)
(* many lookups the kernel holds on each node (nlookup).                   *)
(*                                                                         *)
(* refctr is not a variable: a node is referenced by its lookups and by    *)
(* its children, so it is alive exactly while some node below it (or       *)
(* itself) is looked up.  Alive states that, and Forget deletes every node *)
(* that stops being alive, which is what the chain of unref_node and       *)
(* delete_node calls amounts to.                                           *)
(*                                                                         *)
(* Walk follows the parent pointers as a recursive function, which has a  *)
(* value as long as they form no cycle; Acyclic states that, and facts     *)
(* about Walk follow from it without induction.                            *)
(***************************************************************************)
EXTENDS Integers, FiniteSets

CONSTANTS
  Nodes,     (* node identities; ids that are not alive are free for reuse *)
  Root,      (* FUSE_ROOT_ID                                               *)
  NoNode,    (* the NULL node                                              *)
  Names,     (* the entry names the kernel uses                            *)
  NoName,    (* the NULL name of a node that is in no directory            *)
  MaxLookup  (* bound of the model on nlookup                              *)

ASSUME NodeTreeAssumption ==
  /\ Root \in Nodes
  /\ NoNode \notin Nodes
  /\ NoName \notin Names \cup Nodes
  /\ Names \cap Nodes = {}
  /\ MaxLookup \in Nat \ {0}

VARIABLES
  parent,    (* node->parent                                               *)
  name,      (* node->name                                                 *)
  nlookup    (* node->nlookup                                              *)

treeVars == <<parent, name, nlookup>>

(* ".fuse_hidden<nodeid><hidectr>": a name nobody else has, so that the    *)
(* node itself can stand for it.                                           *)
HiddenName(n) == n

TreeTypeOK ==
  /\ parent \in [Nodes -> Nodes \cup {NoNode}]
  /\ name \in [Nodes -> Names \cup Nodes \cup {NoName}]
  /\ nlookup \in [Nodes -> Nat]

-----------------------------------------------------------------------------
(* Walking up.  A set of nodes is closed when it holds the parent of each  *)
(* of its members.  The walk of a node ends where a parent is NULL, so the *)
(* pointers form no cycle when every closed set holds such a node.         *)
Closed(S) == \A m \in S : parent[m] # NoNode => parent[m] \in S

Acyclic ==
  \A S \in SUBSET Nodes :
    S # {} /\ Closed(S) => \E m \in S : parent[m] = NoNode

(* What a walk from n along node->parent visits, n and the root included.  *)
Walk[n \in Nodes] ==
  {n} \cup IF parent[n] = NoNode THEN {} ELSE Walk[parent[n]]

Chain(n) == Walk[n]

Path(n) == Chain(n) \ {Root}

Attached(n) == Root \in Chain(n)

(* The string try_get_path builds, as the names along the walk.            *)
PathNames(n) == [m \in Path(n) |-> name[m]]

(* lookup_node: the child of directory p called nm, if there is one.       *)
IsChild(c, p, nm) == parent[c] = p /\ name[c] = nm

LookupNode(p, nm) ==
  IF \E c \in Nodes : IsChild(c, p, nm)
  THEN CHOOSE c \in Nodes : IsChild(c, p, nm)
  ELSE NoNode

(* A node has a reference while a lookup is held on it or below it.        *)
AliveUnder(lookups, n) == \E c \in Nodes : lookups[c] > 0 /\ n \in Chain(c)

Alive(n) == AliveUnder(nlookup, n)

(* The ids next_id may return: any that no node has.                       *)
AnyId == Nodes \ {Root}

Unused == {n \in Nodes : ~Alive(n)}

-----------------------------------------------------------------------------
(* The operations on the tree, each one critical section of f->lock.       *)

(* find_node: count a lookup of the entry, making the node first if the    *)
(* entry has none.                                                         *)
FindNode(p, nm) ==
  LET found == LookupNode(p, nm)
  IN  \E c \in IF found # NoNode THEN {found} ELSE Unused :
        /\ nlookup[c] < MaxLookup
        /\ nlookup' = [nlookup EXCEPT ![c] = @ + 1]
        /\ parent' = [parent EXCEPT ![c] = p]
        /\ name' = [name EXCEPT ![c] = nm]

(* remove_node: take the node off the tree, if the entry has one.          *)
RemoveNode(p, nm) ==
  LET c == LookupNode(p, nm)
  IN  /\ parent' = [m \in Nodes |-> IF m = c THEN NoNode ELSE parent[m]]
      /\ name' = [m \in Nodes |-> IF m = c THEN NoName ELSE name[m]]
      /\ UNCHANGED nlookup

(* hide_node: the backing file of an entry that is still open gets a       *)
(* hidden name in the same directory, and so does its node.                *)
HideNode(p, nm) ==
  LET c == LookupNode(p, nm)
  IN  /\ c # NoNode
      /\ name' = [name EXCEPT ![c] = HiddenName(c)]
      /\ UNCHANGED <<parent, nlookup>>

(* rename_node with hide = 0.  The node at the new entry, if there still   *)
(* is one, leaves the tree; nothing happens when the old entry has no node. *)
RenameNode(p1, nm1, p2, nm2) ==
  LET c == LookupNode(p1, nm1)
      old == IF c = NoNode THEN NoNode ELSE LookupNode(p2, nm2)
  IN  /\ parent' = [m \in Nodes |-> CASE m = c -> p2
                                      [] m = old /\ m # c -> NoNode
                                      [] OTHER -> parent[m]]
      /\ name' = [m \in Nodes |-> CASE m = c -> nm2
                                    [] m = old /\ m # c -> NoName
                                    [] OTHER -> name[m]]
      /\ UNCHANGED nlookup

(* The end of forget_node: give back k lookups and delete whatever is no   *)
(* longer referenced (unref_node, delete_node, unhash_name, unhash_id).    *)
Doomed(n, k) ==
  LET after == [nlookup EXCEPT ![n] = @ - k]
  IN  {m \in Path(n) : ~AliveUnder(after, m)}

DropLookups(n, k) ==
  LET doomed == Doomed(n, k)
  IN  /\ nlookup' = [nlookup EXCEPT ![n] = @ - k]
      /\ parent' = [m \in Nodes |-> IF m \in doomed THEN NoNode ELSE parent[m]]
      /\ name' = [m \in Nodes |-> IF m \in doomed THEN NoName ELSE name[m]]
=============================================================================
