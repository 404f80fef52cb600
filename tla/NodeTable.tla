----------------------------- MODULE NodeTable -----------------------------
(***************************************************************************)
(* How struct fuse finds its nodes (fuse.c): the two hash tables, by id    *)
(* and by parent and name, that grow and shrink one bucket at a time, the  *)
(* node ids that wrap around and are used again under a new generation,    *)
(* and the list of nodes that remember=T keeps after the kernel has        *)
(* forgotten them. NodeTree models what the names and counts mean and who  *)
(* may hold a node; here is how they are stored. Every action is one       *)
(* critical section of f->lock. A chain is modelled by the set of its      *)
(* nodes.                                                                  *)
(***************************************************************************)
EXTENDS Naturals, Sequences, SequencesExt, FiniteSetsExt

CONSTANTS
  MinSize,     \* NODE_TABLE_MIN_SIZE (8192 in the code)
  HashFactor,  \* the factor of id_hash (2654435761 in the code)
  MergeSteps,  \* buckets a removal looks at (8 in the code)
  IdLimit,     \* ids are counted modulo IdLimit (2^32 in the code)
  Names,       \* codes of the names
  NoName,      \* the NULL name
  MaxNodes,    \* bound: nodes at one time, the root included
  MaxLookup,   \* bound: references the kernel holds to a node
  MaxWraps,    \* bound: generations
  Modes,       \* conf.remember: "forget" (0), "remember" (T), "noforget" (-1)
  Piecemeal,   \* modes in which a FORGET may give back some references only
  Behind       \* modes in which names may vanish without the kernel's help

ASSUME NodeTableAssumption ==
  /\ MinSize \in Nat \ {0} /\ MinSize % 4 = 0 /\ HashFactor \in Nat
  /\ MergeSteps \in Nat \ {0}
  /\ Names \subseteq Nat /\ NoName \notin Names /\ MaxLookup \in Nat \ {0} /\ MaxWraps \in Nat
  /\ IdLimit \in Nat /\ MaxNodes \in Nat /\ MaxNodes <= IdLimit - 2
  /\ Modes \subseteq {"forget", "remember", "noforget"}
  /\ Piecemeal \subseteq Modes /\ Behind \subseteq Modes

Root == 1
UnknownIno == IdLimit - 1
Ids == 1 .. IdLimit - 1
None == 0

VARIABLES
  mode,     \* conf.remember
  f,        \* struct fuse: nodes, id_table, name_table, lru_table, ctr, generation
  known,    \* the references the kernel holds
  last,     \* the last id that was given out, with its generation
  aborted   \* an assertion failed, or a node was not found

tableVars == <<mode, f, known, last, aborted>>

-----------------------------------------------------------------------------
(***************************************************************************)
(* One table. split buckets of the lower half have been split: the members *)
(* of bucket b < split whose hash says so are in b + size / 2.             *)
(***************************************************************************)

\* id_hash and name_hash of a name of one letter, before they are taken modulo
\* the size of the table (a power of two in the code, which the wrapping of the
\* product at 2^32 does not show in).
IdHash(id) == id * HashFactor
NameHash(dir, name) == dir * 31 + name

Bucket(t, hash) ==
  LET new == hash % t.size
      old == new % (t.size \div 2)
  IN IF old >= t.split THEN old ELSE new

NewTable(size) == [size |-> size, split |-> 0, use |-> 0,
                   array |-> [b \in 0 .. size - 1 |-> {}]]

\* node_table_resize: twice the size, nothing split.
Resized(t) ==
  [t EXCEPT !.size = 2 * @, !.split = 0,
            !.array = [b \in 0 .. 2 * t.size - 1 |->
                         IF b < t.size THEN t.array[b] ELSE {}]]

\* rehash_id and rehash_name: split one bucket, resize after the last one
\* (unless there is no memory). H gives the hash of each member.
Rehash(t, H, memory) ==
  IF t.split = t.size \div 2 THEN t
  ELSE LET b == t.split
           u == [t EXCEPT !.split = @ + 1]
           move == {m \in t.array[b] : Bucket(u, H[m]) # b}
           v == [u EXCEPT !.array = [c \in DOMAIN u.array |->
                   (u.array[c] \ move) \cup
                   {m \in move : Bucket(u, H[m]) = c}]]
       IN IF v.split = v.size \div 2 /\ memory THEN Resized(v) ELSE v

ReducedUnsplit(t) ==  \* mutant: nothing counts as split in the smaller table
  IF t.size \div 2 < MinSize THEN t
  ELSE [t EXCEPT !.size = t.size \div 2, !.split = 0,
                 !.array = [b \in 0 .. t.size \div 2 - 1 |-> t.array[b]]]

\* node_table_reduce: half the size, everything split.
Reduced(t) ==
  IF t.size \div 2 < MinSize THEN t
  ELSE [t EXCEPT !.size = t.size \div 2, !.split = t.size \div 4,
                 !.array = [b \in 0 .. t.size \div 2 - 1 |-> t.array[b]]]

\* remerge_id and remerge_name: go down from split until an upper bucket that
\* is not empty has been appended to its lower one.
Remerge(t) ==
  LET r == IF t.split = 0 THEN Reduced(t) ELSE t
      half == r.size \div 2
      lowest == IF r.split > MergeSteps THEN r.split - MergeSteps ELSE 0
      full == {b \in lowest .. r.split - 1 : r.array[b + half] # {}}
      b == IF full = {} THEN lowest ELSE Max(full)
      merged == [r.array EXCEPT ![b] = @ \cup r.array[b + half], ![b + half] = {}]
  IN IF r.split = 0 THEN r ELSE [r EXCEPT !.split = b, !.array = merged]

Insert(t, n, H, memory) ==
  LET u == [t EXCEPT !.array[Bucket(t, H[n])] = @ \cup {n}, !.use = @ + 1]
  IN IF u.use >= u.size \div 2 THEN Rehash(u, H, memory) ELSE u

\* Nothing happens to a node that is not in the bucket of its hash.
Delete(t, n, H) ==
  LET b == Bucket(t, H[n])
      u == [t EXCEPT !.array[b] = @ \ {n}, !.use = @ - 1]
  IN IF n \notin t.array[b] THEN t
     ELSE IF u.use < u.size \div 4 THEN Remerge(u) ELSE u

-----------------------------------------------------------------------------
(***************************************************************************)
(* The nodes. s is a value of f.                                           *)
(***************************************************************************)

Live(s) == DOMAIN s.nodes
IdHashes(s) == [n \in Live(s) |-> IdHash(n)]
NameHashes(s) ==
  [n \in Live(s) |-> IF s.nodes[n].name = NoName THEN 0
                     ELSE NameHash(s.nodes[n].parent, s.nodes[n].name)]

\* get_node_nocheck
Found(s, id) == id \in s.id_table.array[Bucket(s.id_table, IdHash(id))]

\* lookup_node: a node of that name in the bucket of the name, or none.
LookupNode(s, dir, name) ==
  LET chain == s.name_table.array[Bucket(s.name_table, NameHash(dir, name))]
      them == {n \in chain : s.nodes[n].parent = dir /\ s.nodes[n].name = name}
  IN IF them = {} THEN None ELSE CHOOSE n \in them : TRUE

\* next_id: count on until the number is no special one and not in use.
Step(s) ==
  Min({k \in 1 .. 2 * IdLimit :
         LET id == (s.ctr + k) % IdLimit
         IN id \notin {0, UnknownIno} /\ ~Found(s, id)})
WithSameGeneration(s) ==  \* mutant: the generation is not counted
  [s EXCEPT !.ctr = (s.ctr + Step(s)) % IdLimit]
WithNextId(s) ==
  [s EXCEPT !.ctr = (s.ctr + Step(s)) % IdLimit,
            !.generation = @ + (s.ctr + Step(s)) \div IdLimit]

\* inc_nlookup
IncLookup(s, n) ==
  [s EXCEPT !.nodes[n].refctr = @ + (IF s.nodes[n].nlookup = 0 THEN 1 ELSE 0),
            !.nodes[n].nlookup = @ + 1]

\* hash_name
HashName(s, n, dir, name, memory) ==
  LET t == [s EXCEPT !.nodes[dir].refctr = @ + 1,
                     !.nodes[n].parent = dir, !.nodes[n].name = name]
  IN [t EXCEPT !.name_table = Insert(@, n, NameHashes(t), memory)]

HashId(s, n, memory) ==
  [s EXCEPT !.id_table = Insert(@, n, IdHashes(s), memory)]

\* remove_node_lru: nothing happens to a node that is not on the list.
RemoveLru(s, n) ==
  LET at == {i \in DOMAIN s.lru_table : s.lru_table[i] = n}
  IN IF at = {} THEN s ELSE [s EXCEPT !.lru_table = RemoveAt(@, Min(at))]

\* The nodes that go when n loses a reference: n, if it was the last one, and
\* then its parent, and so on.
Doomed(s) ==
  LET up[n \in Live(s) \cup {None}] ==
        IF n = None THEN <<>>
        ELSE IF s.nodes[n].refctr > 1 THEN <<>>
        ELSE <<n>> \o up[s.nodes[n].parent]
  IN up

\* The second part of delete_node: off the list, out of the id table, away.
Drop(s, n) ==
  LET t == RemoveLru(s, n)
  IN [t EXCEPT !.id_table = Delete(@, n, IdHashes(t)),
               !.nodes = [m \in Live(t) \ {n} |-> t.nodes[m]]]

\* The first part: the name tables as the nodes of gone leave them.
Unnamed(s, gone) ==
  LET t[i \in 0 .. Len(gone)] ==
        IF i = 0 THEN s.name_table
        ELSE IF s.nodes[gone[i]].name = NoName THEN t[i - 1]
        ELSE Delete(t[i - 1], gone[i], NameHashes(s))
  IN t

\* What is left as the nodes of gone are dropped, the last one first.
Dropped(s, gone) ==
  LET t[i \in 0 .. Len(gone)] ==
        IF i = 0 THEN s ELSE Drop(t[i - 1], gone[Len(gone) + 1 - i])
  IN t

\* unref_node and delete_node: the nodes that go leave the name table from n
\* up, the node above them loses a reference, and they are dropped.
UnrefNode(s, n) ==
  LET gone == Doomed(s)[n]
      k == Len(gone)
      top == IF k = 0 THEN n ELSE s.nodes[gone[k]].parent
      t == [s EXCEPT !.name_table = Unnamed(s, gone)[k]]
      u == IF top = None THEN t ELSE [t EXCEPT !.nodes[top].refctr = @ - 1]
  IN Dropped(u, gone)[k]

\* unhash_name, which gives back the reference to the parent
UnhashName(s, n) ==
  LET dir == s.nodes[n].parent
      t == [s EXCEPT !.name_table = Delete(@, n, NameHashes(s)),
                     !.nodes[n].name = NoName, !.nodes[n].parent = None]
  IN IF s.nodes[n].name = NoName THEN s ELSE UnrefNode(t, dir)

UnlinkNodeAlways(s, n) ==  \* mutant: in every mode
  UnhashName([s EXCEPT !.nodes[n].nlookup = @ - 1], n)

\* unlink_node: in remember mode a name holds a reference.
UnlinkNode(s, n) ==
  UnhashName(IF mode = "forget" THEN s ELSE [s EXCEPT !.nodes[n].nlookup = @ - 1], n)
Unlinkable(s, n) == mode = "forget" \/ s.nodes[n].nlookup > 1

-----------------------------------------------------------------------------

NewNode == [name |-> NoName, parent |-> None, nlookup |-> 0, refctr |-> 0]

\* fuse_new_common: the root, which has a name but is in no name chain
TableInit ==
  /\ mode \in Modes
  /\ LET s == [nodes |-> [n \in {Root} |-> NewNode], ctr |-> 0, generation |-> 0,
               id_table |-> NewTable(MinSize), name_table |-> NewTable(MinSize),
               lru_table |-> <<>>]
     IN f = HashId(IncLookup(s, Root), Root, TRUE)
  /\ known = [id \in Ids |-> IF id = Root THEN 1 ELSE 0]
  /\ last = <<0, Root>>
  /\ aborted = FALSE

\* Directories the kernel names in a request; bound: names two levels deep.
\* After an abort nothing comes.
Dirs == {d \in Live(f) : ~aborted /\ known[d] > 0
                           /\ (d = Root \/ f.nodes[d].parent = Root)}

FindOldListed(n) ==  \* mutant: the node stays on the list
  /\ n # None /\ known[n] < MaxLookup
  /\ f' = IncLookup(f, n)
  /\ known' = [known EXCEPT ![n] = @ + 1]
  /\ UNCHANGED <<mode, last, aborted>>

\* find_node finds the node n; a remembered one leaves the list.
FindOld(n) ==
  LET s == IF mode = "remember" /\ f.nodes[n].nlookup = 1
           THEN RemoveLru(f, n) ELSE f
  IN /\ n # None /\ known[n] < MaxLookup
     /\ f' = IncLookup(s, n)
     /\ known' = [known EXCEPT ![n] = @ + 1]
     /\ UNCHANGED <<mode, last, aborted>>

\* fuse_lib_lookup of "." (an NFS server that comes back with a file handle):
\* any node that still has a name, whether the kernel knows it or not.
FindDot(n) ==
  ~aborted /\ n \in Live(f) /\ f.nodes[n].name # NoName /\ FindOld(n)

\* find_node makes a node.
Created(dir, name, memory) ==
  LET s == WithNextId(f)
      n == s.ctr
      t == [s EXCEPT !.nodes = [m \in Live(s) \cup {n} |->
                                  IF m = n THEN NewNode ELSE s.nodes[m]]]
      u == IF mode = "forget" THEN t ELSE IncLookup(t, n)
  IN IncLookup(HashId(HashName(u, n, dir, name, memory), n, memory), n)

FindNew(dir, name) ==
  /\ LookupNode(f, dir, name) = None
  /\ Cardinality(Live(f)) < MaxNodes
  /\ WithNextId(f).generation <= MaxWraps
  /\ \E memory \in BOOLEAN : f' = Created(dir, name, memory)
  /\ known' = [known EXCEPT ![f'.ctr] = 1]
  /\ last' = <<f'.generation, f'.ctr>>
  /\ UNCHANGED <<mode, aborted>>

\* There is no memory for the node, or none for its name: then its id is lost.
FindFails(dir, name) ==
  /\ LookupNode(f, dir, name) = None
  /\ Cardinality(Live(f)) < MaxNodes
  /\ WithNextId(f).generation <= MaxWraps
  /\ f' = WithNextId(f)
  /\ UNCHANGED <<mode, known, last, aborted>>

\* forget_node; what is left in remember mode goes on the list.
Forget(n, count) ==
  /\ ~aborted /\ n # Root /\ count \in 1 .. known[n]
  /\ mode \in Piecemeal \/ count = known[n]
  /\ known' = [known EXCEPT ![n] = @ - count]
  /\ IF ~Found(f, n) \/ f.nodes[n].nlookup < count
     THEN aborted' = TRUE /\ UNCHANGED f
     ELSE /\ LET s == [f EXCEPT !.nodes[n].nlookup = @ - count]
             IN f' = IF s.nodes[n].nlookup = 0 THEN UnrefNode(s, n)
                     ELSE IF mode = "remember" /\ s.nodes[n].nlookup = 1
                     THEN [RemoveLru(s, n) EXCEPT !.lru_table = Append(@, n)]
                     ELSE s
          /\ UNCHANGED aborted
  /\ UNCHANGED <<mode, last>>

\* The kernel removes names, and renames over names, it has looked up.
Seen(n) == known[n] > 0 \/ mode \in Behind

\* remove_node
RemoveName(dir, name) ==
  LET n == LookupNode(f, dir, name)
  IN /\ n # None /\ Seen(n)
     /\ IF Unlinkable(f, n) THEN f' = UnlinkNode(f, n) /\ UNCHANGED aborted
                            ELSE aborted' = TRUE /\ UNCHANGED f
     /\ UNCHANGED <<mode, known, last>>

\* rename_node
Rename(olddir, oldname, newdir, newname) ==
  LET n == LookupNode(f, olddir, oldname)
      old == LookupNode(f, newdir, newname)
      s == IF old = None THEN f ELSE UnlinkNode(f, old)
  IN /\ n # None /\ known[n] > 0 /\ n # old /\ n # newdir
     /\ newdir = Root \/ \A m \in Live(f) : f.nodes[m].parent # n
     /\ old # None => Seen(old)
     /\ IF old = None \/ Unlinkable(f, old)
        THEN /\ \E memory \in BOOLEAN :
                  f' = HashName(UnhashName(s, n), n, newdir, newname, memory)
             /\ UNCHANGED aborted
        ELSE aborted' = TRUE /\ UNCHANGED f
     /\ UNCHANGED <<mode, known, last>>

\* fuse_clean_cache: of the nodes on the list, oldest first, those whose time
\* is over go, except those with entries below them.
Prune(s, n) ==
  IF s.nodes[n].refctr > 1 THEN s
  ELSE UnrefNode(UnhashName([s EXCEPT !.nodes[n].nlookup = 0], n), n)
Pruned(s) ==
  LET t[i \in 0 .. Len(s.lru_table)] ==
        IF i = 0 THEN s ELSE Prune(t[i - 1], s.lru_table[i])
  IN t
Clean(count) ==
  /\ ~aborted /\ mode = "remember" /\ count \in 1 .. Len(f.lru_table)
  /\ IF \A i \in 1 .. count : f.nodes[f.lru_table[i]].nlookup = 1
     THEN f' = Pruned(f)[count] /\ UNCHANGED aborted
     ELSE aborted' = TRUE /\ UNCHANGED f
  /\ UNCHANGED <<mode, known, last>>

TableNext ==
  \/ \E d \in Dirs, a \in Names : FindOld(LookupNode(f, d, a))
  \/ \E n \in Ids : FindDot(n)
  \/ \E d \in Dirs, a \in Names : FindNew(d, a)
  \/ \E d \in Dirs, a \in Names : FindFails(d, a)
  \/ \E d \in Dirs, a \in Names : RemoveName(d, a)
  \/ \E d, e \in Dirs, a, b \in Names : Rename(d, a, e, b)
  \/ \E n \in Ids, c \in 1 .. MaxLookup : Forget(n, c)
  \/ \E c \in 1 .. MaxNodes : Clean(c)

TableSpec == TableInit /\ [][TableNext]_tableVars

-----------------------------------------------------------------------------

TableOK(t) ==
  /\ t.size \in Nat /\ t.split \in 0 .. t.size \div 2 /\ t.use \in Nat
  /\ t.array \in [0 .. t.size - 1 -> SUBSET Ids]

TableTypeOK ==
  /\ mode \in Modes /\ aborted \in BOOLEAN
  /\ TableOK(f.id_table) /\ TableOK(f.name_table)
  /\ f.lru_table \in Seq(Live(f)) /\ Live(f) \subseteq Ids
  /\ f.ctr \in 0 .. IdLimit - 1 /\ f.generation \in 0 .. MaxWraps
  /\ known \in [Ids -> 0 .. MaxLookup]

\* A table holds exactly the given nodes, each in the bucket its hash selects.
Holds(t, S, H) ==
  /\ t.use = Cardinality(S)
  /\ \A b \in DOMAIN t.array : t.array[b] = {n \in S : Bucket(t, H[n]) = b}

\* Whatever sequence of insertions and removals split, merged, doubled and
\* halved the tables, a lookup finds every node, by id and by name, and no
\* node that is gone (id_hash and name_hash against rehash_*, remerge_*).
EveryNodeFound ==
  /\ Holds(f.id_table, Live(f), IdHashes(f))
  /\ Holds(f.name_table, {n \in Live(f) : f.nodes[n].name # NoName}, NameHashes(f))

\* A node the kernel holds is there: get_node never aborts, no count falls
\* below what is given back, and neither a cleaned cache nor a cascade of
\* unref_node takes it away.
KernelNodesStay ==
  /\ ~aborted
  /\ \A n \in Ids : known[n] > 0 => n \in Live(f)

\* The list of remember mode holds each node once, only nodes the kernel does
\* not know, and every named one of those: cleaning takes what is unused, and
\* what is unused gets cleaned.
LruIsUnused ==
  LET unused == {n \in Live(f) : known[n] = 0 /\ f.nodes[n].nlookup > 0}
  IN mode = "remember" => /\ ToSet(f.lru_table) = unused
                          /\ Len(f.lru_table) = Cardinality(unused)

\* A node id comes back only under a later generation (next_id skips what is
\* in use and counts the generation when it wraps), so that the kernel and
\* NFS can tell a new file from an old one.
IdsNeverReturn ==
  [][last' # last => \/ last'[1] > last[1]
                     \/ last'[1] = last[1] /\ last'[2] > last[2]]_tableVars
=============================================================================
