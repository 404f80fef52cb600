---------------------------- MODULE FsStack_proofs ----------------------------
(* What holds of every stack of modules, however high, whatever the file    *)
(* system at the bottom can do.                                             *)
EXTENDS FsStack, FiniteSetTheorems, SequenceTheorems, WellFoundedInduction, TLAPS

-----------------------------------------------------------------------------
(* Induction, and the concatenation of many sequences.                      *)

(* A set of numbers that is not empty has a least element.                  *)
LEMMA LeastNumber ==
  ASSUME NEW T, T \subseteq Nat, T # {}
  PROVE  \E x \in T : \A y \in T : x <= y
  <1> DEFINE R == OpToRel(<, Nat)
  <1>1. \E x \in T : \A y \in T : ~(<<y, x>> \in R)
    BY NatLessThanWellFounded, WFMin
  <1>2. PICK x \in T : \A y \in T : ~(<<y, x>> \in R)
    BY <1>1
  <1>3. ASSUME NEW y \in T, y < x
        PROVE  FALSE
    <2>1. <<y, x>> \in R
      BY <1>3 DEF OpToRel
    <2> QED
      BY <1>2, <2>1
  <1> HIDE DEF R
  <1>4. \A y \in T : ~(y < x)
    BY <1>3
  <1> QED
    BY <1>2, <1>4

(* Induction, about a set of numbers in the place of a property of them.    *)
LEMMA NumbersInduction ==
  ASSUME NEW S, 0 \in S, \A n \in Nat : n \in S => n + 1 \in S
  PROVE  Nat \subseteq S
  <1> SUFFICES ASSUME Nat \ S # {}
               PROVE  FALSE
    OBVIOUS
  <1>1. PICK x \in Nat \ S : \A y \in Nat \ S : x <= y
    BY LeastNumber
  <1>2. x # 0 /\ x - 1 \in Nat
    BY <1>1
  <1>3. x - 1 \in S
    BY <1>1, <1>2
  <1> QED
    BY <1>1, <1>2, <1>3

(* Concatenation is associative.                                            *)
LEMMA Regroup ==
  ASSUME NEW S, NEW a \in Seq(S), NEW b \in Seq(S), NEW c \in Seq(S)
  PROVE  a \o (b \o c) = (a \o b) \o c
  BY ConcatAssociative

(* f holds the concatenations of the first 1, 2, ..., m sequences of s.     *)
Follows(f, s, m) == \A i \in 1..m : f[i] = IF i = 1 THEN s[i] ELSE f[i - 1] \o s[i]
Flattens(f, s, m, X) == f \in [1..m -> Seq(X)] /\ Follows(f, s, m)

(* One sequence more can always be appended.                                *)
LEMMA FlattensExtends ==
  ASSUME NEW X, NEW n \in Nat, NEW s \in [1..n -> Seq(X)], NEW m \in Nat, m + 1 <= n,
         NEW f, Flattens(f, s, m, X)
  PROVE  \E g : Flattens(g, s, m + 1, X)
  <1> DEFINE last == IF m = 0 THEN s[1] ELSE f[m] \o s[m + 1]
             g == [i \in 1..(m + 1) |-> IF i <= m THEN f[i] ELSE last]
  <1>1. last \in Seq(X)
    <2>1. CASE m = 0
      BY <2>1
    <2>2. CASE m # 0
      <3>1. f[m] \in Seq(X) /\ s[m + 1] \in Seq(X)
        BY <2>2 DEF Flattens, Follows
      <3> QED
        BY <2>2, <3>1, ConcatProperties
    <2> QED
      BY <2>1, <2>2
  <1>2. g \in [1..(m + 1) -> Seq(X)]
    BY <1>1 DEF Flattens, Follows
  <1>3. ASSUME NEW i \in 1..(m + 1)
        PROVE  g[i] = IF i = 1 THEN s[i] ELSE g[i - 1] \o s[i]
    <2>1. CASE i <= m
      <3>1. i \in 1..m /\ g[i] = f[i] /\ (i # 1 => g[i - 1] = f[i - 1])
        BY <2>1
      <3> QED
        BY <3>1 DEF Flattens, Follows
    <2>2. CASE i = m + 1
      <3>1. g[i] = last /\ (i # 1 => g[i - 1] = f[m])
        BY <2>2
      <3> QED
        BY <2>2, <3>1
    <2> QED
      BY <2>1, <2>2
  <1> QED
    BY <1>2, <1>3 DEF Flattens, Follows

(* So the concatenations exist for a sequence of any length.                *)
LEMMA FlattensExists ==
  ASSUME NEW X, NEW n \in Nat, NEW s \in [1..n -> Seq(X)]
  PROVE  \E f : Flattens(f, s, n, X)
  <1> DEFINE S == {m \in Nat : m <= n => \E f : Flattens(f, s, m, X)}
  <1>1. 0 \in S
    <2>1. Flattens([i \in 1..0 |-> <<>>], s, 0, X)
      BY DEF Flattens, Follows
    <2> QED
      BY <2>1
  <1>2. ASSUME NEW m \in Nat, m \in S
        PROVE  m + 1 \in S
    <2> SUFFICES ASSUME m + 1 <= n
                 PROVE  \E f : Flattens(f, s, m + 1, X)
      OBVIOUS
    <2>1. PICK f : Flattens(f, s, m, X)
      BY <1>2
    <2> QED
      BY <2>1, FlattensExtends
  <1>3. Nat \subseteq S
    <2> HIDE DEF S
    <2> QED
      BY <1>1, <1>2, NumbersInduction
  <1> QED
    BY <1>3

(* And there is only one way to concatenate: on equal sequences.            *)
LEMMA FollowsUnique ==
  ASSUME NEW n \in Nat, NEW m \in Nat, NEW s, NEW t, NEW f, NEW g,
         Follows(f, s, n), Follows(g, t, m), m <= n,
         \A i \in 1..m : s[i] = t[i]
  PROVE  \A i \in 1..m : f[i] = g[i]
  <1> DEFINE S == {i \in Nat : i \in 1..m => f[i] = g[i]}
  <1>1. 0 \in S
    OBVIOUS
  <1>2. ASSUME NEW i \in Nat, i \in S
        PROVE  i + 1 \in S
    <2> SUFFICES ASSUME i + 1 \in 1..m
                 PROVE  f[i + 1] = g[i + 1]
      OBVIOUS
    <2>0. i + 1 \in 1..n /\ s[i + 1] = t[i + 1]
      OBVIOUS
    <2>1. CASE i = 0
      BY <2>0, <2>1 DEF Follows
    <2>2. CASE i # 0
      <3>1. f[i] = g[i]
        BY <1>2, <2>2
      <3>2. f[i + 1] = f[i] \o s[i + 1]
        <4>1. (i + 1) - 1 = i /\ i + 1 # 1
          BY <2>2
        <4> QED
          BY <2>0, <4>1 DEF Follows
      <3>3. g[i + 1] = g[i] \o t[i + 1]
        <4>1. (i + 1) - 1 = i /\ i + 1 # 1
          BY <2>2
        <4> QED
          BY <4>1 DEF Follows
      <3> QED
        BY <2>0, <3>1, <3>2, <3>3
    <2> QED
      BY <2>1, <2>2
  <1>3. Nat \subseteq S
    <2> HIDE DEF S
    <2> QED
      BY <1>1, <1>2, NumbersInduction
  <1> QED
    BY <1>3

(* FlattenSeq of the library is the last of these.                          *)
LEMMA FlattenIsLast ==
  ASSUME NEW X, NEW n \in Nat, n # 0, NEW s \in [1..n -> Seq(X)],
         NEW f, Flattens(f, s, n, X)
  PROVE  FlattenSeq(s) = f[n]
  <1> DEFINE Eqn(g) == g = [i \in 1..n |-> IF i = 1 THEN s[i] ELSE g[i - 1] \o s[i]]
  <1>1. s \in Seq(Seq(X)) /\ Len(s) = n
    OBVIOUS
  <1>2. Eqn(f)
    BY DEF Flattens, Follows
  <1>3. FlattenSeq(s) = (CHOOSE g : Eqn(g))[n]
    BY <1>1 DEF FlattenSeq
  <1> DEFINE h == CHOOSE g : Eqn(g)
  <1>4. Eqn(h)
    <2> HIDE DEF Eqn
    <2> QED
      BY <1>2
  <1>5. FlattenSeq(s) = h[n]
    BY <1>3
  <1> HIDE DEF h
  <1>6. Follows(h, s, n) /\ Follows(f, s, n)
    BY <1>4 DEF Follows, Flattens
  <1>7. \A i \in 1..n : h[i] = f[i]
    BY <1>6, FollowsUnique
  <1> QED
    BY <1>5, <1>7

(* The concatenation of n sequences is that of the first n - 1, and the     *)
(* last.                                                                    *)
LEMMA FlattenStep ==
  ASSUME NEW X, NEW n \in Nat, n # 0, NEW s \in [1..n -> Seq(X)]
  PROVE  /\ FlattenSeq(s) \in Seq(X)
         /\ FlattenSeq(s) = FlattenSeq([i \in 1..(n - 1) |-> s[i]]) \o s[n]
  <1>1. PICK f : Flattens(f, s, n, X)
    BY FlattensExists
  <1>2. FlattenSeq(s) = f[n]
    BY <1>1, FlattenIsLast
  <1> DEFINE t == [i \in 1..(n - 1) |-> s[i]]
  <1>3. f[n] \in Seq(X)
    BY <1>1 DEF Flattens
  <1>4. CASE n = 1
    <2>1. t = <<>> /\ FlattenSeq(t) = <<>>
      BY <1>4 DEF FlattenSeq
    <2>2. f[n] = s[n] /\ s[n] \in Seq(X)
      BY <1>1, <1>4 DEF Flattens, Follows
    <2> HIDE DEF t
    <2>3. FlattenSeq(t) \o s[n] = s[n]
      BY <2>1, <2>2, ConcatEmptySeq
    <2> QED
      BY <1>2, <1>3, <2>2, <2>3 DEF t
  <1>5. CASE n # 1
    <2> DEFINE g == [i \in 1..(n - 1) |-> f[i]]
    <2>1. n - 1 \in Nat /\ n - 1 # 0 /\ t \in [1..(n - 1) -> Seq(X)]
      BY <1>5
    <2>2. g \in [1..(n - 1) -> Seq(X)]
      BY <1>1 DEF Flattens
    <2>3. ASSUME NEW i \in 1..(n - 1)
          PROVE  g[i] = IF i = 1 THEN t[i] ELSE g[i - 1] \o t[i]
      <3>1. i \in 1..n /\ g[i] = f[i] /\ t[i] = s[i] /\ (i # 1 => g[i - 1] = f[i - 1])
        OBVIOUS
      <3>2. f[i] = IF i = 1 THEN s[i] ELSE f[i - 1] \o s[i]
        BY <1>1, <3>1 DEF Flattens, Follows
      <3> QED
        BY <3>1, <3>2
    <2>4. Flattens(g, t, n - 1, X)
      BY <2>2, <2>3 DEF Flattens, Follows
    <2>5. g[n - 1] = f[n - 1] /\ f[n] = f[n - 1] \o s[n]
      BY <1>1, <2>1 DEF Flattens, Follows
    <2> HIDE DEF t, g
    <2>6. FlattenSeq(t) = g[n - 1]
      BY <2>1, <2>4, FlattenIsLast
    <2> QED
      BY <1>2, <1>3, <2>5, <2>6 DEF t
  <1> QED
    BY <1>4, <1>5

-----------------------------------------------------------------------------
(* The inductive invariant.                                                 *)

Operations == Requests \cup LifeOps
Called == Operations \cup {"read", "write", "utime", "getdir", "none"}
ModuleSet == [kind : Kinds, abs : BOOLEAN, base : Seq(Names), rellinks : BOOLEAN]
OpSets == {ModuleOps.subdir, ModuleOps.iconv}
            \cup UNION {{bottom.ops, bottom.ops \ {"destroy"}} : bottom \in Bottoms}
LayerSet == [kind : Kinds \cup {"fs", "freed"}, ops : OpSets, data : Kinds \cup {"given", "own"},
             module : Bottoms \cup ModuleSet]

LinkSet == [abs : BOOLEAN, up : Int, names : Seq(Names)]
Answers == [error : Outcomes, link : LinkSet \cup {Null}, names : SUBSET Names, short : BOOLEAN]
PathOrNull == Seq(Names) \cup {Null}
Calls == [op : Operations \cup {"none"}, stage : Stages, at : Nat, args : Seq(Seq(PathOrNull)),
          answer : Answers, reached : {<<>>} \cup (Called \X Seq(PathOrNull) \X (LinkSet \cup {Null})),
          confused : {FALSE}]

(* The layers not freed, during fuse_fs_destroy.                            *)
Intact(i) ==
  \/ phase # "gone"
  \/ call.stage \in {"enter", "body", "bottom"}
  \/ call.stage = "back" /\ i >= call.at

ModuleLayer(i) ==
  /\ layers[i].module \in ModuleSet
  /\ layers[i].ops = ModuleOps[layers[i].module.kind]
  /\ layers[i].data = layers[i].module.kind
  /\ layers[i].kind = IF Intact(i) THEN layers[i].module.kind ELSE "freed"

(* The file system at the bottom, and modules above it.                     *)
LayersOK ==
  /\ layers \in Seq(LayerSet) /\ Top >= 1
  /\ System \in Bottoms
  /\ phase # "gone" => layers[1].ops = System.ops
  /\ layers[1].kind = IF Intact(1) THEN "fs" ELSE "freed"
  /\ \A i \in 2..Top : ModuleLayer(i)

(* They are the modules of one stack, and todo the rest of it.              *)
StackOK ==
  \E stack \in Stacks :
    /\ Top - 1 <= Len(stack)
    /\ phase = "new" => todo = SubSeq(stack, Top, Len(stack))
    /\ \A i \in 2..Top : layers[i].module = stack[i - 1]

CountOK == \A k \in Kinds : users[k] = Cardinality({i \in 1..Top : layers[i].kind = k})

NarrowOK ==
  /\ lib \in [nullpath : BOOLEAN, nopath : BOOLEAN] /\ option \in BOOLEAN
  /\ lib.nullpath => System.nullpath
  /\ lib.nopath => System.nopath \/ option

(* A request comes once init was called, destroy is the last call.          *)
PhaseOK ==
  /\ phase \in {"new", "up", "gone"}
  /\ phase = "new" => Idle
  /\ ~Idle => phase = IF call.op = "destroy" THEN "gone" ELSE "up"
  /\ Idle => call = NoCall

Down == call.stage \in {"enter", "body", "bottom"}

(* Where a call is, on its way down or back.                                *)
StageOK ==
  /\ ~Idle => call.op \in Operations /\ Len(call.args) = Top
  /\ call.stage = "enter" => call.at \in 1..Top
  /\ call.stage = "body" => call.at \in 2..Top /\ private = layers[call.at].data
  /\ call.stage = "bottom" => call.at = 1 /\ private = layers[1].data
  /\ call.stage = "back" => call.at \in 1..Top
  /\ call.stage = "done" => call.at = Top + 1
  /\ Down => call.reached = <<>> /\ call.answer = NoAnswer
  /\ call.answer.link # Null => call.reached # <<>> /\ call.op = "readlink"

(* What the handler asked for.                                              *)
AskedOK ==
  ~Idle =>
    /\ call.op \in LifeOps => Asked = <<>>
    /\ (\E j \in DOMAIN Asked : Asked[j] = Null) => lib.nullpath \/ lib.nopath
    /\ call.op \in TwoPaths => \A j \in DOMAIN Asked : Asked[j] # Null
    /\ call.op = "readlink" => DOMAIN Asked = {1} /\ Asked[1] # Null

(* A layer sees no path exactly where the handler gave none.                *)
SameShape(args, asked) ==
  DOMAIN args = DOMAIN asked /\ \A j \in DOMAIN args : args[j] = Null <=> asked[j] = Null

ShapeOK ==
  ~Idle =>
    /\ \A i \in 1..Top :
         (Down /\ i >= call.at) \/ call.reached # <<>> => SameShape(call.args[i], Asked)
    /\ call.reached # <<>> => call.reached[2] = call.args[1]

(* Nothing is wanted of the kernel but during init.                         *)
WantOK ==
  phase = "up" =>
    \/ call.op = "init" /\ call.stage \in {"enter", "body"}
    \/ want \cap CanWant(System.ops) = {}

Inv ==
  /\ todo \in Seq(ModuleSet) /\ users \in [Kinds -> Nat]
  /\ private \in Kinds \cup {"none", "given", "own"}
  /\ call \in Calls
  /\ LayersOK /\ StackOK /\ CountOK /\ NarrowOK /\ PhaseOK /\ StageOK /\ AskedOK /\ ShapeOK /\ WantOK

-----------------------------------------------------------------------------
(* What the definitions say.                                                *)

(* Each module has the operations init and destroy.                         *)
LEMMA ModulesDoAll ==
  ASSUME NEW k \in Kinds
  PROVE  LifeOps \subseteq ModuleOps[k]
  BY DEF Kinds, ModuleOps, SubdirTree, SubdirFiles, SubdirHandles, IconvTree, IconvFiles,
         IconvHandles, LifeOps

(* The fields of a call.                                                    *)
LEMMA CallFields ==
  ASSUME call \in Calls
  PROVE  /\ call.op \in Operations \cup {"none"} /\ call.stage \in Stages /\ call.at \in Nat
         /\ call.args \in Seq(Seq(PathOrNull)) /\ call.answer \in Answers
         /\ call.reached \in {<<>>} \cup (Called \X Seq(PathOrNull) \X (LinkSet \cup {Null}))
         /\ call.confused = FALSE
  BY DEF Calls

(* No call: nothing was reached, nothing answered.                          *)
LEMMA NoCallFacts ==
  /\ NoCall \in Calls /\ NoCall.stage = "none" /\ NoCall.reached = <<>> /\ NoCall.answer = NoAnswer
  /\ NoAnswer \in Answers /\ NoAnswer.error = "none" /\ NoAnswer.link = Null /\ NoAnswer.names = {}
  /\ ~NoAnswer.short
  <1>1. /\ NoAnswer \in Answers /\ NoAnswer.link = Null /\ NoAnswer.error = "none"
        /\ NoAnswer.names = {} /\ ~NoAnswer.short
    BY DEF NoAnswer, Answers, Outcomes
  <1>2. <<>> \in Seq(Seq(PathOrNull))
    BY EmptySeq
  <1> QED
    BY <1>1, <1>2 DEF NoCall, Calls, Stages

(* What a file system can do, before and after its destroy was called.      *)
LEMMA SystemOps ==
  ASSUME NEW bottom \in Bottoms
  PROVE  bottom.ops \in OpSets /\ bottom.ops \ {"destroy"} \in OpSets
  <1>1. {bottom.ops, bottom.ops \ {"destroy"}} \in
          {{b.ops, b.ops \ {"destroy"}} : b \in Bottoms}
    OBVIOUS
  <1> QED
    BY <1>1 DEF OpSets

(* The layers of a stack, one by one.                                       *)
LEMMA LayerFacts ==
  ASSUME LayersOK
  PROVE  /\ Top \in Nat /\ Top >= 1 /\ DOMAIN layers = 1..Top
         /\ \A i \in 1..Top : layers[i] \in LayerSet
         /\ System \in Bottoms
         /\ \A i \in 2..Top : ModuleLayer(i)
  BY LenProperties DEF LayersOK, Top

(* fuse_fs_* is called for the topmost layer.                               *)
LEMMA BeginFacts ==
  ASSUME NEW op \in Operations, NEW args \in Seq(PathOrNull), Top \in Nat, Top >= 1, Begin(op, args)
  PROVE  /\ call' \in Calls
         /\ call'.op = op /\ call'.stage = "enter" /\ call'.at = Top
         /\ Len(call'.args) = Top /\ call'.args[Top] = args
         /\ call'.reached = <<>> /\ call'.answer = NoAnswer
  <1> DEFINE all == [i \in 1..Top |-> IF i = Top THEN args ELSE <<>>]
  <1>1. all \in Seq(Seq(PathOrNull)) /\ Len(all) = Top /\ all[Top] = args
    <2>1. <<>> \in Seq(PathOrNull)
      BY EmptySeq
    <2> QED
      BY <2>1
  <1>2. call' = [NoCall EXCEPT !.op = op, !.stage = "enter", !.at = Top, !.args = all]
    BY DEF Begin
  <1> HIDE DEF all
  <1>3. NoCall = [op |-> "none", stage |-> "none", at |-> 0, args |-> <<>>, answer |-> NoAnswer,
                  reached |-> <<>>, confused |-> FALSE]
    BY DEF NoCall
  <1>4. call' = [op |-> op, stage |-> "enter", at |-> Top, args |-> all, answer |-> NoAnswer,
                 reached |-> <<>>, confused |-> FALSE]
    BY <1>2, <1>3
  <1>5. NoAnswer \in Answers
    BY NoCallFacts
  <1>6. call' \in Calls
    BY <1>1, <1>4, <1>5 DEF Calls, Stages
  <1> QED
    BY <1>1, <1>4, <1>6

-----------------------------------------------------------------------------
(* Every step keeps the invariant.                                          *)

(* fuse_new_common starts with the file system alone.                       *)
LEMMA InitInv ==
  ASSUME Init
  PROVE  Inv
  <1>1. PICK bottom \in Bottoms :
          /\ layers = <<Layer("fs", bottom.ops, "given", bottom)>>
          /\ option \in Options
          /\ lib = [nullpath |-> bottom.nullpath, nopath |-> bottom.nopath \/ option]
    BY DEF Init
  <1>2. Layer("fs", bottom.ops, "given", bottom) \in LayerSet
    <2>1. bottom.ops \in OpSets
      BY SystemOps
    <2> QED
      BY <2>1 DEF Layer, LayerSet
  <1>3. Top = 1 /\ layers[1] = Layer("fs", bottom.ops, "given", bottom) /\ layers \in Seq(LayerSet)
    BY <1>1, <1>2 DEF Top
  <1>4. phase = "new" /\ call = NoCall /\ call.stage = "none" /\ private = "none"
        /\ users = [k \in Kinds |-> 0]
    BY NoCallFacts DEF Init
  <1>5. layers[1].kind = "fs" /\ layers[1].ops = bottom.ops /\ System = bottom
    BY <1>3 DEF Layer, System
  <1>6. LayersOK
    BY <1>3, <1>4, <1>5 DEF LayersOK, Intact
  <1>7. PICK stack \in Stacks : todo = stack
    BY DEF Init
  <1>8. stack \in Seq(ModuleSet)
    BY StackAssumption DEF ModuleSet, Kinds
  <1>9. StackOK
    <2>1. SubSeq(stack, 1, Len(stack)) = stack /\ Len(stack) \in Nat
      BY <1>8, SubSeqFull
    <2> QED
      BY <1>3, <1>7, <2>1 DEF StackOK
  <1>10. CountOK
    <2>1. \A k \in Kinds : {i \in 1..Top : layers[i].kind = k} = {}
      BY <1>3, <1>5 DEF Kinds
    <2> QED
      BY <1>4, <2>1, FS_EmptySet DEF CountOK
  <1>11. NarrowOK
    BY <1>1, <1>5, StackAssumption DEF NarrowOK
  <1>12. PhaseOK /\ StageOK /\ AskedOK /\ ShapeOK /\ WantOK
    BY <1>4, NoCallFacts DEF PhaseOK, StageOK, AskedOK, ShapeOK, WantOK, Idle, Down
  <1>13. users \in [Kinds -> Nat] /\ private \in Kinds \cup {"none", "given", "own"} /\ call \in Calls
    BY <1>4, NoCallFacts
  <1> QED
    BY <1>6, <1>7, <1>8, <1>9, <1>10, <1>11, <1>12, <1>13 DEF Inv

(* The new layer does nothing to those below it.                            *)
LEMMA PushInv ==
  ASSUME Inv, Push
  PROVE  Inv'
  <1> DEFINE m == Head(todo)
             l == IF m.kind = "subdir" THEN SubdirNew(m) ELSE IconvNew(m)
  <1>1. /\ phase = "new" /\ todo # <<>> /\ todo' = Tail(todo) /\ layers' = Append(layers, l)
        /\ users' = [users EXCEPT ![m.kind] = @ + 1] /\ lib' = Narrows(TRUE, TRUE)
        /\ phase' = phase /\ option' = option /\ want' = want /\ private' = private /\ call' = call
    BY DEF Push
  <1>2. m \in ModuleSet /\ todo \in Seq(ModuleSet) /\ Tail(todo) \in Seq(ModuleSet)
    BY <1>1, HeadTailProperties DEF Inv
  <1>3. m.kind \in Kinds
    BY <1>2 DEF ModuleSet
  <1>4. l \in LayerSet /\ l.kind = m.kind /\ l.ops = ModuleOps[m.kind] /\ l.data = m.kind /\ l.module = m
    <2>1. ModuleOps.subdir \in OpSets /\ ModuleOps.iconv \in OpSets
      <3>1. {ModuleOps.subdir, ModuleOps.iconv} \subseteq OpSets
        BY DEF OpSets
      <3> QED
        BY <3>1
    <2>2. CASE m.kind = "subdir"
      <3>1. l = Layer("subdir", ModuleOps.subdir, "subdir", m)
        BY <2>2 DEF SubdirNew
      <3> HIDE DEF l, m
      <3> QED
        BY <1>2, <2>1, <2>2, <3>1 DEF Layer, LayerSet, Kinds
    <2>3. CASE m.kind = "iconv"
      <3>1. l = Layer("iconv", ModuleOps.iconv, "iconv", m)
        BY <2>3 DEF IconvNew
      <3> HIDE DEF l, m
      <3> QED
        BY <1>2, <2>1, <2>3, <3>1 DEF Layer, LayerSet, Kinds
    <2> QED
      BY <1>3, <2>2, <2>3 DEF Kinds
  <1> HIDE DEF l, m
  <1>5. /\ layers' \in Seq(LayerSet) /\ Top \in Nat /\ Top >= 1 /\ Top' = Top + 1
        /\ \A i \in 1..Top : layers'[i] = layers[i]
        /\ layers'[Top + 1] = l
    BY <1>1, <1>4, LayerFacts DEF Inv, LayersOK, Top
  <1>6. \A i \in Nat : Intact(i) /\ Intact(i)'
    BY <1>1 DEF Intact
  <1>7. layers'[1] = layers[1] /\ System' = System
    BY <1>5 DEF System
  <1>8. LayersOK'
    <2>1. ASSUME NEW i \in 2..Top'
          PROVE  ModuleLayer(i)'
      <3>1. CASE i \in 2..Top
        <4>1. layers'[i] = layers[i] /\ ModuleLayer(i)
          BY <1>5, <3>1, LayerFacts DEF Inv
        <4> QED
          BY <1>6, <3>1, <4>1 DEF ModuleLayer
      <3>2. CASE i = Top + 1
        BY <1>2, <1>4, <1>5, <1>6, <3>2 DEF ModuleLayer
      <3> QED
        BY <1>5, <3>1, <3>2
    <2> QED
      BY <1>1, <1>5, <1>6, <1>7, <2>1 DEF Inv, LayersOK
  <1>9. StackOK'
    <2>1. PICK stack \in Stacks :
            /\ Top - 1 <= Len(stack) /\ todo = SubSeq(stack, Top, Len(stack))
            /\ \A i \in 2..Top : layers[i].module = stack[i - 1]
      BY <1>1 DEF Inv, StackOK
    <2>2. stack \in Seq(ModuleSet) /\ Len(stack) \in Nat
      <3>1. stack \in Seq(ModuleSet)
        BY StackAssumption DEF ModuleSet, Kinds
      <3> QED
        BY <3>1, LenProperties
    <2>3. Top <= Len(stack)
      <3> SUFFICES ASSUME Len(stack) < Top
                   PROVE  FALSE
        BY <1>5, <2>2
      <3> QED
        BY <1>1, <1>5, <2>1, <2>2, SubSeqEmpty
    <2>4. m = stack[Top] /\ todo' = SubSeq(stack, Top', Len(stack))
      BY <1>1, <1>5, <2>1, <2>2, <2>3, HeadTailOfSubSeq DEF m
    <2>5. ASSUME NEW i \in 2..Top'
          PROVE  layers'[i].module = stack[i - 1]
      <3>1. CASE i \in 2..Top
        BY <1>5, <2>1, <3>1
      <3>2. CASE i = Top + 1
        BY <1>4, <1>5, <2>4, <3>2
      <3> QED
        BY <1>5, <3>1, <3>2
    <2>6. Top' - 1 <= Len(stack)
      BY <1>5, <2>2, <2>3
    <2> QED
      BY <2>4, <2>5, <2>6 DEF StackOK
  <1>10. CountOK'
    <2> SUFFICES ASSUME NEW k \in Kinds
                 PROVE  users'[k] = Cardinality({i \in 1..Top' : layers'[i].kind = k})
      BY DEF CountOK
    <2> DEFINE S == {i \in 1..Top : layers[i].kind = k}
               S2 == {i \in 1..Top' : layers'[i].kind = k}
    <2>1. IsFiniteSet(S) /\ Top + 1 \notin S /\ users[k] = Cardinality(S) /\ users[k] \in Nat
      <3>1. IsFiniteSet(1..Top)
        <4>1. Top \in Int /\ 1 \in Int
          BY <1>5
        <4> QED
          BY <4>1, FS_Interval
      <3>2. Top + 1 \notin S
        BY <1>5
      <3>3. IsFiniteSet(S)
        <4>1. S \subseteq 1..Top
          OBVIOUS
        <4> QED
          BY <3>1, <4>1, FS_Subset
      <3> QED
        BY <3>2, <3>3 DEF Inv, CountOK
    <2>2. CASE k = m.kind
      <3>1. S2 = S \cup {Top + 1}
        BY <1>4, <1>5, <2>2
      <3>2. users'[k] = users[k] + 1
        BY <1>1, <2>2 DEF Inv
      <3> QED
        BY <2>1, <3>1, <3>2, FS_AddElement
    <2>3. CASE k # m.kind
      <3>1. S2 = S
        BY <1>4, <1>5, <2>3
      <3>2. users'[k] = users[k]
        BY <1>1, <2>3 DEF Inv
      <3> QED
        BY <2>1, <3>1, <3>2
    <2> QED
      BY <2>2, <2>3
  <1>11. NarrowOK'
    BY <1>1, <1>7 DEF Inv, NarrowOK, Narrows
  <1>12. call = NoCall /\ call.stage = "none"
    BY <1>1, NoCallFacts DEF Inv, PhaseOK, Idle
  <1>13. PhaseOK' /\ StageOK' /\ AskedOK' /\ ShapeOK' /\ WantOK'
    BY <1>1, <1>12, NoCallFacts DEF PhaseOK, StageOK, AskedOK, ShapeOK, WantOK, Idle, Down
  <1>14. users' \in [Kinds -> Nat]
    BY <1>1, <1>3 DEF Inv
  <1> QED
    BY <1>1, <1>2, <1>8, <1>9, <1>10, <1>11, <1>13, <1>14 DEF Inv

(* A call that starts: everything but the context is as it was.             *)
LEMMA BeginInv ==
  ASSUME Inv, Idle, NEW op \in Operations, NEW args \in Seq(PathOrNull), Begin(op, args),
         op \in LifeOps => args = <<>>,
         (\E j \in DOMAIN args : args[j] = Null) => lib.nullpath \/ lib.nopath,
         op \in TwoPaths => \A j \in DOMAIN args : args[j] # Null,
         op = "readlink" => DOMAIN args = {1} /\ args[1] # Null,
         Top' = Top, private' = private,
         phase' = IF op = "destroy" THEN "gone" ELSE "up",
         lib' = lib
  PROVE  call' \in Calls /\ PhaseOK' /\ StageOK' /\ AskedOK' /\ ShapeOK'
         /\ call'.op = op /\ call'.stage = "enter"
  <1>1. Top \in Nat /\ Top >= 1
    BY LayerFacts DEF Inv
  <1>2. /\ call' \in Calls
        /\ call'.op = op /\ call'.stage = "enter" /\ call'.at = Top
        /\ Len(call'.args) = Top /\ call'.args[Top] = args
        /\ call'.reached = <<>> /\ call'.answer = NoAnswer
    BY <1>1, BeginFacts
  <1>3. Asked' = args /\ Args' = args
    BY <1>2 DEF Asked, Args
  <1>4. PhaseOK'
    BY <1>2 DEF PhaseOK, Idle
  <1>5. StageOK'
    BY <1>1, <1>2, NoCallFacts DEF StageOK, Idle, Down
  <1>6. AskedOK'
    BY <1>2, <1>3 DEF AskedOK, Idle
  <1>7. ShapeOK'
    <2>1. ASSUME NEW i \in 1..Top, i >= Top
          PROVE  SameShape(call'.args[i], Asked')
      <3>1. i = Top
        BY <1>1, <2>1
      <3> QED
        BY <1>2, <1>3, <3>1 DEF SameShape
    <2> QED
      BY <1>2, <2>1 DEF ShapeOK
  <1> QED
    BY <1>2, <1>4, <1>5, <1>6, <1>7

(* The failing module was never counted, and is not in the stack.           *)
LEMMA PushFailsInv ==
  ASSUME Inv, PushFails
  PROVE  Inv'
  <1>1. /\ phase = "new" /\ Idle /\ todo' = <<>> /\ phase' = "gone"
        /\ layers' = [layers EXCEPT ![1].ops = @ \ {"destroy"}] /\ Begin("destroy", <<>>)
        /\ UNCHANGED <<lib, option, want, users, private>>
    BY DEF PushFails
  <1>2. /\ Top \in Nat /\ Top >= 1 /\ layers \in Seq(LayerSet) /\ System \in Bottoms
        /\ layers[1] \in LayerSet /\ layers[1].ops = System.ops /\ layers[1].kind = "fs"
    BY <1>1, LayerFacts DEF Inv, LayersOK, Intact
  <1> DEFINE l == [layers[1] EXCEPT !.ops = @ \ {"destroy"}]
  <1>3. l \in LayerSet /\ l.module = layers[1].module /\ l.kind = layers[1].kind
    <2>1. layers[1].ops \ {"destroy"} \in OpSets
      BY <1>2, SystemOps
    <2> QED
      BY <1>2, <2>1 DEF LayerSet
  <1> HIDE DEF l
  <1>4. layers' = [layers EXCEPT ![1] = l]
    BY <1>1 DEF l
  <1>5. /\ layers' \in Seq(LayerSet) /\ Top' = Top /\ layers'[1] = l
        /\ \A i \in 2..Top : layers'[i] = layers[i]
    BY <1>2, <1>3, <1>4, ExceptSeq DEF Top
  <1>6. System' = System
    BY <1>3, <1>5 DEF System
  <1>7. /\ call' \in Calls /\ PhaseOK' /\ StageOK' /\ AskedOK' /\ ShapeOK' /\ call'.stage = "enter"
    <2>1. <<>> \in Seq(PathOrNull) /\ DOMAIN <<>> = {} /\ "destroy" \in Operations
      BY EmptySeq DEF Operations, LifeOps
    <2> QED
      BY <1>1, <1>5, <2>1, BeginInv
  <1>8. \A i \in Nat : Intact(i) /\ Intact(i)'
    BY <1>1, <1>7 DEF Intact
  <1>9. LayersOK'
    <2>1. ASSUME NEW i \in 2..Top'
          PROVE  ModuleLayer(i)'
      <3>1. i \in 2..Top /\ layers'[i] = layers[i] /\ ModuleLayer(i)
        BY <1>5, LayerFacts DEF Inv
      <3> QED
        BY <1>8, <3>1 DEF ModuleLayer
    <2> QED
      BY <1>1, <1>2, <1>3, <1>5, <1>6, <1>8, <2>1 DEF LayersOK
  <1>10. StackOK'
    <2>1. PICK stack \in Stacks :
            Top - 1 <= Len(stack) /\ \A i \in 2..Top : layers[i].module = stack[i - 1]
      BY DEF Inv, StackOK
    <2> QED
      BY <1>1, <1>5, <2>1 DEF StackOK
  <1>11. CountOK'
    <2>1. ASSUME NEW k \in Kinds
          PROVE  {i \in 1..Top' : layers'[i].kind = k} = {i \in 1..Top : layers[i].kind = k}
      BY <1>2, <1>3, <1>5
    <2> QED
      BY <1>1, <2>1 DEF Inv, CountOK
  <1>12. NarrowOK' /\ WantOK'
    BY <1>1, <1>6 DEF Inv, NarrowOK, WantOK
  <1>13. todo' \in Seq(ModuleSet)
    BY <1>1, EmptySeq
  <1> QED
    BY <1>1, <1>7, <1>9, <1>10, <1>11, <1>12, <1>13 DEF Inv

(* Steps that leave the layers alone.                                       *)
LEMMA SameLayers ==
  ASSUME Inv, UNCHANGED <<layers, users, lib, option, todo>>,
         phase' # "gone" => phase # "gone", phase' = "new" => phase = "new",
         \A i \in Nat \ {0} : Intact(i)' <=> Intact(i)
  PROVE  /\ todo' \in Seq(ModuleSet) /\ users' \in [Kinds -> Nat]
         /\ LayersOK' /\ StackOK' /\ CountOK' /\ NarrowOK' /\ Top' = Top /\ System' = System
  <1>1. Top' = Top /\ System' = System
    BY DEF Top, System
  <1>2. LayersOK'
    <2>1. ASSUME NEW i \in 2..Top'
          PROVE  ModuleLayer(i)'
      <3>1. i \in Nat \ {0} /\ i \in 2..Top /\ ModuleLayer(i)
        BY <1>1, LayerFacts DEF Inv
      <3>2. Intact(i)' <=> Intact(i)
        BY <3>1
      <3> QED
        BY <3>1, <3>2 DEF ModuleLayer
    <2>2. Intact(1)' <=> Intact(1)
      OBVIOUS
    <2> QED
      BY <1>1, <2>1, <2>2 DEF Inv, LayersOK
  <1>3. StackOK'
    <2>1. PICK stack \in Stacks :
            /\ Top - 1 <= Len(stack)
            /\ phase = "new" => todo = SubSeq(stack, Top, Len(stack))
            /\ \A i \in 2..Top : layers[i].module = stack[i - 1]
      BY DEF Inv, StackOK
    <2> QED
      BY <1>1, <2>1 DEF StackOK
  <1>4. CountOK'
    BY <1>1 DEF Inv, CountOK
  <1>5. NarrowOK'
    BY <1>1 DEF Inv, NarrowOK
  <1> QED
    BY <1>1, <1>2, <1>3, <1>4, <1>5 DEF Inv

(* init is called for the topmost layer.                                    *)
LEMMA StartInv ==
  ASSUME Inv, Start
  PROVE  Inv'
  <1>1. /\ phase = "new" /\ Idle /\ phase' = "up" /\ Begin("init", <<>>)
        /\ UNCHANGED <<todo, layers, lib, option, want, users, private>>
    BY DEF Start
  <1>2. Top' = Top
    BY <1>1 DEF Top
  <1>3. /\ call' \in Calls /\ PhaseOK' /\ StageOK' /\ AskedOK' /\ ShapeOK'
        /\ call'.op = "init" /\ call'.stage = "enter"
    <2>1. <<>> \in Seq(PathOrNull) /\ DOMAIN <<>> = {} /\ "init" \in Operations
          /\ "init" \notin TwoPaths
      BY EmptySeq DEF Operations, LifeOps, TwoPaths
    <2> QED
      BY <1>1, <1>2, <2>1, BeginInv
  <1>4. \A i \in Nat \ {0} : Intact(i)' <=> Intact(i)
    BY <1>1 DEF Intact
  <1>5. WantOK'
    BY <1>3 DEF WantOK
  <1> QED
    BY <1>1, <1>3, <1>4, <1>5, SameLayers DEF Inv

(* destroy is called for the topmost layer.                                 *)
LEMMA StopInv ==
  ASSUME Inv, Stop
  PROVE  Inv'
  <1>1. /\ phase = "up" /\ Idle /\ phase' = "gone" /\ Begin("destroy", <<>>)
        /\ UNCHANGED <<todo, layers, lib, option, want, users, private>>
    BY DEF Stop
  <1>2. Top' = Top
    BY <1>1 DEF Top
  <1>3. /\ call' \in Calls /\ PhaseOK' /\ StageOK' /\ AskedOK' /\ ShapeOK'
        /\ call'.op = "destroy" /\ call'.stage = "enter"
    <2>1. <<>> \in Seq(PathOrNull) /\ DOMAIN <<>> = {} /\ "destroy" \in Operations
          /\ "destroy" \notin TwoPaths
      BY EmptySeq DEF Operations, LifeOps, TwoPaths
    <2> QED
      BY <1>1, <1>2, <2>1, BeginInv
  <1>4. \A i \in Nat \ {0} : Intact(i)' <=> Intact(i)
    BY <1>1, <1>3 DEF Intact
  <1>5. WantOK'
    BY <1>1 DEF WantOK
  <1> QED
    BY <1>1, <1>3, <1>4, <1>5, SameLayers DEF Inv

(* The path is null only where the library may leave it out.                *)
LEMMA RequestInv ==
  ASSUME Inv, Request
  PROVE  Inv'
  <1>1. /\ phase = "up" /\ Idle
        /\ UNCHANGED <<phase, todo, layers, lib, option, want, users, private>>
    BY DEF Request
  <1>2. PICK op \in Requests :
          \/ op \in TwoPaths /\ \E p, q \in Paths : Begin(op, <<p, q>>)
          \/ op \notin TwoPaths /\ \E p \in Paths : Begin(op, <<p>>)
          \/ op \in NullOps /\ (lib.nullpath \/ lib.nopath) /\ Begin(op, <<Null>>)
    BY DEF Request
  <1>3. Paths \subseteq Seq(Names) /\ Null \notin Seq(Names)
    BY StackAssumption
  <1>4. op \notin LifeOps /\ op # "destroy" /\ op # "init" /\ op \in Operations
    BY DEF Requests, NameOps, OpenOps, BufferOps, HandleOps, AttributeOps, XattrOps, DeviceOps,
           LifeOps, Operations
  <1>5. PICK args \in Seq(PathOrNull) :
          /\ Begin(op, args)
          /\ (\E j \in DOMAIN args : args[j] = Null) => lib.nullpath \/ lib.nopath
          /\ op \in TwoPaths => \A j \in DOMAIN args : args[j] # Null
          /\ op = "readlink" => DOMAIN args = {1} /\ args[1] # Null
    <2>1. CASE op \in TwoPaths /\ \E p, q \in Paths : Begin(op, <<p, q>>)
      <3>1. PICK p \in Paths, q \in Paths : Begin(op, <<p, q>>)
        BY <2>1
      <3>3. op # "readlink"
        BY <2>1 DEF TwoPaths
      <3>2. <<p, q>> \in Seq(PathOrNull) /\ \A j \in DOMAIN <<p, q>> : <<p, q>>[j] # Null
        BY <1>3 DEF PathOrNull
      <3> QED
        BY <2>1, <3>1, <3>2, <3>3
    <2>2. CASE op \notin TwoPaths /\ \E p \in Paths : Begin(op, <<p>>)
      <3>1. PICK p \in Paths : Begin(op, <<p>>)
        BY <2>2
      <3>2. <<p>> \in Seq(PathOrNull) /\ DOMAIN <<p>> = {1} /\ \A j \in DOMAIN <<p>> : <<p>>[j] # Null
        BY <1>3 DEF PathOrNull
      <3> QED
        BY <3>1, <3>2
    <2>3. CASE op \in NullOps /\ (lib.nullpath \/ lib.nopath) /\ Begin(op, <<Null>>)
      <3>1. <<Null>> \in Seq(PathOrNull) /\ op \notin TwoPaths /\ op # "readlink"
        BY <2>3 DEF PathOrNull, NullOps, TwoPaths
      <3> QED
        BY <2>3, <3>1
    <2> QED
      BY <1>2, <2>1, <2>2, <2>3
  <1>6. Top' = Top
    BY <1>1 DEF Top
  <1>7. call' \in Calls /\ PhaseOK' /\ StageOK' /\ AskedOK' /\ ShapeOK' /\ call'.op = op
    BY <1>1, <1>4, <1>5, <1>6, BeginInv
  <1>8. \A i \in Nat \ {0} : Intact(i)' <=> Intact(i)
    BY <1>1 DEF Intact
  <1>9. WantOK'
    <2>1. want \cap CanWant(System.ops) = {}
      BY <1>1, NoCallFacts DEF Inv, WantOK, PhaseOK, Idle
    <2>2. System' = System
      BY <1>1 DEF System
    <2> QED
      BY <1>1, <2>1, <2>2 DEF WantOK
  <1> QED
    BY <1>1, <1>7, <1>8, <1>9, SameLayers DEF Inv

(* A wrapper finds the operation, or answers for the layers below.          *)
LEMMA EnterInv ==
  ASSUME Inv, Enter
  PROVE  Inv'
  <1> DEFINE chosen == Chosen(Here.ops, call.op, Args)
             i == call.at
  <1>1. /\ call.stage = "enter" /\ private' = Here.data
        /\ want' = IF call.op = "init" THEN want \ CanWant(Here.ops) ELSE want
        /\ call' = IF chosen # "none"
                   THEN [call EXCEPT !.stage = IF call.at = 1 THEN "bottom" ELSE "body"]
                   ELSE [call EXCEPT !.stage = "back",
                                     !.answer = [NoAnswer EXCEPT !.error = Default(call.op)]]
        /\ UNCHANGED <<phase, todo, layers, lib, option, users>>
    BY DEF Enter
  <1>2. /\ i \in 1..Top /\ Top \in Nat /\ Here = layers[i] /\ layers[i] \in LayerSet
        /\ ~Idle /\ Down /\ call.reached = <<>> /\ call.answer = NoAnswer
        /\ call.op \in Operations /\ Len(call.args) = Top
    BY <1>1, LayerFacts DEF Inv, StageOK, Idle, Down, Here
  <1> DEFINE answer == [NoAnswer EXCEPT !.error = Default(call.op)]
             stage == IF chosen = "none" THEN "back" ELSE IF i = 1 THEN "bottom" ELSE "body"
  <1>3. answer \in Answers /\ answer.link = Null
    <2>1. Default(call.op) \in Outcomes
      BY DEF Default, Outcomes
    <2> QED
      BY <2>1, NoCallFacts DEF Answers
  <1>4. /\ call' \in Calls /\ call'.op = call.op /\ call'.at = i /\ call'.args = call.args
        /\ call'.reached = <<>> /\ call'.stage = stage
        /\ call'.answer = IF chosen = "none" THEN answer ELSE NoAnswer
    <2> HIDE DEF chosen, answer
    <2>1. CASE chosen # "none"
      BY <1>1, <1>2, <2>1 DEF Inv, Calls, Stages
    <2>2. CASE chosen = "none"
      <3>1. call' = [call EXCEPT !.stage = "back", !.answer = answer]
        BY <1>1, <2>2 DEF answer
      <3> QED
        BY <1>2, <1>3, <2>2, <3>1 DEF Inv, Calls, Stages
    <2> QED
      BY <2>1, <2>2
  <1>5. private' = layers[i].data /\ private' \in Kinds \cup {"none", "given", "own"}
    BY <1>1, <1>2 DEF LayerSet
  <1> HIDE DEF answer
  <1>6. Top' = Top /\ System' = System /\ Args' = Args /\ Asked' = Asked
    BY <1>1, <1>4 DEF Top, System, Args, Asked
  <1>7. \A n \in Nat \ {0} : Intact(n)' <=> Intact(n)
    <2>1. ASSUME NEW n \in Nat \ {0}, phase = "gone"
          PROVE  Intact(n)' <=> Intact(n)
      <3>1. Intact(n)
        BY <1>1 DEF Intact
      <3>2. chosen # "none" \/ i = 1
        <4>1. call.op = "destroy"
          BY <1>2, <2>1 DEF Inv, PhaseOK
        <4>2. ASSUME i # 1
              PROVE  "destroy" \in Here.ops
          <5>1. i \in 2..Top
            BY <1>2, <4>2
          <5>2. layers[i].ops = ModuleOps[layers[i].module.kind] /\ layers[i].module.kind \in Kinds
            BY <5>1, LayerFacts DEF Inv, ModuleLayer, ModuleSet
          <5> QED
            BY <1>2, <5>2, ModulesDoAll DEF LifeOps
        <4> QED
          BY <4>1, <4>2 DEF Chosen
      <3> QED
        BY <1>1, <1>2, <1>4, <3>1, <3>2 DEF Intact
    <2> QED
      BY <1>1, <2>1 DEF Intact
  <1>8. PhaseOK'
    BY <1>1, <1>2, <1>4 DEF Inv, PhaseOK, Idle
  <1>9. StageOK'
    <2>1. i # 1 => i \in 2..Top
      BY <1>2
    <2>2. call'.stage \in {"enter", "body", "bottom"} => chosen # "none"
      BY <1>4
    <2>3. layers' = layers
      BY <1>1
    <2>4. stage \in {"back", "bottom", "body"} /\ (stage = "bottom" => i = 1)
      OBVIOUS
    <2> HIDE DEF chosen
    <2> QED
      BY <1>2, <1>3, <1>4, <1>5, <1>6, <2>1, <2>2, <2>3, <2>4, NoCallFacts DEF StageOK, Idle, Down
  <1>10. AskedOK' /\ ShapeOK'
    BY <1>1, <1>2, <1>4, <1>6 DEF Inv, AskedOK, ShapeOK, Idle, Down
  <1>11. WantOK'
    <2> SUFFICES ASSUME phase = "up"
                 PROVE  \/ call'.op = "init" /\ call'.stage \in {"enter", "body"}
                        \/ want' \cap CanWant(System.ops) = {}
      BY <1>1, <1>6 DEF WantOK
    <2>1. CASE call.op # "init"
      BY <1>1, <1>4, <2>1 DEF Inv, WantOK
    <2>2. CASE call.op = "init" /\ i = 1
      <3>1. Here.ops = System.ops
        BY <1>2, <2>2 DEF Inv, LayersOK
      <3> QED
        BY <1>1, <2>2, <3>1
    <2>3. CASE call.op = "init" /\ i # 1
      <3>1. layers[i].ops = ModuleOps[layers[i].module.kind] /\ layers[i].module.kind \in Kinds
        BY <1>2, <2>3, LayerFacts DEF Inv, ModuleLayer, ModuleSet
      <3>2. "init" \in Here.ops
        BY <1>2, <3>1, ModulesDoAll DEF LifeOps
      <3>3. chosen # "none"
        BY <2>3, <3>2 DEF Chosen
      <3> QED
        BY <1>4, <2>3, <3>3
    <2> QED
      BY <2>1, <2>2, <2>3
  <1> QED
    BY <1>1, <1>4, <1>5, <1>7, <1>8, <1>9, <1>10, <1>11, SameLayers DEF Inv

-----------------------------------------------------------------------------
(* What the modules do to paths, links and names.                           *)

(* subdir_addpath puts the base in front; no path stays no path.            *)
LEMMA AddPathFacts ==
  ASSUME NEW module \in ModuleSet, NEW path \in PathOrNull
  PROVE  /\ AddPath(module, path) \in PathOrNull
         /\ AddPath(module, path) = Null <=> path = Null
         /\ path # Null => AddPath(module, path) = module.base \o path
  <1>1. Null \notin Seq(Names)
    BY StackAssumption
  <1>2. CASE path = Null
    BY <1>2 DEF AddPath, PathOrNull
  <1>3. CASE path # Null
    <2>1. path \in Seq(Names) /\ module.base \in Seq(Names)
      BY <1>3 DEF PathOrNull, ModuleSet
    <2>2. module.base \o path \in Seq(Names)
      BY <2>1, ConcatProperties
    <2> QED
      BY <1>1, <1>3, <2>2 DEF AddPath, PathOrNull
  <1> QED
    BY <1>2, <1>3

(* iconv_convpath renames each element; no path stays no path.              *)
LEMMA ConvertFacts ==
  ASSUME NEW path \in PathOrNull, Converts(path)
  PROVE  /\ ConvertPath(path) \in PathOrNull
         /\ ConvertPath(path) = Null <=> path = Null
         /\ path # Null => ConvertPath(path) \in Seq(Names)
                           /\ ConvertPath(path) = [k \in DOMAIN path |-> Encoding[path[k]]]
  <1>1. Null \notin Seq(Names) /\ Encoding \in [DOMAIN Encoding -> Names]
    BY StackAssumption
  <1>2. CASE path = Null
    BY <1>2 DEF ConvertPath, PathOrNull
  <1>3. CASE path # Null
    <2>1. path \in Seq(Names) /\ Len(path) \in Nat /\ DOMAIN path = 1..Len(path)
      BY <1>3, LenProperties DEF PathOrNull
    <2>2. \A k \in 1..Len(path) : path[k] \in DOMAIN Encoding
      BY <1>3, <2>1 DEF Converts, ToSet
    <2>3. [k \in 1..Len(path) |-> Encoding[path[k]]] \in Seq(Names)
      BY <1>1, <2>1, <2>2
    <2> QED
      BY <1>1, <1>3, <2>1, <2>3 DEF ConvertPath, PathOrNull
  <1> QED
    BY <1>2, <1>3

(* A module passes on as many paths as it got.                              *)
LEMMA MappedFacts ==
  ASSUME NEW layer, layer.kind \in Kinds, layer.module \in ModuleSet,
         NEW op, NEW args \in Seq(PathOrNull), ~Refuses(layer, args)
  PROVE  Mapped(layer, op, args) \in Seq(PathOrNull) /\ SameShape(Mapped(layer, op, args), args)
  <1> DEFINE mapped == Mapped(layer, op, args)
  <1>1. /\ Len(args) \in Nat /\ DOMAIN args = 1..Len(args)
        /\ \A j \in 1..Len(args) : args[j] \in PathOrNull
    BY LenProperties, ElementOfSeq
  <1>2. mapped = [j \in 1..Len(args) |-> mapped[j]]
    BY <1>1 DEF Mapped
  <1>3. ASSUME NEW j \in 1..Len(args)
        PROVE  mapped[j] \in PathOrNull /\ (mapped[j] = Null <=> args[j] = Null)
    <2>1. CASE layer.kind = "iconv"
      <3>1. mapped[j] = ConvertPath(args[j]) /\ Converts(args[j])
        BY <1>1, <2>1 DEF Mapped, Refuses
      <3> QED
        BY <1>1, <3>1, ConvertFacts
    <2>2. CASE layer.kind # "iconv" /\ op = "symlink" /\ j = 1
      BY <1>1, <2>2 DEF Mapped
    <2>3. CASE layer.kind # "iconv" /\ ~(op = "symlink" /\ j = 1)
      <3>1. mapped[j] = AddPath(layer.module, args[j])
        BY <1>1, <2>3 DEF Mapped
      <3> QED
        BY <1>1, <3>1, AddPathFacts
    <2> QED
      BY <2>1, <2>2, <2>3
  <1> HIDE DEF mapped
  <1>4. mapped \in Seq(PathOrNull) /\ DOMAIN mapped = 1..Len(args)
    BY <1>1, <1>2, <1>3
  <1> QED
    BY <1>1, <1>3, <1>4 DEF mapped, SameShape

(* What each layer leaves without a path, all layers do.                    *)
LEMMA SameShapeChain ==
  ASSUME NEW a, NEW b, NEW c, SameShape(a, b), SameShape(b, c)
  PROVE  SameShape(a, c)
  BY DEF SameShape

(* strip_common stops at the end of a common prefix.                        *)
LEMMA CommonFacts ==
  ASSUME NEW l \in Seq(Names), NEW path \in Seq(Names)
  PROVE  \E n \in 0..Len(l) :
           /\ IsPrefix(SubSeq(l, 1, n), path)
           /\ ~(n < Len(l) /\ IsPrefix(SubSeq(l, 1, n + 1), path))
           /\ Common(l, path) = IF l = path /\ n > 0 THEN n - 1 ELSE n
  <1> DEFINE P(k) == IsPrefix(SubSeq(l, 1, k), path)
             Q(k) == P(k) /\ ~(k < Len(l) /\ P(k + 1))
             T == {d \in 0..Len(l) : P(Len(l) - d)}
  <1>1. Len(l) \in Nat /\ Len(path) \in Nat
    BY LenProperties
  <1>2. P(0)
    <2>1. SubSeq(l, 1, 0) = <<>> /\ SubSeq(path, 1, 0) = <<>> /\ Len(<<>>) = 0
          /\ SubSeq(<<>>, 1, 0) = <<>>
      BY SubSeqEmpty
    <2> QED
      BY <1>1, <2>1 DEF IsPrefix
  <1>3. T \subseteq Nat /\ Len(l) \in T
    BY <1>1, <1>2
  <1>4. PICK d \in T : \A e \in T : d <= e
    BY <1>3, LeastNumber
  <1>5. Len(l) - d \in 0..Len(l) /\ P(Len(l) - d)
    BY <1>1, <1>4
  <1>6. ASSUME Len(l) - d < Len(l), P(Len(l) - d + 1)
        PROVE  FALSE
    <2>1. d - 1 \in 0..Len(l) /\ Len(l) - (d - 1) = Len(l) - d + 1
      BY <1>1, <1>4, <1>6
    <2>2. d - 1 \in T
      BY <1>6, <2>1
    <2> QED
      BY <1>1, <1>4, <2>1, <2>2
  <1>7. \E k \in 0..Len(l) : Q(k)
    BY <1>5, <1>6
  <1> DEFINE n == CHOOSE k \in 0..Len(l) : Q(k)
  <1>8. n \in 0..Len(l) /\ Q(n)
    <2> HIDE DEF Q
    <2> QED
      BY <1>7
  <1>9. Common(l, path) = IF l = path /\ n > 0 THEN n - 1 ELSE n
    BY DEF Common
  <1> HIDE DEF n
  <1> QED
    BY <1>8, <1>9

(* A link is left alone, or climbs from where it is and descends again.     *)
LEMMA TransformFacts ==
  ASSUME NEW module \in ModuleSet, NEW path \in Seq(Names), NEW link \in LinkSet
  PROVE  Transform(module, path, link) \in LinkSet
  <1> DEFINE n == Common(link.names, path)
  <1>1. link.names \in Seq(Names) /\ Len(path) \in Nat /\ Len(link.names) \in Nat
    <2>1. link.names \in Seq(Names)
      BY DEF LinkSet
    <2> QED
      BY <2>1, LenProperties
  <1>2. n \in 0..Len(link.names)
    BY <1>1, CommonFacts
  <1> HIDE DEF n
  <1>3. SubSeq(link.names, n + 1, Len(link.names)) \in Seq(Names)
    <2>1. \A i \in (n + 1)..Len(link.names) : link.names[i] \in Names
      BY <1>1, <1>2, ElementOfSeq
    <2> QED
      BY <1>1, <1>2, <2>1, SubSeqProperties
  <1>4. Len(path) - n - 1 \in Int
    BY <1>1, <1>2
  <1> QED
    BY <1>3, <1>4 DEF Transform, Relative, LinkSet, n

(* A name that can be decoded is the encoding of its decoded form.          *)
LEMMA DecodedFacts ==
  ASSUME NEW name, Decodes(name)
  PROVE  Decoded(name) \in DOMAIN Encoding /\ Decoded(name) \in Names
         /\ Encoding[Decoded(name)] = name
  <1>1. \E n \in DOMAIN Encoding : Encoding[n] = name
    BY DEF Decodes, Range
  <1>2. Decoded(name) \in DOMAIN Encoding /\ Encoding[Decoded(name)] = name
    BY <1>1 DEF Decoded
  <1> QED
    BY <1>2, StackAssumption

(* A link decoded is a link, and cut off still is one.                      *)
LEMMA DecodedLinkFacts ==
  ASSUME NEW link \in LinkSet, \A i \in DOMAIN link.names : Decodes(link.names[i])
  PROVE  /\ DecodedLink(link) \in LinkSet /\ DecodedLink(link).abs = link.abs
         /\ DecodedLink(link).up = link.up /\ Len(DecodedLink(link).names) \in Nat
         /\ DecodedLink(link).names = [i \in DOMAIN link.names |-> Decoded(link.names[i])]
         /\ \A i \in 0..(Len(DecodedLink(link).names) - 1) :
              [DecodedLink(link) EXCEPT !.names = SubSeq(@, 1, i)] \in LinkSet
  <1> DEFINE names == link.names
             decoded == [i \in DOMAIN names |-> Decoded(names[i])]
             new == DecodedLink(link)
  <1>1. names \in Seq(Names) /\ Len(names) \in Nat /\ DOMAIN names = 1..Len(names)
    <2>1. names \in Seq(Names)
      BY DEF LinkSet
    <2> QED
      BY <2>1, LenProperties
  <1>2. decoded \in Seq(Names)
    <2>1. \A i \in 1..Len(names) : Decoded(names[i]) \in Names
      BY <1>1, DecodedFacts
    <2> QED
      BY <1>1, <2>1
  <1>3. new = [link EXCEPT !.names = decoded]
    BY DEF DecodedLink
  <1> HIDE DEF decoded, new
  <1>4. new \in LinkSet /\ new.abs = link.abs /\ new.up = link.up /\ new.names = decoded
    BY <1>2, <1>3 DEF LinkSet
  <1>5. Len(decoded) \in Nat
    BY <1>2, LenProperties
  <1>6. ASSUME NEW i \in 0..(Len(new.names) - 1)
        PROVE  [new EXCEPT !.names = SubSeq(@, 1, i)] \in LinkSet
    <2>1. \A k \in 1..i : decoded[k] \in Names
      BY <1>2, <1>4, <1>5, ElementOfSeq
    <2>2. SubSeq(decoded, 1, i) \in Seq(Names)
      BY <1>2, <1>4, <1>5, <2>1, SubSeqProperties
    <2> QED
      BY <1>4, <2>2 DEF LinkSet
  <1> QED
    BY <1>4, <1>5, <1>6 DEF new, decoded

(* Whatever a layer makes of an answer is an answer; only a link the file   *)
(* system gave comes back as one.                                           *)
LEMMA PassedFacts ==
  ASSUME NEW layer, layer.kind \in Kinds \cup {"fs"},
         layer.kind \in Kinds => layer.module \in ModuleSet,
         NEW answer \in Answers,
         answer.link # Null /\ layer.kind = "subdir" =>
           Mapped(layer, "readlink", Args)[1] \in Seq(Names),
         NEW passed \in Passed(layer, answer)
  PROVE  /\ passed \in Answers
         /\ answer.link = Null => passed.link = Null /\ passed.error = answer.error
  <1>1. answer.error \in Outcomes /\ answer.link \in LinkSet \cup {Null} /\ answer.names \subseteq Names
        /\ answer.short \in BOOLEAN
    BY DEF Answers
  <1>2. CASE layer.kind = "fs" \/ answer.error # "0"
    BY <1>2 DEF Passed
  <1>3. CASE layer.kind = "subdir" /\ answer.error = "0" /\ answer.link # Null
    <2> DEFINE path == Mapped(layer, "readlink", Args)[1]
    <2>1. passed = [answer EXCEPT !.link = IF layer.module.rellinks
                                           THEN Transform(layer.module, path, @) ELSE @]
      BY <1>3 DEF Passed, LinkBack
    <2>2. answer.link \in LinkSet /\ path \in Seq(Names) /\ layer.module \in ModuleSet
      BY <1>1, <1>3 DEF Kinds
    <2> HIDE DEF path
    <2>3. Transform(layer.module, path, answer.link) \in LinkSet
      BY <2>2, TransformFacts
    <2> QED
      BY <1>1, <1>3, <2>1, <2>2, <2>3 DEF Answers
  <1>4. CASE layer.kind = "iconv" /\ answer.error = "0" /\ answer.link # Null
    <2> DEFINE new == DecodedLink(answer.link)
    <2>1. answer.link \in LinkSet /\ passed \in LinkBack(layer, answer)
      BY <1>1, <1>4 DEF Passed
    <2>2. \/ passed = [NoAnswer EXCEPT !.error = "ENOMEM"]
          \/ passed = [NoAnswer EXCEPT !.error = "EILSEQ"]
          \/ /\ \A i \in DOMAIN answer.link.names : Decodes(answer.link.names[i])
             /\ \/ passed = [answer EXCEPT !.link = new]
                \/ \E i \in 0..(Len(new.names) - 1) :
                     passed = [answer EXCEPT !.link = [new EXCEPT !.names = SubSeq(@, 1, i)],
                                             !.short = TRUE]
      <3> HIDE DEF new
      <3> QED
        BY <1>4, <2>1 DEF LinkBack, new
    <2> HIDE DEF new
    <2>3. CASE \E error \in {"ENOMEM", "EILSEQ"} : passed = [NoAnswer EXCEPT !.error = error]
      BY <1>4, <2>3, NoCallFacts DEF Answers, Outcomes
    <2>4. CASE \A i \in DOMAIN answer.link.names : Decodes(answer.link.names[i])
      <3>1. new \in LinkSet
            /\ \A i \in 0..(Len(new.names) - 1) : [new EXCEPT !.names = SubSeq(@, 1, i)] \in LinkSet
        BY <2>1, <2>4, DecodedLinkFacts DEF new
      <3>2. CASE passed = [answer EXCEPT !.link = new]
        BY <1>1, <1>4, <3>1, <3>2 DEF Answers
      <3>3. ASSUME NEW i \in 0..(Len(new.names) - 1),
                   passed = [answer EXCEPT !.link = [new EXCEPT !.names = SubSeq(@, 1, i)],
                                           !.short = TRUE]
            PROVE  passed \in Answers
        BY <1>1, <3>1, <3>3 DEF Answers
      <3> QED
        BY <1>4, <2>2, <2>3, <3>2, <3>3
    <2> QED
      BY <2>2, <2>3, <2>4
  <1>5. CASE layer.kind \in Kinds /\ answer.error = "0" /\ answer.link = Null
    <2>1. passed \in NamesBack(layer, answer)
      BY <1>5 DEF Passed, Kinds
    <2>2. CASE layer.kind = "subdir"
      BY <1>5, <2>1, <2>2 DEF NamesBack
    <2>3. CASE layer.kind # "subdir"
      <3> DEFINE known == {Decoded(n) : n \in {m \in answer.names : Decodes(m)}}
      <3>1. known \subseteq Names
        BY DecodedFacts
      <3>2. PICK names \in SUBSET known :
              passed = [answer EXCEPT !.names = names, !.short = @ \/ names # known]
        BY <2>1, <2>3 DEF NamesBack
      <3> HIDE DEF known
      <3>3. names \subseteq Names /\ (answer.short \/ names # known) \in BOOLEAN
        BY <3>1, <3>2
      <3> QED
        BY <1>1, <1>5, <3>2, <3>3 DEF Answers
    <2> QED
      BY <2>2, <2>3
  <1> QED
    BY <1>2, <1>3, <1>4, <1>5 DEF Kinds

-----------------------------------------------------------------------------
(* The other steps of a call.                                               *)

(* op.init of the file system replaces its data, and nothing else.          *)
LEMMA BottomInv ==
  ASSUME Inv, Bottom
  PROVE  Inv'
  <1> DEFINE op == Chosen(Here.ops, call.op, Args)
             names == IF op \in {"readdir", "getdir"} THEN Entries ELSE {}
  <1>1. PICK error \in (IF op \in LifeOps THEN {"0"} ELSE {"0", "EIO"}),
             link \in (IF op = "readlink" THEN Links ELSE {Null}) :
           call' = [call EXCEPT !.stage = "back", !.reached = <<op, Args, link>>,
                                !.confused = @ \/ private # Here.data,
                                !.answer = [error |-> error, link |-> link, short |-> FALSE, names |-> names]]
    BY DEF Bottom
  <1>2. /\ call.stage = "bottom"
        /\ layers' = IF op = "init" THEN [layers EXCEPT ![1].data = "own"] ELSE layers
        /\ UNCHANGED <<phase, todo, lib, option, want, users, private>>
    BY DEF Bottom
  <1>3. /\ call.at = 1 /\ Top \in Nat /\ Top >= 1 /\ Here = layers[1] /\ private = layers[1].data
        /\ layers[1] \in LayerSet /\ layers \in Seq(LayerSet) /\ ~Idle /\ Down /\ call.reached = <<>>
        /\ call.op \in Operations /\ Len(call.args) = Top /\ Args = call.args[1]
    BY <1>2, LayerFacts DEF Inv, LayersOK, StageOK, Idle, Down, Here, Args
  <1>4. Args \in Seq(PathOrNull) /\ op \in Called /\ (op = "readlink" => call.op = "readlink")
    <2>1. call.args \in Seq(Seq(PathOrNull))
      BY DEF Inv, Calls
    <2>2. Args \in Seq(PathOrNull)
      BY <1>3, <2>1, ElementOfSeq
    <2>3. "getattr" \in Called /\ "truncate" \in Called
      BY DEF Called, Operations, Requests, AttributeOps
    <2>4. \A o \in DOMAIN Substitute : Substitute[o] \in Called \ {"readlink"}
      BY <2>3 DEF Substitute, Called
    <2>5. call.op \in Called /\ "none" \in Called
      BY <1>3 DEF Called
    <2>6. op = call.op \/ op = "none" \/ \E o \in DOMAIN Substitute : op = Substitute[o]
      BY DEF Chosen
    <2> HIDE DEF op
    <2> QED
      BY <2>2, <2>4, <2>5, <2>6
  <1>5. link \in LinkSet \cup {Null} /\ (link # Null => op = "readlink") /\ names \subseteq Names
        /\ error \in Outcomes
    <2>1. Links \subseteq [abs : BOOLEAN, up : {0}, names : Seq(Names)] /\ Entries \subseteq Names
      BY StackAssumption
    <2>2. Links \subseteq LinkSet
      BY <2>1 DEF LinkSet
    <2> QED
      BY <2>1, <2>2 DEF Outcomes
  <1> HIDE DEF op, names
  <1>6. /\ call' \in Calls /\ call'.op = call.op /\ call'.stage = "back" /\ call'.at = 1
        /\ call'.args = call.args /\ call'.reached = <<op, Args, link>>
        /\ call'.answer.link = link
    <2>1. [error |-> error, link |-> link, short |-> FALSE, names |-> names] \in Answers
      BY <1>5 DEF Answers
    <2>2. <<op, Args, link>> \in Called \X Seq(PathOrNull) \X (LinkSet \cup {Null})
      BY <1>4, <1>5
    <2>3. (call.confused \/ private # Here.data) = FALSE
      BY <1>3, CallFields DEF Inv
    <2> QED
      BY <1>1, <1>3, <2>1, <2>2, <2>3 DEF Inv, Calls, Stages
  <1> DEFINE l == layers'[1]
  <1>7. /\ layers' \in Seq(LayerSet) /\ Top' = Top
        /\ \A i \in 2..Top : layers'[i] = layers[i]
        /\ l.kind = layers[1].kind /\ l.ops = layers[1].ops /\ l.module = layers[1].module
    <2>1. CASE op = "init"
      <3> DEFINE own == [layers[1] EXCEPT !.data = "own"]
      <3>1. own \in LayerSet /\ own.kind = layers[1].kind /\ own.ops = layers[1].ops
            /\ own.module = layers[1].module
        BY <1>3 DEF LayerSet
      <3> HIDE DEF own
      <3>2. layers' = [layers EXCEPT ![1] = own]
        BY <1>2, <2>1 DEF own
      <3> QED
        BY <1>3, <3>1, <3>2, ExceptSeq DEF Top
    <2>2. CASE op # "init"
      BY <1>2, <1>3, <2>2 DEF Top
    <2> QED
      BY <2>1, <2>2
  <1> HIDE DEF l
  <1>8. System' = System
    BY <1>7 DEF System, l
  <1>9. \A i \in Nat \ {0} : Intact(i)' /\ Intact(i)
    BY <1>2, <1>6 DEF Intact
  <1>10. LayersOK'
    <2>1. ASSUME NEW i \in 2..Top'
          PROVE  ModuleLayer(i)'
      <3>1. i \in Nat \ {0} /\ layers'[i] = layers[i] /\ ModuleLayer(i)
        BY <1>7, LayerFacts DEF Inv
      <3>2. Intact(i)' /\ Intact(i)
        BY <1>9, <3>1
      <3> QED
        BY <3>1, <3>2 DEF ModuleLayer
    <2>2. Intact(1)' /\ Intact(1)
      BY <1>9
    <2> QED
      BY <1>2, <1>3, <1>7, <1>8, <2>1, <2>2 DEF Inv, LayersOK, l
  <1>11. StackOK'
    <2>1. PICK stack \in Stacks :
            /\ Top - 1 <= Len(stack)
            /\ phase = "new" => todo = SubSeq(stack, Top, Len(stack))
            /\ \A i \in 2..Top : layers[i].module = stack[i - 1]
      BY DEF Inv, StackOK
    <2> QED
      BY <1>2, <1>7, <2>1 DEF StackOK
  <1>12. CountOK'
    <2>1. ASSUME NEW k \in Kinds
          PROVE  {i \in 1..Top' : layers'[i].kind = k} = {i \in 1..Top : layers[i].kind = k}
      BY <1>3, <1>7 DEF l
    <2> QED
      BY <1>2, <2>1 DEF Inv, CountOK
  <1>13. NarrowOK'
    BY <1>2, <1>8 DEF Inv, NarrowOK
  <1>14. PhaseOK'
    BY <1>2, <1>3, <1>6 DEF Inv, PhaseOK, Idle
  <1>15. StageOK'
    BY <1>3, <1>4, <1>5, <1>6, <1>7 DEF StageOK, Idle, Down
  <1>16. Asked' = Asked
    BY <1>6, <1>7 DEF Asked
  <1>17. AskedOK'
    BY <1>2, <1>3, <1>6, <1>16 DEF Inv, AskedOK, Idle
  <1>18. ShapeOK'
    <2>1. \A i \in 1..Top : SameShape(call.args[i], Asked)
      BY <1>3 DEF Inv, ShapeOK
    <2>2. call'.reached[2] = call'.args[1]
      BY <1>3, <1>6
    <2> QED
      BY <1>6, <1>7, <1>16, <2>1, <2>2 DEF ShapeOK
  <1>19. WantOK'
    BY <1>2, <1>6, <1>8 DEF Inv, WantOK
  <1> QED
    BY <1>2, <1>6, <1>10, <1>11, <1>12, <1>13, <1>14, <1>15, <1>17, <1>18, <1>19 DEF Inv

(* The layer a call is at, when it is a module.                             *)
LEMMA HereIsModule ==
  ASSUME Inv, call.at \in 2..Top, Intact(call.at)
  PROVE  Here.kind \in Kinds /\ Here.module \in ModuleSet /\ Here.kind = Here.module.kind
         /\ Here.ops = ModuleOps[Here.kind] /\ Here.data = Here.kind
  <1>1. ModuleLayer(call.at)
    BY LayerFacts DEF Inv
  <1> QED
    BY <1>1 DEF ModuleLayer, ModuleSet, Here

(* Down one layer, with the paths of the layer below.                       *)
LEMMA DownInv ==
  ASSUME Inv, call.stage = "body", ~Refuses(Here, Args),
         call' = [call EXCEPT !.stage = "enter", !.at = @ - 1,
                              !.args[call.at - 1] = Mapped(Here, call.op, Args),
                              !.confused = @ \/ private # Here.data],
         UNCHANGED <<phase, todo, layers, lib, option, want, users, private>>
  PROVE  Inv'
  <1> DEFINE i == call.at
             mapped == Mapped(Here, call.op, Args)
  <1>1. /\ i \in 2..Top /\ Top \in Nat /\ Here = layers[i] /\ private = layers[i].data
        /\ ~Idle /\ Down /\ call.reached = <<>> /\ call.answer = NoAnswer
        /\ call.op \in Operations /\ Len(call.args) = Top /\ Args = call.args[i]
    BY LayerFacts DEF Inv, StageOK, Idle, Down, Here, Args
  <1>2. call.args \in Seq(Seq(PathOrNull)) /\ Args \in Seq(PathOrNull) /\ i - 1 \in 1..Len(call.args)
    <2>1. call.args \in Seq(Seq(PathOrNull))
      BY DEF Inv, Calls
    <2> QED
      BY <1>1, <2>1, ElementOfSeq
  <1>3. mapped \in Seq(PathOrNull) /\ SameShape(mapped, Args)
    <2>1. Intact(i)
      BY DEF Intact
    <2> QED
      BY <1>1, <1>2, <2>1, HereIsModule, MappedFacts
  <1> HIDE DEF mapped
  <1> DEFINE args == [call.args EXCEPT ![i - 1] = mapped]
  <1>4. /\ args \in Seq(Seq(PathOrNull)) /\ Len(args) = Top
        /\ args[i - 1] = mapped /\ \A n \in 1..Top : n # i - 1 => args[n] = call.args[n]
    BY <1>1, <1>2, <1>3, ExceptSeq
  <1>5. /\ call' \in Calls /\ call'.op = call.op /\ call'.stage = "enter" /\ call'.at = i - 1
        /\ call'.args = args /\ call'.reached = <<>> /\ call'.answer = NoAnswer
    <2>1. (call.confused \/ private # Here.data) = FALSE
      BY <1>1, CallFields DEF Inv
    <2>2. call' = [call EXCEPT !.stage = "enter", !.at = i - 1, !.args = args, !.confused = FALSE]
      BY <2>1, CallFields DEF Inv, Calls, mapped
    <2>3. i - 1 \in Nat /\ call \in Calls
      BY <1>1 DEF Inv
    <2> HIDE DEF args, i
    <2>4. args \in Seq(Seq(PathOrNull)) /\ "enter" \in Stages
      BY <1>4 DEF Stages
    <2>5. call' \in Calls
      BY <2>2, <2>3, <2>4 DEF Calls
    <2> QED
      BY <1>1, <2>2, <2>3, <2>5 DEF Calls
  <1> HIDE DEF args
  <1>6. Top' = Top /\ Asked' = Asked
    BY <1>1, <1>4, <1>5 DEF Top, Asked
  <1>7. \A n \in Nat \ {0} : Intact(n)' <=> Intact(n)
    BY <1>5 DEF Intact
  <1>8. PhaseOK' /\ StageOK' /\ AskedOK'
    BY <1>1, <1>4, <1>5, <1>6, NoCallFacts DEF Inv, PhaseOK, StageOK, AskedOK, Idle, Down
  <1>9. ShapeOK'
    <2>1. ASSUME NEW n \in 1..Top, n >= i - 1
          PROVE  SameShape(args[n], Asked)
      <3>1. CASE n = i - 1
        <4>1. SameShape(Args, Asked)
          BY <1>1 DEF Inv, ShapeOK
        <4> QED
          BY <1>3, <1>4, <3>1, <4>1, SameShapeChain
      <3>2. CASE n # i - 1
        <4>1. n >= i /\ args[n] = call.args[n]
          BY <1>1, <1>4, <2>1, <3>2
        <4> QED
          BY <1>1, <4>1 DEF Inv, ShapeOK
      <3> QED
        BY <3>1, <3>2
    <2> QED
      BY <1>5, <1>6, <2>1 DEF ShapeOK
  <1>10. WantOK'
    <2>1. System' = System
      BY DEF System
    <2> QED
      BY <1>5, <2>1 DEF Inv, WantOK
  <1> QED
    BY <1>5, <1>7, <1>8, <1>9, <1>10, SameLayers DEF Inv

(* A module that fails answers at once.                                     *)
LEMMA FailInv ==
  ASSUME Inv, call.stage = "body", call.op \notin LifeOps, NEW error \in Outcomes,
         call' = [call EXCEPT !.stage = "back", !.answer = [NoAnswer EXCEPT !.error = error]],
         UNCHANGED <<phase, todo, layers, lib, option, want, users, private>>
  PROVE  Inv'
  <1> DEFINE answer == [NoAnswer EXCEPT !.error = error]
  <1>1. /\ call.at \in 2..Top /\ Top \in Nat /\ ~Idle /\ Down /\ call.reached = <<>>
        /\ call.op \in Operations /\ Len(call.args) = Top
    BY LayerFacts DEF Inv, StageOK, Idle, Down
  <1>2. answer \in Answers /\ answer.link = Null
    BY NoCallFacts DEF Answers
  <1> HIDE DEF answer
  <1>3. /\ call' \in Calls /\ call'.op = call.op /\ call'.stage = "back" /\ call'.at = call.at
        /\ call'.args = call.args /\ call'.reached = <<>> /\ call'.answer = answer
    <2>1. call' = [call EXCEPT !.stage = "back", !.answer = answer]
      BY DEF answer
    <2> QED
      BY <1>1, <1>2, <2>1 DEF Inv, Calls, Stages
  <1>4. Top' = Top /\ Asked' = Asked
    BY <1>3 DEF Top, Asked
  <1>5. phase = "up"
    BY <1>1 DEF Inv, PhaseOK, LifeOps
  <1>6. \A n \in Nat \ {0} : Intact(n)' <=> Intact(n)
    BY <1>5 DEF Intact
  <1>7. PhaseOK' /\ StageOK' /\ AskedOK' /\ ShapeOK'
    BY <1>1, <1>2, <1>3, <1>4 DEF Inv, PhaseOK, StageOK, AskedOK, ShapeOK, Idle, Down
  <1>8. WantOK'
    <2>1. System' = System /\ call.op # "init"
      BY DEF System, LifeOps
    <2> QED
      BY <1>3, <2>1 DEF Inv, WantOK
  <1> QED
    BY <1>3, <1>6, <1>7, <1>8, SameLayers DEF Inv

(* The function of a layer keeps the invariant, whichever operation it is.  *)
LEMMA BodyInv ==
  ASSUME Inv, Body
  PROVE  Inv'
  <1>1. call.stage = "body"
        /\ UNCHANGED <<phase, todo, layers, lib, option, want, users, private>>
    BY DEF Body
  <1>2. CASE /\ ~Refuses(Here, Args)
             /\ call' = [call EXCEPT !.stage = "enter", !.at = @ - 1,
                                     !.args[call.at - 1] = Mapped(Here, call.op, Args),
                                     !.confused = @ \/ private # Here.data]
    BY <1>1, <1>2, DownInv
  <1>3. ASSUME call.op \notin LifeOps,
               NEW error \in {"ENOMEM"} \cup (IF Refuses(Here, Args) THEN {"EILSEQ"} ELSE {}),
               call' = [call EXCEPT !.stage = "back", !.answer = [NoAnswer EXCEPT !.error = error]]
        PROVE  Inv'
    <2>1. error \in Outcomes
      BY DEF Outcomes
    <2> QED
      BY <1>1, <1>3, <2>1, FailInv
  <1> QED
    BY <1>2, <1>3 DEF Body

(* The path of the layer below, for the link it gave.                       *)
LEMMA LinkPath ==
  ASSUME Inv, call.stage = "back", call.answer.link # Null, Here.kind = "subdir"
  PROVE  /\ call.op = "readlink" /\ Args[1] \in Seq(Names) /\ DOMAIN Args = {1}
         /\ Here.module \in ModuleSet
         /\ Mapped(Here, "readlink", Args)[1] = Here.module.base \o Args[1]
         /\ Mapped(Here, "readlink", Args)[1] \in Seq(Names)
  <1>1. /\ call.at \in 1..Top /\ Top \in Nat /\ ~Idle /\ call.reached # <<>> /\ call.op = "readlink"
        /\ Len(call.args) = Top /\ Args = call.args[call.at]
    BY LayerFacts DEF Inv, StageOK, Idle, Args
  <1>2. DOMAIN Asked = {1} /\ Asked[1] # Null /\ SameShape(Args, Asked)
    BY <1>1 DEF Inv, AskedOK, ShapeOK
  <1>3. Args \in Seq(PathOrNull)
    <2>1. call.args \in Seq(Seq(PathOrNull))
      BY DEF Inv, Calls
    <2> QED
      BY <1>1, <2>1, ElementOfSeq
  <1>4. DOMAIN Args = {1} /\ Args[1] \in Seq(Names)
    <2>1. DOMAIN Args = {1} /\ Args[1] # Null
      BY <1>2 DEF SameShape
    <2>2. 1 \in 1..Len(Args)
      BY <1>3, <2>1, LenProperties
    <2> QED
      BY <1>3, <2>1, <2>2, ElementOfSeq DEF PathOrNull
  <1>5. Here.module \in ModuleSet
    <2>1. Intact(call.at)
      BY <1>1 DEF Intact
    <2>2. call.at # 1
      <3>1. call.at = 1 => Here.kind = "fs"
        BY <2>1 DEF Inv, LayersOK, Here
      <3> QED
        BY <3>1
    <2> QED
      BY <1>1, <2>1, <2>2, HereIsModule
  <1>6. Mapped(Here, "readlink", Args)[1] = AddPath(Here.module, Args[1])
    BY <1>4 DEF Mapped
  <1>7. AddPath(Here.module, Args[1]) = Here.module.base \o Args[1]
        /\ AddPath(Here.module, Args[1]) \in Seq(Names)
    <2>1. Args[1] \in PathOrNull /\ Args[1] # Null
      BY <1>4, StackAssumption DEF PathOrNull
    <2> QED
      BY <1>5, <2>1, AddPathFacts DEF PathOrNull
  <1> QED
    BY <1>1, <1>4, <1>5, <1>6, <1>7

(* Up one layer; fuse_fs_destroy gives the module back and frees the layer. *)
LEMMA BackInv ==
  ASSUME Inv, Back
  PROVE  Inv'
  <1> DEFINE i == call.at
  <1>0. PICK answer \in Passed(Here, call.answer) :
          call' = [call EXCEPT !.answer = answer, !.at = i + 1,
                               !.stage = IF i = Len(call.args) THEN "done" ELSE "back"]
    BY DEF Back
  <1>1. /\ call.stage = "back"
        /\ call' = [call EXCEPT !.answer = answer, !.at = i + 1,
                                !.stage = IF i = Len(call.args) THEN "done" ELSE "back"]
        /\ IF call.op = "destroy"
           THEN layers' = [layers EXCEPT ![i].kind = "freed"] /\ users' = GivenBack(i)
           ELSE UNCHANGED <<layers, users>>
        /\ UNCHANGED <<phase, todo, lib, option, want, private>>
    BY <1>0 DEF Back
  <1>2. /\ i \in 1..Top /\ Top \in Nat /\ Here = layers[i] /\ layers[i] \in LayerSet
        /\ layers \in Seq(LayerSet) /\ ~Idle /\ ~Down /\ Intact(i)
        /\ call.op \in Operations /\ Len(call.args) = Top
    BY <1>1, LayerFacts DEF Inv, LayersOK, StageOK, Idle, Down, Here, Intact
  <1>3. IF i = 1 THEN Here.kind = "fs" ELSE Here.kind \in Kinds /\ Here.module \in ModuleSet
    <2>1. CASE i = 1
      BY <1>2, <2>1 DEF Inv, LayersOK
    <2>2. CASE i # 1
      <3>1. i \in 2..Top
        BY <1>2, <2>2
      <3> QED
        BY <1>2, <2>2, <3>1, HereIsModule
    <2> QED
      BY <2>1, <2>2
  <1>4. answer \in Answers /\ (call.answer.link = Null => answer.link = Null)
    <2>1. call.answer \in Answers
      BY CallFields DEF Inv
    <2>2. Here.kind \in Kinds \cup {"fs"} /\ (Here.kind \in Kinds => Here.module \in ModuleSet)
      BY <1>3 DEF Kinds
    <2>3. call.answer.link # Null /\ Here.kind = "subdir" =>
            Mapped(Here, "readlink", Args)[1] \in Seq(Names)
      BY <1>1, LinkPath
    <2> QED
      BY <1>0, <2>1, <2>2, <2>3, PassedFacts
  <1> DEFINE stage == IF i = Top THEN "done" ELSE "back"
  <1>5. /\ call' \in Calls /\ call'.op = call.op /\ call'.stage = stage /\ call'.at = i + 1
        /\ call'.args = call.args /\ call'.reached = call.reached /\ call'.answer = answer
    <2>1. call' = [call EXCEPT !.answer = answer, !.at = i + 1, !.stage = stage]
      BY <1>1, <1>2
    <2>2. stage \in Stages /\ i + 1 \in Nat
      BY <1>2 DEF Stages
    <2> HIDE DEF stage
    <2> QED
      BY <1>4, <2>1, <2>2 DEF Inv, Calls
  <1>6. call'.answer.link # Null => call'.reached # <<>> /\ call'.op = "readlink"
    BY <1>4, <1>5 DEF Inv, StageOK
  <1>7. CASE call.op # "destroy"
    <2>1. UNCHANGED <<layers, users, lib, option, todo, phase, want, private>> /\ phase = "up"
      BY <1>1, <1>2, <1>7 DEF Inv, PhaseOK
    <2>2. Top' = Top /\ Asked' = Asked /\ System' = System
      BY <1>5, <2>1 DEF Top, Asked, System
    <2>3. \A n \in Nat \ {0} : Intact(n)' <=> Intact(n)
      BY <2>1 DEF Intact
    <2>4. PhaseOK' /\ StageOK'
      BY <1>1, <1>2, <1>5, <1>6, <1>7, <2>1, <2>2 DEF PhaseOK, StageOK, Idle, Down
    <2>5. AskedOK' /\ ShapeOK'
      BY <1>1, <1>2, <1>5, <2>1, <2>2 DEF Inv, AskedOK, ShapeOK, Idle, Down
    <2>6. WantOK'
      BY <1>1, <1>5, <2>1, <2>2 DEF Inv, WantOK
    <2> QED
      BY <1>5, <2>1, <2>3, <2>4, <2>5, <2>6, SameLayers DEF Inv
  <1>8. CASE call.op = "destroy"
    <2> DEFINE l == [layers[i] EXCEPT !.kind = "freed"]
    <2>1. l \in LayerSet /\ l.kind = "freed" /\ l.ops = layers[i].ops /\ l.data = layers[i].data
          /\ l.module = layers[i].module
      BY <1>2 DEF LayerSet
    <2>2. layers' = [layers EXCEPT ![i] = l] /\ users' = GivenBack(i) /\ phase = "gone"
          /\ UNCHANGED <<phase, todo, lib, option, want, private>>
      BY <1>1, <1>2, <1>8 DEF Inv, PhaseOK
    <2> HIDE DEF l
    <2>3. /\ layers' \in Seq(LayerSet) /\ Top' = Top /\ layers'[i] = l
          /\ \A n \in 1..Top : n # i => layers'[n] = layers[n]
      BY <1>2, <2>1, <2>2, ExceptSeq DEF Top
    <2>4. System' = System /\ Asked' = Asked
      BY <1>2, <1>5, <2>1, <2>3 DEF System, Asked
    <2>5. \A n \in 1..Top : Intact(n)' <=> Intact(n) /\ n # i
      BY <1>1, <1>2, <1>5, <2>2 DEF Intact
    <2>6. LayersOK'
      <3>1. ASSUME NEW n \in 2..Top'
            PROVE  ModuleLayer(n)'
        <4>1. n \in 2..Top /\ n \in 1..Top /\ ModuleLayer(n)
          BY <1>2, <2>3, LayerFacts DEF Inv
        <4> QED
          BY <2>1, <2>3, <2>5, <4>1 DEF ModuleLayer
      <3>2. layers'[1].kind = IF Intact(1)' THEN "fs" ELSE "freed"
        <4>1. 1 \in 1..Top /\ layers[1].kind = IF Intact(1) THEN "fs" ELSE "freed"
          BY <1>2 DEF Inv, LayersOK
        <4>2. Intact(1)' <=> Intact(1) /\ 1 # i
          BY <2>5, <4>1
        <4>3. CASE i = 1
          BY <2>1, <2>3, <4>2, <4>3
        <4>4. CASE i # 1
          BY <2>3, <4>1, <4>2, <4>4
        <4> QED
          BY <4>3, <4>4
      <3> QED
        BY <2>2, <2>3, <2>4, <3>1, <3>2 DEF Inv, LayersOK
    <2>7. StackOK'
      <3>1. PICK stack \in Stacks :
              Top - 1 <= Len(stack) /\ \A n \in 2..Top : layers[n].module = stack[n - 1]
        BY DEF Inv, StackOK
      <3>2. \A n \in 2..Top : layers'[n].module = layers[n].module
        BY <1>2, <2>1, <2>3
      <3> QED
        BY <2>2, <2>3, <3>1, <3>2 DEF StackOK
    <2>8. CountOK' /\ users' \in [Kinds -> Nat]
      <3> DEFINE S(k) == {n \in 1..Top : layers[n].kind = k}
                 S2(k) == {n \in 1..Top : layers'[n].kind = k}
      <3>1. ASSUME NEW k \in Kinds
            PROVE  /\ IsFiniteSet(S(k)) /\ users[k] = Cardinality(S(k)) /\ users[k] \in Nat
                   /\ S2(k) = S(k) \ {i}
        <4>1. IsFiniteSet(1..Top) /\ S(k) \subseteq 1..Top
          BY <1>2, FS_Interval
        <4>2. IsFiniteSet(S(k))
          BY <4>1, FS_Subset
        <4>3. S2(k) = S(k) \ {i}
          BY <1>2, <2>1, <2>3 DEF Kinds
        <4> QED
          BY <4>2, <4>3 DEF Inv, CountOK
      <3>2. ASSUME NEW k \in Kinds
            PROVE  users'[k] = Cardinality(S2(k)) /\ users'[k] \in Nat
        <4>1. CASE i # 1 /\ layers[i].kind = k
          <5>1. i \in S(k) /\ users' = [users EXCEPT ![k] = @ - 1]
            BY <1>2, <2>2, <4>1 DEF GivenBack
          <5>2. Cardinality(S(k) \ {i}) = Cardinality(S(k)) - 1 /\ IsFiniteSet(S(k) \ {i})
            BY <3>1, <5>1, FS_RemoveElement
          <5>3. Cardinality(S(k) \ {i}) \in Nat
            BY <5>2, FS_CardinalityType
          <5>4. users'[k] = users[k] - 1
            BY <5>1 DEF Inv
          <5> QED
            BY <3>1, <5>2, <5>3, <5>4
        <4>2. CASE ~(i # 1 /\ layers[i].kind = k)
          <5>1. i \notin S(k)
            BY <1>2, <1>3, <4>2 DEF Kinds
          <5>2. users'[k] = users[k]
            BY <2>2, <4>2 DEF Inv, GivenBack
          <5>3. S2(k) = S(k)
            BY <3>1, <5>1
          <5> QED
            BY <3>1, <5>2, <5>3
        <4> QED
          BY <4>1, <4>2
      <3>3. users' = [k \in Kinds |-> users'[k]]
        BY <2>2 DEF Inv, GivenBack
      <3> QED
        BY <2>3, <3>2, <3>3 DEF CountOK
    <2>9. NarrowOK' /\ PhaseOK' /\ WantOK'
      BY <1>1, <1>2, <1>5, <1>8, <2>2, <2>4 DEF Inv, NarrowOK, PhaseOK, WantOK, Idle
    <2>10. StageOK'
      BY <1>1, <1>2, <1>5, <1>6, <1>8, <2>3 DEF StageOK, Idle, Down
    <2>11. AskedOK' /\ ShapeOK'
      BY <1>1, <1>2, <1>5, <2>2, <2>3, <2>4 DEF Inv, AskedOK, ShapeOK, Idle, Down
    <2> QED
      BY <1>5, <2>2, <2>6, <2>7, <2>8, <2>9, <2>10, <2>11 DEF Inv
  <1> QED
    BY <1>7, <1>8

(* The answer goes back to the handler.                                     *)
LEMMA FinishInv ==
  ASSUME Inv, Finish
  PROVE  Inv'
  <1>1. /\ call.stage = "done" /\ call' = NoCall
        /\ UNCHANGED <<phase, todo, layers, lib, option, want, users, private>>
    BY DEF Finish
  <1>2. call'.stage = "none" /\ call'.reached = <<>> /\ call' \in Calls /\ call'.answer.link = Null
    BY <1>1, NoCallFacts
  <1>3. \A n \in Nat \ {0} : Intact(n)' <=> Intact(n)
    BY <1>1, <1>2 DEF Intact
  <1>4. PhaseOK' /\ StageOK' /\ AskedOK' /\ ShapeOK'
    BY <1>1, <1>2 DEF Inv, PhaseOK, StageOK, AskedOK, ShapeOK, Idle, Down
  <1>5. WantOK'
    <2>1. System' = System
      BY <1>1 DEF System
    <2> QED
      BY <1>1, <2>1 DEF Inv, WantOK
  <1> QED
    BY <1>1, <1>2, <1>3, <1>4, <1>5, SameLayers DEF Inv

-----------------------------------------------------------------------------
(* The theorems.                                                            *)

(* Every step keeps the invariant.                                          *)
LEMMA NextInv ==
  ASSUME Inv, [Next]_vars
  PROVE  Inv'
  <1>1. CASE Next
    BY <1>1, PushInv, PushFailsInv, StartInv, StopInv, RequestInv, EnterInv, BottomInv, BodyInv,
       BackInv, FinishInv DEF Next
  <1>2. CASE UNCHANGED vars
    <2>1. UNCHANGED <<phase, todo, layers, lib, option, want, users, private, call>>
      BY <1>2 DEF vars
    <2>2. \A n \in Nat \ {0} : Intact(n)' <=> Intact(n)
      BY <2>1 DEF Intact
    <2>3. PhaseOK' /\ StageOK' /\ AskedOK' /\ ShapeOK' /\ WantOK'
      BY <2>1 DEF Inv, PhaseOK, StageOK, AskedOK, ShapeOK, WantOK, Idle, Down, System, Asked, Top,
                  Args
    <2> QED
      BY <2>1, <2>2, <2>3, SameLayers DEF Inv
  <1> QED
    BY <1>1, <1>2

(* The inductive invariant, of any file system and any stack of modules.    *)
THEOREM StackInvariant == Spec => []Inv
  <1>1. Init => Inv
    BY InitInv
  <1>2. Inv /\ [Next]_vars => Inv'
    BY NextInv
  <1> QED
    BY <1>1, <1>2, PTL DEF Spec

(* The invariant says more than the types.                                  *)
LEMMA InvTypes ==
  ASSUME Inv
  PROVE  TypeOK
  <1>1. call.op \in Requests \cup LifeOps \cup {"none"} /\ call.stage \in Stages
        /\ call.answer.error \in Outcomes
    BY DEF Inv, Calls, Answers, Operations
  <1>2. call.at \in 0..(Top + 1)
    <2>1. Top \in Nat /\ Top >= 1 /\ NoCall.at = 0
      BY LayerFacts DEF Inv, NoCall
    <2>2. Idle => call.at = 0
      BY <2>1 DEF Inv, PhaseOK
    <2>3. ~Idle => call.at \in 1..(Top + 1)
      BY <1>1, <2>1 DEF Inv, StageOK, Stages, Idle
    <2> QED
      BY <2>1, <2>2, <2>3
  <1> QED
    BY <1>1, <1>2 DEF Inv, TypeOK, PhaseOK, NarrowOK

(* Every variable keeps its type, and a call stays within the stack.        *)
THEOREM TypeCorrect == Spec => []TypeOK
  BY StackInvariant, InvTypes, PTL

(* fuse_get_module and fuse_put_module are called equally often for each    *)
(* layer, also when a later module cannot be pushed.                        *)
THEOREM ModulesAreCounted == Spec => []ModulesCounted
  <1>1. Inv => ModulesCounted
    BY DEF Inv, CountOK, ModulesCounted
  <1> QED
    BY <1>1, StackInvariant, PTL

(* Arguments of the shape of a single missing path.                         *)
LEMMA NullSurvives ==
  ASSUME NEW a, NEW b \in Seq(PathOrNull), SameShape(a, b), a = <<Null>>
  PROVE  1 \in DOMAIN b /\ b[1] = Null
  BY DEF SameShape

(* nullpath_ok, nopath and the capabilities of the connection are those of  *)
(* the file system, whatever modules are above it.                          *)
THEOREM NeverBeyondAbilities == Spec => []WithinAbilities
  <1>1. ASSUME Inv, call.reached # <<>>, call.reached[2] = <<Null>>
        PROVE  System.nullpath \/ System.nopath \/ option
    <2>1. ~Idle /\ Top \in Nat /\ Top >= 1 /\ Len(call.args) = Top
      BY <1>1, NoCallFacts, LayerFacts DEF Inv, PhaseOK, StageOK, Idle
    <2>2. SameShape(call.args[1], Asked) /\ call.args[1] = <<Null>>
      BY <1>1, <2>1 DEF Inv, ShapeOK
    <2>3. Asked \in Seq(PathOrNull)
      BY <1>1, <2>1, CallFields, ElementOfSeq DEF Inv, Asked
    <2>4. \E j \in DOMAIN Asked : Asked[j] = Null
      BY <2>2, <2>3, NullSurvives
    <2> QED
      BY <1>1, <2>1, <2>4 DEF Inv, AskedOK, NarrowOK
  <1>2. ASSUME Inv, phase = "up", Idle
        PROVE  want \cap CanWant(System.ops) = {}
    BY <1>2, NoCallFacts DEF Inv, WantOK, PhaseOK, Idle
  <1>3. Inv => WithinAbilities
    BY <1>1, <1>2 DEF WithinAbilities
  <1> QED
    BY <1>3, StackInvariant, PTL

-----------------------------------------------------------------------------
(* Where the paths of a request arrive.                                     *)

(* The model has one encoding; a stack converts to it at most once.         *)
OneIconv ==
  \A stack \in Stacks : \A i, j \in DOMAIN stack :
    stack[i].kind = "iconv" /\ stack[j].kind = "iconv" => i = j

Spellings == Names \cup {Encoding[n] : n \in Names}
HasIconv(i) == \E j \in 2..i : layers[j].kind = "iconv"
BasePart(i) == IF layers[i + 1].kind = "subdir" THEN Code(i, layers[i + 1].module.base) ELSE <<>>
BaseOf(i) == FlattenSeq([k \in 1..(i - 1) |-> BasePart(k)])

(* What a path that layer i is called with will be at the bottom.           *)
Placed(i, op, j, path) ==
  IF op = "symlink" /\ j = 1 THEN Code(i, path) ELSE
  IF path = Null THEN Null ELSE BaseOf(i) \o Code(i, path)

(* What the answer to a request tells.                                      *)
Arrived ==
  LET chosen == Chosen(System.ops, call.op, Asked)
      error == call.answer.error
  IN  IF call.reached # <<>>
      THEN call.reached[1] = chosen /\ call.reached[2] = BelowAll(call.op, Asked)
      ELSE \/ error = "ENOMEM"
           \/ error = "EILSEQ" /\ (BaseFails \/ \E j \in DOMAIN Asked : ~Converts(Asked[j]))
           \/ error = Default(call.op) /\ (chosen = "none" \/ Hidden)

AllConvert == ~BaseFails /\ \A j \in DOMAIN Asked : Converts(Asked[j])

PathsOK ==
  ~Idle /\ call.op \in Requests =>
    /\ Down => \A j \in DOMAIN Args :
                 Placed(call.at, call.op, j, Args[j]) = Placed(Top, call.op, j, Asked[j])
    /\ Down /\ HasIconv(call.at) /\ AllConvert => \A j \in DOMAIN Args : Converts(Args[j])
    /\ ~Down => Arrived

(* The encoding of a path is a path of the same length.                     *)
LEMMA CodeFacts ==
  ASSUME NEW i, NEW path \in Seq(Names)
  PROVE  /\ Code(i, path) \in Seq(Spellings) /\ Len(Code(i, path)) = Len(path)
         /\ HasIconv(i) => Code(i, path) = [k \in DOMAIN path |-> Encoding[path[k]]]
         /\ ~HasIconv(i) => Code(i, path) = path
  <1>1. Len(path) \in Nat /\ DOMAIN path = 1..Len(path) /\ \A k \in 1..Len(path) : path[k] \in Names
    BY LenProperties, ElementOfSeq
  <1>2. CASE HasIconv(i)
    <2>1. Code(i, path) = [k \in 1..Len(path) |-> Encoding[path[k]]]
      BY <1>1, <1>2 DEF Code, HasIconv
    <2>2. \A k \in 1..Len(path) : Encoding[path[k]] \in Spellings
      BY <1>1 DEF Spellings
    <2> QED
      BY <1>1, <1>2, <2>1, <2>2
  <1>3. CASE ~HasIconv(i)
    <2>1. Code(i, path) = path
      BY <1>3 DEF Code, HasIconv
    <2>2. path \in Seq(Spellings)
      <3>1. Names \subseteq Spellings
        BY DEF Spellings
      <3> QED
        BY <3>1, SeqMonotonic
    <2> QED
      BY <1>3, <2>1, <2>2
  <1> QED
    BY <1>2, <1>3

(* A path is encoded element by element, so in parts as well as whole.      *)
LEMMA CodeOfConcat ==
  ASSUME NEW i, NEW a \in Seq(Names), NEW b \in Seq(Names)
  PROVE  Code(i, a \o b) = Code(i, a) \o Code(i, b)
  <1>1. a \o b \in Seq(Names) /\ Len(a \o b) = Len(a) + Len(b) /\ Len(a) \in Nat /\ Len(b) \in Nat
        /\ \A k \in 1..(Len(a) + Len(b)) : (a \o b)[k] = IF k <= Len(a) THEN a[k] ELSE b[k - Len(a)]
    BY ConcatProperties, LenProperties
  <1>2. CASE ~HasIconv(i)
    BY <1>1, <1>2, CodeFacts
  <1>3. CASE HasIconv(i)
    <2> DEFINE left == Code(i, a \o b)
               c == Code(i, a)
               d == Code(i, b)
               right == c \o d
    <2>1. left \in Seq(Spellings) /\ Len(left) = Len(a) + Len(b)
          /\ \A k \in 1..(Len(a) + Len(b)) : left[k] = Encoding[(a \o b)[k]]
      <3> DEFINE w == a \o b
      <3>1. w \in Seq(Names) /\ Len(w) = Len(a) + Len(b)
        BY <1>1
      <3> HIDE DEF w
      <3>2. DOMAIN w = 1..(Len(a) + Len(b))
        BY <3>1, LenProperties
      <3>3. Code(i, w) = [k \in DOMAIN w |-> Encoding[w[k]]] /\ Code(i, w) \in Seq(Spellings)
            /\ Len(Code(i, w)) = Len(w)
        BY <1>3, <3>1, CodeFacts
      <3> QED
        BY <3>1, <3>2, <3>3 DEF w
    <2>2. /\ c \in Seq(Spellings) /\ Len(c) = Len(a) /\ \A k \in 1..Len(a) : c[k] = Encoding[a[k]]
          /\ d \in Seq(Spellings) /\ Len(d) = Len(b) /\ \A k \in 1..Len(b) : d[k] = Encoding[b[k]]
      <3>1. DOMAIN a = 1..Len(a) /\ DOMAIN b = 1..Len(b)
        BY LenProperties
      <3> QED
        BY <1>1, <1>3, <3>1, CodeFacts
    <2> HIDE DEF left, c, d
    <2>3. /\ right \in Seq(Spellings) /\ Len(right) = Len(a) + Len(b)
          /\ \A k \in 1..(Len(a) + Len(b)) : right[k] = IF k <= Len(a) THEN c[k] ELSE d[k - Len(a)]
      <3>1. right \in Seq(Spellings) /\ Len(right) = Len(c) + Len(d)
            /\ \A k \in 1..(Len(c) + Len(d)) : right[k] = IF k <= Len(c) THEN c[k] ELSE d[k - Len(c)]
        BY <2>2, ConcatProperties
      <3> HIDE DEF right
      <3> QED
        BY <2>2, <3>1
    <2> HIDE DEF right
    <2>4. ASSUME NEW k \in 1..(Len(a) + Len(b))
          PROVE  left[k] = right[k]
      <3>1. CASE k <= Len(a)
        BY <1>1, <2>1, <2>2, <2>3, <3>1
      <3>2. CASE ~(k <= Len(a))
        <4>1. k - Len(a) \in 1..Len(b)
          BY <1>1, <3>2
        <4>2. left[k] = Encoding[b[k - Len(a)]]
          BY <2>1, <3>2
        <4>3. right[k] = d[k - Len(a)]
          BY <2>3, <3>2
        <4>4. d[k - Len(a)] = Encoding[b[k - Len(a)]]
          BY <2>2, <4>1
        <4> QED
          BY <4>2, <4>3, <4>4
      <3> QED
        BY <3>1, <3>2
    <2> QED
      BY <2>1, <2>3, <2>4, SeqEqual DEF left, right, c, d
  <1> QED
    BY <1>2, <1>3

(* The base of a layer is that of the layer below, and its own.             *)
LEMMA BaseFacts ==
  ASSUME Inv, phase # "gone", NEW i \in 1..Top
  PROVE  /\ BaseOf(i) \in Seq(Spellings)
         /\ i = 1 => BaseOf(i) = <<>>
         /\ i # 1 => BaseOf(i) = BaseOf(i - 1) \o BasePart(i - 1)
         /\ i # 1 => BasePart(i - 1) \in Seq(Spellings)
  <1>1. Top \in Nat /\ i \in Nat /\ i >= 1
    BY LayerFacts DEF Inv
  <1>2. ASSUME NEW k \in 1..(i - 1)
        PROVE  BasePart(k) \in Seq(Spellings)
    <2>1. k + 1 \in 2..Top
      BY <1>1
    <2>2. layers[k + 1].module.base \in Seq(Names)
      BY <2>1, LayerFacts DEF Inv, ModuleLayer, ModuleSet
    <2> QED
      BY <2>2, CodeFacts, EmptySeq DEF BasePart
  <1>3. CASE i = 1
    <2>1. [k \in 1..(i - 1) |-> BasePart(k)] = <<>>
      BY <1>3
    <2>2. FlattenSeq(<<>>) = <<>>
      BY DEF FlattenSeq
    <2> QED
      BY <1>3, <2>1, <2>2, EmptySeq DEF BaseOf
  <1>4. CASE i # 1
    <2> DEFINE s == [k \in 1..(i - 1) |-> BasePart(k)]
               n == i - 1
               t == [k \in 1..(n - 1) |-> s[k]]
    <2>1. n \in Nat /\ n # 0 /\ s \in [1..n -> Seq(Spellings)]
      BY <1>1, <1>2, <1>4
    <2>2. t = [k \in 1..(n - 1) |-> BasePart(k)] /\ s[n] = BasePart(n)
      BY <2>1
    <2> HIDE DEF s, t
    <2>3. FlattenSeq(s) \in Seq(Spellings) /\ FlattenSeq(s) = FlattenSeq(t) \o s[n]
      BY <2>1, FlattenStep DEF t
    <2>4. FlattenSeq(s) = BaseOf(i) /\ FlattenSeq(t) = BaseOf(n)
      BY <2>2 DEF BaseOf, s
    <2>5. BasePart(n) \in Seq(Spellings)
      BY <1>2, <2>1
    <2> QED
      BY <1>4, <2>2, <2>3, <2>4, <2>5
  <1> QED
    BY <1>3, <1>4

(* The converting layer is the only one of its stack.                       *)
LEMMA OneConverter ==
  ASSUME Inv, OneIconv, phase # "gone", NEW i \in 2..Top, NEW j \in 2..Top,
         layers[i].kind = "iconv", layers[j].kind = "iconv"
  PROVE  i = j
  <1>1. PICK stack \in Stacks :
          Top - 1 <= Len(stack) /\ \A n \in 2..Top : layers[n].module = stack[n - 1]
    BY DEF Inv, StackOK
  <1>2. stack \in Seq(ModuleSet)
    BY StackAssumption DEF ModuleSet, Kinds
  <1>3. Top \in Nat /\ Len(stack) \in Nat /\ DOMAIN stack = 1..Len(stack)
    BY <1>2, LayerFacts, LenProperties DEF Inv
  <1>4. layers[i].module.kind = "iconv" /\ layers[j].module.kind = "iconv"
    BY LayerFacts DEF Inv, ModuleLayer, Intact
  <1>5. i - 1 \in DOMAIN stack /\ j - 1 \in DOMAIN stack
    BY <1>1, <1>3
  <1>6. i - 1 = j - 1
    BY <1>1, <1>4, <1>5 DEF OneIconv
  <1> QED
    BY <1>3, <1>6

(* One layer down a path still leads to the same place, and still has a     *)
(* name on the file system.                                                 *)
LEMMA PlacedBelow ==
  ASSUME Inv, OneIconv, phase # "gone", call.at \in 2..Top, ~Refuses(Here, Args),
         NEW op, Args \in Seq(PathOrNull), NEW j \in DOMAIN Args,
         op = "symlink" => Args[j] # Null
  PROVE  /\ Placed(call.at - 1, op, j, Mapped(Here, op, Args)[j]) = Placed(call.at, op, j, Args[j])
         /\ HasIconv(call.at - 1) => HasIconv(call.at)
         /\ HasIconv(call.at - 1) /\ ~BaseFails /\ Converts(Args[j]) =>
              Converts(Mapped(Here, op, Args)[j])
  <1> DEFINE i == call.at
             p == Args[j]
             q == Mapped(Here, op, Args)[j]
  <1>1. /\ Top \in Nat /\ i \in 2..Top /\ i - 1 \in 1..Top /\ i \in 1..Top /\ i # 1
        /\ Here = layers[i] /\ Here.kind \in Kinds /\ Here.module \in ModuleSet
    BY LayerFacts, HereIsModule DEF Inv, Intact, Here
  <1>2. p \in PathOrNull
    BY LenProperties, ElementOfSeq
  <1>3. /\ BaseOf(i) = BaseOf(i - 1) \o BasePart(i - 1)
        /\ BaseOf(i - 1) \in Seq(Spellings) /\ BasePart(i - 1) \in Seq(Spellings)
    BY <1>1, BaseFacts
  <1>4. Null \notin Seq(Names)
    BY StackAssumption
  <1> DEFINE b == Here.module.base
  <1>5. b \in Seq(Names)
    BY <1>1 DEF ModuleSet
  <1>6. HasIconv(i) <=> HasIconv(i - 1) \/ Here.kind = "iconv"
    BY <1>1 DEF HasIconv
  <1>7. CASE Here.kind = "subdir"
    <2>1. HasIconv(i) <=> HasIconv(i - 1)
      BY <1>6, <1>7
    <2>2. BasePart(i - 1) = Code(i - 1, b)
      BY <1>1, <1>7 DEF BasePart
    <2>3. CASE op = "symlink" /\ j = 1
      <3>1. q = p /\ p \in Seq(Names)
        BY <1>2, <1>7, <2>3 DEF Mapped, PathOrNull
      <3>2. Code(i - 1, p) = Code(i, p)
        BY <2>1, <3>1, CodeFacts
      <3> HIDE DEF p, q, i
      <3> QED
        BY <2>1, <2>3, <3>1, <3>2 DEF Placed, p, q, i
    <2>4. CASE ~(op = "symlink" /\ j = 1) /\ p = Null
      <3>1. q = Null
        BY <1>7, <2>4 DEF Mapped, AddPath
      <3> QED
        BY <2>1, <2>4, <3>1 DEF Placed, Converts
    <2>5. CASE ~(op = "symlink" /\ j = 1) /\ p # Null
      <3>1. q = b \o p /\ p \in Seq(Names) /\ b \o p \in Seq(Names)
        BY <1>2, <1>5, <1>7, <2>5, ConcatProperties DEF Mapped, AddPath, PathOrNull
      <3>2. Code(i, p) = Code(i - 1, p)
        BY <2>1, <3>1, CodeFacts
      <3>3. Code(i - 1, q) = Code(i - 1, b) \o Code(i - 1, p)
        BY <1>5, <3>1, CodeOfConcat
      <3>4. /\ Code(i - 1, b) \in Seq(Spellings) /\ Code(i - 1, p) \in Seq(Spellings)
        BY <1>5, <3>1, CodeFacts
      <3>5. BaseOf(i - 1) \o (Code(i - 1, b) \o Code(i - 1, p))
              = (BaseOf(i - 1) \o Code(i - 1, b)) \o Code(i - 1, p)
        <4> DEFINE s == BaseOf(i - 1)
                   t == Code(i - 1, b)
                   u == Code(i - 1, p)
        <4>1. s \in Seq(Spellings) /\ t \in Seq(Spellings) /\ u \in Seq(Spellings)
          BY <1>3, <3>4
        <4> HIDE DEF s, t, u
        <4>2. (s \o t) \o u = s \o (t \o u)
          BY <4>1, Regroup, SMTT(30)
        <4> QED
          BY <4>2 DEF s, t, u
      <3>6. Placed(i - 1, op, j, q) = BaseOf(i - 1) \o Code(i - 1, q)
        BY <1>4, <2>5, <3>1 DEF Placed
      <3>7. Placed(i, op, j, p) = BaseOf(i) \o Code(i, p)
        BY <2>5 DEF Placed
      <3>8. ~BaseFails /\ Converts(p) => Converts(q)
        <4>1. SUFFICES ASSUME ~BaseFails, Converts(p)
                       PROVE  Converts(q)
          OBVIOUS
        <4>2. Converts(b)
          BY <1>1, <1>7, <4>1 DEF BaseFails
        <4>3. ToSet(b) \subseteq DOMAIN Encoding /\ ToSet(p) \subseteq DOMAIN Encoding
          BY <1>4, <1>5, <2>5, <4>1, <4>2 DEF Converts
        <4>4. ToSet(b \o p) \subseteq ToSet(b) \cup ToSet(p)
          BY <1>5, <3>1, ConcatProperties, LenProperties DEF ToSet
        <4> QED
          BY <3>1, <4>3, <4>4 DEF Converts
      <3> HIDE DEF p, q, i, b
      <3> QED
        BY <1>3, <2>1, <2>2, <3>2, <3>3, <3>5, <3>6, <3>7, <3>8 DEF p, q, i
    <2> QED
      BY <2>3, <2>4, <2>5
  <1>8. CASE Here.kind = "iconv"
    <2>1. HasIconv(i) /\ ~HasIconv(i - 1)
      <3>1. ASSUME NEW n \in 2..(i - 1), layers[n].kind = "iconv"
            PROVE  FALSE
        <4>1. n \in 2..Top /\ n # i
          BY <1>1
        <4> QED
          BY <1>1, <1>8, <3>1, <4>1, OneConverter
      <3> QED
        BY <1>6, <1>8, <3>1 DEF HasIconv
    <2>2. BasePart(i - 1) = <<>>
      BY <1>1, <1>8 DEF BasePart
    <2>3. BaseOf(i) = BaseOf(i - 1)
      BY <1>3, <2>2, ConcatEmptySeq
    <2>4. q = ConvertPath(p) /\ Converts(p)
      BY <1>8 DEF Mapped, Refuses
    <2>5. CASE p = Null
      <3>1. q = Null /\ op # "symlink"
        BY <2>4, <2>5 DEF ConvertPath
      <3> QED
        BY <2>1, <2>5, <3>1 DEF Placed
    <2>6. CASE p # Null
      <3>1. p \in Seq(Names) /\ q \in Seq(Names) /\ q = [k \in DOMAIN p |-> Encoding[p[k]]]
        BY <1>2, <2>4, <2>6, ConvertFacts DEF PathOrNull
      <3>2. Code(i - 1, q) = q /\ Code(i, p) = q
        BY <2>1, <3>1, CodeFacts
      <3> HIDE DEF p, q, i
      <3>3. q # Null
        BY <1>4, <3>1
      <3> QED
        BY <2>1, <2>3, <2>6, <3>2, <3>3 DEF Placed, p, q, i
    <2> QED
      BY <2>5, <2>6
  <1> QED
    BY <1>1, <1>7, <1>8 DEF Kinds

-----------------------------------------------------------------------------
(* Every step of a request keeps its paths leading to the same place.       *)

(* A request is neither init nor destroy.                                   *)
LEMMA RequestsAreNotLife ==
  ASSUME NEW op \in Requests
  PROVE  op \notin LifeOps /\ op # "destroy" /\ op # "init" /\ op \in Operations
  BY DEF Requests, NameOps, OpenOps, BufferOps, HandleOps, AttributeOps, XattrOps, DeviceOps,
         LifeOps, Operations

(* What the answer tells does not depend on where the call is.              *)
LEMMA ArrivedStays ==
  ASSUME UNCHANGED layers, call'.op = call.op, call'.args = call.args,
         call'.reached = call.reached,
         call.reached # <<>> \/ call'.answer.error = call.answer.error
  PROVE  Arrived => Arrived'
  <1>1. Top' = Top /\ System' = System /\ Asked' = Asked
    BY DEF Top, System, Asked
  <1>2. BelowAll(call.op, Asked)' = BelowAll(call.op, Asked)
    BY <1>1 DEF BelowAll, Below, Code, Base
  <1>3. BaseFails' <=> BaseFails
    BY <1>1 DEF BaseFails
  <1>4. Hidden' <=> Hidden
    BY <1>1 DEF Hidden
  <1> QED
    BY <1>1, <1>2, <1>3, <1>4 DEF Arrived

(* Where a path leads depends on the layers alone.                          *)
LEMMA PlacesStay ==
  ASSUME UNCHANGED layers
  PROVE  /\ \A i, op, j, path : Placed(i, op, j, path)' = Placed(i, op, j, path)
         /\ \A i : HasIconv(i)' <=> HasIconv(i)
         /\ Top' = Top /\ (BaseFails' <=> BaseFails)
  BY DEF Placed, Code, BaseOf, BasePart, HasIconv, BaseFails, Top

(* The wrapper of a lower layer chooses as it would for what was asked.     *)
LEMMA ChosenSame ==
  ASSUME NEW ops, NEW op, NEW a \in Seq(PathOrNull), NEW b \in Seq(PathOrNull), SameShape(a, b)
  PROVE  Chosen(ops, op, a) = Chosen(ops, op, b)
  <1>1. a = <<Null>> <=> b = <<Null>>
    <2>1. ASSUME NEW s \in Seq(PathOrNull), NEW t \in Seq(PathOrNull), SameShape(s, t), s = <<Null>>
          PROVE  t = <<Null>>
      <3>1. Len(s) = 1 /\ DOMAIN s = 1..1 /\ s[1] = Null
        BY <2>1
      <3>2. Len(t) \in Nat /\ DOMAIN t = 1..Len(t)
        BY LenProperties
      <3>3. 1..Len(t) = 1..1 /\ t[1] = Null
        BY <2>1, <3>1, <3>2 DEF SameShape
      <3>4. Len(t) = 1
        BY <3>2, <3>3
      <3> QED
        BY <3>3, <3>4
    <2>2. SameShape(b, a)
      BY DEF SameShape
    <2> QED
      BY <2>1, <2>2
  <1> QED
    BY <1>1 DEF Chosen

(* A call on its way: what is known of its arguments.                       *)
LEMMA ArgsFacts ==
  ASSUME Inv, ~Idle, Down
  PROVE  /\ Args \in Seq(PathOrNull) /\ Asked \in Seq(PathOrNull) /\ SameShape(Args, Asked)
         /\ call.at \in 1..Top /\ Top \in Nat /\ Len(call.args) = Top /\ call.reached = <<>>
         /\ call.answer = NoAnswer
  <1>1. /\ call.at \in 1..Top /\ Top \in Nat /\ Top >= 1 /\ Len(call.args) = Top
        /\ call.reached = <<>> /\ call.answer = NoAnswer
    BY LayerFacts DEF Inv, StageOK, Down
  <1>2. call.args \in Seq(Seq(PathOrNull))
    BY CallFields DEF Inv
  <1>3. Args \in Seq(PathOrNull) /\ Asked \in Seq(PathOrNull)
    BY <1>1, <1>2, ElementOfSeq DEF Args, Asked
  <1> QED
    BY <1>1, <1>3 DEF Inv, ShapeOK, Args

(* A step that leaves a call where it is.                                   *)
LEMMA EnterPaths ==
  ASSUME Inv, PathsOK, Enter
  PROVE  PathsOK'
  <1> SUFFICES ASSUME call'.op \in Requests, ~Idle'
               PROVE  /\ Down' => \A j \in DOMAIN Args' :
                           Placed(call.at, call.op, j, Args[j])' = Placed(Top, call.op, j, Asked[j])'
                      /\ Down' /\ HasIconv(call.at)' /\ AllConvert' =>
                           \A j \in DOMAIN Args' : Converts(Args[j])'
                      /\ ~Down' => Arrived'
    BY DEF PathsOK
  <1> DEFINE chosen == Chosen(Here.ops, call.op, Args)
  <1>1. /\ call.stage = "enter" /\ UNCHANGED layers
        /\ call' = IF chosen # "none"
                   THEN [call EXCEPT !.stage = IF call.at = 1 THEN "bottom" ELSE "body"]
                   ELSE [call EXCEPT !.stage = "back",
                                     !.answer = [NoAnswer EXCEPT !.error = Default(call.op)]]
    BY DEF Enter
  <1>2. ~Idle /\ Down
    BY <1>1 DEF Idle, Down
  <1> HIDE DEF chosen
  <1>3. /\ call'.op = call.op /\ call'.at = call.at /\ call'.args = call.args
        /\ call'.reached = call.reached
        /\ Down' <=> chosen # "none"
        /\ chosen = "none" => call'.answer.error = Default(call.op)
    BY <1>1, NoCallFacts DEF Inv, Calls, Down, Answers
  <1>4. call.op \in Requests /\ Args' = Args /\ Asked' = Asked
    BY <1>1, <1>3 DEF Args, Asked, Top
  <1>5. CASE chosen # "none"
    <2>1. Down' /\ (AllConvert' <=> AllConvert)
      BY <1>1, <1>3, <1>4, <1>5, PlacesStay DEF AllConvert
    <2> QED
      BY <1>1, <1>2, <1>3, <1>4, <2>1, PlacesStay DEF PathsOK
  <1>6. CASE chosen = "none"
    <2>1. Chosen(System.ops, call.op, Asked) = "none" \/ Hidden
      <3>1. CASE call.at = 1
        <4>1. layers[1].ops = System.ops
          BY <1>2, <1>4, RequestsAreNotLife DEF Inv, LayersOK, PhaseOK
        <4> QED
          BY <1>2, <1>6, <3>1, <4>1, ArgsFacts, ChosenSame DEF chosen, Here
      <3>2. CASE call.at # 1
        <4>1. call.at \in 2..Top
          BY <1>2, <3>2, ArgsFacts
        <4>2. call.op \notin layers[call.at].ops
          BY <1>4, <1>6 DEF chosen, Chosen, Here, Requests, NameOps, OpenOps, BufferOps, HandleOps,
             AttributeOps, XattrOps, DeviceOps
        <4> QED
          BY <4>1, <4>2 DEF Hidden
      <3> QED
        BY <3>1, <3>2
    <2>2. System' = System /\ (Hidden' <=> Hidden)
      BY <1>1, <1>3 DEF System, Hidden, Top
    <2>3. call'.reached = <<>>
      BY <1>2, <1>3, ArgsFacts
    <2> QED
      BY <1>3, <1>4, <1>6, <2>1, <2>2, <2>3 DEF Arrived
  <1> QED
    BY <1>5, <1>6

(* At the bottom, the place of a path is the path.                          *)
LEMMA BottomPaths ==
  ASSUME Inv, PathsOK, Bottom
  PROVE  PathsOK'
  <1> SUFFICES ASSUME call'.op \in Requests
               PROVE  ~Down' /\ Arrived'
    BY DEF PathsOK
  <1> DEFINE op == Chosen(Here.ops, call.op, Args)
             names == IF op \in {"readdir", "getdir"} THEN Entries ELSE {}
  <1>1. PICK error, link :
           call' = [call EXCEPT !.stage = "back", !.reached = <<op, Args, link>>,
                                !.confused = @ \/ private # Here.data,
                                !.answer = [error |-> error, link |-> link, short |-> FALSE, names |-> names]]
    BY DEF Bottom
  <1>2. /\ call.stage = "bottom"
        /\ layers' = IF op = "init" THEN [layers EXCEPT ![1].data = "own"] ELSE layers
    BY DEF Bottom
  <1>3. /\ call.at = 1 /\ ~Idle /\ Down
    BY <1>2 DEF Inv, StageOK, Idle, Down
  <1> HIDE DEF op, names
  <1>4. /\ call'.op = call.op /\ call'.stage = "back" /\ call'.args = call.args
        /\ call'.reached = <<op, Args, link>>
    BY <1>1 DEF Inv, Calls
  <1>5. layers' = layers
    <2>1. call.op \in Requests
      BY <1>4
    <2>2. op # "init"
      BY <2>1, RequestsAreNotLife DEF op, Chosen, Substitute
    <2> QED
      BY <1>2, <2>2
  <1>6. phase # "gone" /\ call.op \in Requests
    BY <1>3, <1>4, RequestsAreNotLife DEF Inv, PhaseOK
  <1>7. op = Chosen(System.ops, call.op, Asked)
    <2>1. layers[1].ops = System.ops
      BY <1>6 DEF Inv, LayersOK
    <2> QED
      BY <1>3, <2>1, ArgsFacts, ChosenSame DEF op, Here
  <1>8. Args = BelowAll(call.op, Asked)
    <2>1. Args \in Seq(PathOrNull) /\ Asked \in Seq(PathOrNull) /\ SameShape(Args, Asked)
          /\ 1 \in 1..Top
      BY <1>3, ArgsFacts
    <2>2. ASSUME NEW j \in DOMAIN Args
          PROVE  Args[j] = BelowAll(call.op, Asked)[j]
      <3>1. Placed(1, call.op, j, Args[j]) = Placed(Top, call.op, j, Asked[j])
        BY <1>3, <1>6 DEF PathsOK
      <3>2. j \in DOMAIN Asked /\ (Args[j] = Null <=> Asked[j] = Null)
        BY <2>1 DEF SameShape
      <3>3. BelowAll(call.op, Asked)[j] = Placed(Top, call.op, j, Asked[j])
        BY <3>2 DEF BelowAll, Below, Placed, Base, BaseOf, BasePart
      <3>4. Placed(1, call.op, j, Args[j]) = Args[j]
        <4>1. CASE Args[j] = Null
          <5>1. ~(call.op = "symlink" /\ j = 1)
            BY <1>3, <3>2, <4>1 DEF Inv, AskedOK, TwoPaths
          <5> QED
            BY <4>1, <5>1 DEF Placed
        <4>2. CASE Args[j] # Null
          <5>1. Args[j] \in Seq(Names)
            BY <2>1, <4>2, LenProperties, ElementOfSeq DEF PathOrNull
          <5>2. Code(1, Args[j]) = Args[j] /\ Args[j] \in Seq(Spellings)
            <6>1. ~HasIconv(1)
              BY DEF HasIconv
            <6> QED
              BY <5>1, <6>1, CodeFacts
          <5>3. BaseOf(1) = <<>>
            BY <1>6, <2>1, BaseFacts
          <5>4. <<>> \o Args[j] = Args[j]
            BY <5>2, ConcatEmptySeq
          <5> QED
            BY <4>2, <5>2, <5>3, <5>4 DEF Placed
        <4> QED
          BY <4>1, <4>2
      <3> QED
        BY <3>1, <3>3, <3>4
    <2>3. DOMAIN BelowAll(call.op, Asked) = DOMAIN Args
      BY <2>1 DEF BelowAll, SameShape
    <2>4. Args = [j \in DOMAIN Args |-> Args[j]]
      BY <2>1
    <2>5. BelowAll(call.op, Asked) = [j \in DOMAIN Args |-> BelowAll(call.op, Asked)[j]]
      BY <2>3 DEF BelowAll
    <2> QED
      BY <2>2, <2>4, <2>5
  <1>9. Top' = Top /\ System' = System /\ Asked' = Asked
        /\ BelowAll(call.op, Asked)' = BelowAll(call.op, Asked)
    BY <1>4, <1>5 DEF Top, System, Asked, BelowAll, Below, Code, Base
  <1> QED
    BY <1>4, <1>7, <1>8, <1>9 DEF Arrived, Down

(* Through a module, or back from one that fails.                           *)
LEMMA BodyPaths ==
  ASSUME Inv, PathsOK, OneIconv, Body
  PROVE  PathsOK'
  <1> SUFFICES ASSUME call'.op \in Requests, ~Idle'
               PROVE  /\ Down' => \A j \in DOMAIN Args' :
                           Placed(call.at, call.op, j, Args[j])' = Placed(Top, call.op, j, Asked[j])'
                      /\ Down' /\ HasIconv(call.at)' /\ AllConvert' =>
                           \A j \in DOMAIN Args' : Converts(Args[j])'
                      /\ ~Down' => Arrived'
    BY DEF PathsOK
  <1>1. call.stage = "body" /\ UNCHANGED layers
    BY DEF Body
  <1>2. ~Idle /\ Down /\ call.at \in 2..Top
    BY <1>1 DEF Inv, StageOK, Idle, Down
  <1>3. /\ Args \in Seq(PathOrNull) /\ Asked \in Seq(PathOrNull) /\ SameShape(Args, Asked)
        /\ Top \in Nat /\ Len(call.args) = Top /\ call.reached = <<>>
    BY <1>2, ArgsFacts
  <1>4. CASE /\ ~Refuses(Here, Args)
             /\ call' = [call EXCEPT !.stage = "enter", !.at = @ - 1,
                                     !.args[call.at - 1] = Mapped(Here, call.op, Args),
                                     !.confused = @ \/ private # Here.data]
    <2> DEFINE mapped == Mapped(Here, call.op, Args)
               i == call.at
    <2>1. mapped \in Seq(PathOrNull) /\ SameShape(mapped, Args)
      <3>1. Intact(i)
        BY <1>1 DEF Intact
      <3> QED
        BY <1>2, <1>3, <1>4, <3>1, HereIsModule, MappedFacts
    <2> HIDE DEF mapped
    <2>2. /\ call'.op = call.op /\ call'.at = i - 1 /\ call'.stage = "enter"
          /\ call'.args = [call.args EXCEPT ![i - 1] = mapped]
      BY <1>4 DEF Inv, Calls, mapped
    <2>3. /\ Args' = mapped /\ Asked' = Asked /\ call.op \in Requests /\ Down'
      <3>1. DOMAIN call.args = 1..Top
        BY <1>3, CallFields, LenProperties DEF Inv
      <3> QED
        BY <1>1, <1>2, <1>3, <2>2, <3>1 DEF Args, Asked, Top, Down
    <2>4. phase # "gone"
      BY <1>2, <2>3, RequestsAreNotLife DEF Inv, PhaseOK
    <2>5. ASSUME NEW j \in DOMAIN mapped
          PROVE  /\ Placed(i - 1, call.op, j, mapped[j]) = Placed(Top, call.op, j, Asked[j])
                 /\ HasIconv(i - 1) /\ AllConvert => Converts(mapped[j])
      <3>1. j \in DOMAIN Args /\ j \in DOMAIN Asked /\ (Args[j] = Null <=> Asked[j] = Null)
        BY <1>3, <2>1 DEF SameShape
      <3>2. call.op = "symlink" => Args[j] # Null
        BY <1>2, <3>1 DEF Inv, AskedOK, TwoPaths
      <3>3. /\ Placed(i - 1, call.op, j, mapped[j]) = Placed(i, call.op, j, Args[j])
            /\ HasIconv(i - 1) => HasIconv(i)
            /\ HasIconv(i - 1) /\ ~BaseFails /\ Converts(Args[j]) => Converts(mapped[j])
        BY <1>2, <1>3, <1>4, <2>4, <3>1, <3>2, PlacedBelow DEF mapped
      <3>4. /\ Placed(i, call.op, j, Args[j]) = Placed(Top, call.op, j, Asked[j])
            /\ HasIconv(i) /\ AllConvert => Converts(Args[j])
        BY <1>2, <2>3, <3>1 DEF PathsOK
      <3> QED
        BY <3>3, <3>4 DEF AllConvert
    <2>6. AllConvert' <=> AllConvert
      BY <1>1, <2>3, PlacesStay DEF AllConvert
    <2> QED
      BY <1>1, <2>2, <2>3, <2>5, <2>6, PlacesStay
  <1>5. ASSUME NEW error \in {"ENOMEM"} \cup (IF Refuses(Here, Args) THEN {"EILSEQ"} ELSE {}),
               call' = [call EXCEPT !.stage = "back", !.answer = [NoAnswer EXCEPT !.error = error]]
        PROVE  ~Down' /\ Arrived'
    <2>1. /\ call'.op = call.op /\ call'.stage = "back" /\ call'.args = call.args
          /\ call'.reached = <<>> /\ call'.answer.error = error
      BY <1>3, <1>5, NoCallFacts DEF Inv, Calls, Answers
    <2>2. Asked' = Asked /\ (BaseFails' <=> BaseFails)
      BY <1>1, <2>1, PlacesStay DEF Asked, Top
    <2>3. CASE error = "ENOMEM"
      BY <2>1, <2>3 DEF Arrived, Down
    <2>4. CASE error = "EILSEQ" /\ Refuses(Here, Args)
      <3>1. PICK j \in DOMAIN Args : ~Converts(Args[j])
        BY <2>4 DEF Refuses
      <3>2. HasIconv(call.at)
        <4>1. call.at \in 2..call.at /\ layers[call.at].kind = "iconv"
          BY <1>2, <1>3, <2>4 DEF Refuses, Here
        <4> QED
          BY <4>1 DEF HasIconv
      <3>3. ~AllConvert
        BY <1>2, <2>1, <3>1, <3>2 DEF PathsOK
      <3> QED
        BY <2>1, <2>2, <2>4, <3>3 DEF Arrived, Down, AllConvert
    <2> QED
      BY <1>5, <2>3, <2>4
  <1> QED
    BY <1>4, <1>5 DEF Body

(* Going back up leaves the paths of the call as they are.                  *)
LEMMA BackPaths ==
  ASSUME Inv, PathsOK, Back
  PROVE  PathsOK'
  <1> SUFFICES ASSUME call'.op \in Requests
               PROVE  ~Down' /\ Arrived'
    BY DEF PathsOK
  <1>0. PICK answer \in Passed(Here, call.answer) :
          call' = [call EXCEPT !.answer = answer, !.at = call.at + 1,
                               !.stage = IF call.at = Len(call.args) THEN "done" ELSE "back"]
    BY DEF Back
  <1>1. call.stage = "back" /\ (call.op # "destroy" => UNCHANGED layers)
    BY DEF Back
  <1>2. /\ call'.op = call.op /\ call'.args = call.args /\ call'.reached = call.reached
        /\ call'.answer = answer /\ call'.stage \in {"done", "back"}
    BY <1>0 DEF Inv, Calls
  <1>3. /\ call.op \in Requests /\ UNCHANGED layers /\ ~Idle /\ ~Down /\ Arrived
    BY <1>1, <1>2, RequestsAreNotLife DEF Idle, Down, PathsOK
  <1>4. call.reached = <<>> => call'.answer.error = call.answer.error
    <2>1. call.reached = <<>> => call.answer.link = Null
      BY DEF Inv, StageOK
    <2>2. Here.kind \in Kinds \cup {"fs"} /\ (Here.kind \in Kinds => Here.module \in ModuleSet)
      <3>1. Intact(call.at) /\ call.at \in 1..Top /\ Top \in Nat
        BY <1>1, LayerFacts DEF Inv, StageOK, Intact
      <3>2. CASE call.at = 1
        BY <3>1, <3>2 DEF Inv, LayersOK, Here, Kinds
      <3>3. CASE call.at # 1
        BY <3>1, <3>3, HereIsModule
      <3> QED
        BY <3>2, <3>3
    <2> QED
      BY <1>0, <1>2, <2>1, <2>2, CallFields, PassedFacts DEF Inv
  <1> QED
    BY <1>2, <1>3, <1>4, ArrivedStays DEF Down

(* A request begins with the paths the handler gave.                        *)
LEMMA RequestPaths ==
  ASSUME Inv, Request
  PROVE  PathsOK'
  <1>1. UNCHANGED layers
    BY DEF Request
  <1>2. PICK op, args : Begin(op, args)
    BY DEF Request
  <1>3. call'.stage = "enter" /\ call'.at = Top
    BY <1>2 DEF Begin, NoCall
  <1>4. Args' = Asked' /\ Top' = Top /\ Down'
    BY <1>1, <1>3 DEF Args, Asked, Top, Down
  <1> QED
    BY <1>3, <1>4 DEF PathsOK, AllConvert

(* Every step keeps PathsOK.                                                *)
LEMMA PathsNext ==
  ASSUME Inv, PathsOK, OneIconv, [Next]_vars
  PROVE  PathsOK'
  <1>1. CASE Push
    <2>1. Idle'
      BY <1>1 DEF Push, Idle
    <2> QED
      BY <2>1 DEF PathsOK
  <1>2. CASE PushFails \/ Start \/ Stop
    <2>1. call'.op \in LifeOps
      BY <1>2 DEF PushFails, Start, Stop, Begin, NoCall, LifeOps
    <2> QED
      BY <2>1, RequestsAreNotLife DEF PathsOK
  <1>3. CASE Finish
    <2>1. Idle'
      BY <1>3, NoCallFacts DEF Finish, Idle
    <2> QED
      BY <2>1 DEF PathsOK
  <1>4. CASE UNCHANGED vars
    <2>1. UNCHANGED <<layers, call>>
      BY <1>4 DEF vars
    <2>2. Args' = Args /\ Asked' = Asked /\ Top' = Top
      BY <2>1 DEF Args, Asked, Top
    <2>3. Arrived => Arrived'
      BY <2>1, ArrivedStays
    <2> QED
      BY <2>1, <2>2, <2>3, PlacesStay DEF PathsOK, AllConvert, Idle, Down
  <1> QED
    BY <1>1, <1>2, <1>3, <1>4, RequestPaths, EnterPaths, BottomPaths, BodyPaths, BackPaths DEF Next

(* Through any stack with one iconv module or none, a request reaches the   *)
(* file system with its paths below all the bases and in its encoding, once,*)
(* each layer with its own data in the context; if it does not, the error   *)
(* says why.                                                                *)
THEOREM CallsDoArrive == ASSUME OneIconv PROVE Spec => []CallsArrive
  <1>1. Init => PathsOK
    BY NoCallFacts DEF Init, PathsOK, Idle
  <1>2. Inv /\ PathsOK /\ [Next]_vars => PathsOK'
    BY PathsNext
  <1>3. Inv /\ PathsOK => CallsArrive
    <2> SUFFICES ASSUME Inv, PathsOK
                 PROVE  CallsArrive
      OBVIOUS
    <2>1. ~call.confused
      BY CallFields DEF Inv
    <2>2. Answered => Arrived
      BY DEF Answered, PathsOK, Idle, Down
    <2> QED
      BY <2>1, <2>2 DEF CallsArrive, Arrived
  <1> QED
    BY <1>1, <1>2, <1>3, StackInvariant, PTL DEF Spec

-----------------------------------------------------------------------------
(* What comes back.                                                         *)

(* Only the lowest subdir of a stack makes links relative.                  *)
LowestRelative ==
  \A stack \in Stacks : \A i, j \in DOMAIN stack :
    stack[i].kind = "subdir" /\ stack[j].kind = "subdir" /\ i < j =>
      ~(stack[j].abs /\ stack[j].rellinks)

(* No link is read at the root of the mount, which is a directory.          *)
RootIsNoLink == <<>> \notin Paths

Up == call.stage \in {"back", "done"}
Reading == call.op = "readlink" /\ ~Idle
Passing(i) == (Down /\ i > call.at) \/ call.reached # <<>>

(* The target t is reached from the link at p by up steps up and then names.*)
Climbs(t, p, up, names) ==
  /\ up \in 0..(Len(p) - 1)
  /\ Len(t) = Len(p) - 1 - up + Len(names)
  /\ \A k \in 1..(Len(p) - 1 - up) : t[k] = p[k]
  /\ \A k \in 1..Len(names) : t[Len(p) - 1 - up + k] = names[k]

(* The wrapper of the file system calls what the file system has.           *)
BottomOK == call.stage = "bottom" => Chosen(Here.ops, call.op, Args) # "none"

(* Each module that was passed converted what it was called with.           *)
ChainOK ==
  Reading =>
    /\ Asked[1] \in Paths
    /\ \A i \in 2..Top : Passing(i) =>
         ~Refuses(layers[i], call.args[i])
         /\ call.args[i - 1] = Mapped(layers[i], "readlink", call.args[i])

(* A single subdir that makes links relative leaves only those alone that   *)
(* are not below its base, that are below the link itself or whose relative *)
(* form does not fit.                                                       *)
OneSubdirLeaves(i, t, p) ==
  Top = 2 /\ i = 2 /\ layers[2].kind = "subdir" /\ layers[2].module.abs
    /\ layers[2].module.rellinks =>
      \/ ~IsStrictPrefix(Base, t.names)
      \/ IsStrictPrefix(p, t.names)
      \/ \E long \in TooLong : /\ ~long.abs /\ long.names \in Seq(Names)
                               /\ Climbs(t.names, p, long.up, long.names)
                               /\ Len(Base) <= Len(p) - 1 - long.up

(* The names that can be encoded below layer i.                             *)
Convertible(i, path) == HasIconv(i) => ToSet(path) \subseteq DOMAIN Encoding

(* What layer i makes of the target t of the link at p: it is still the     *)
(* target, or relative to p; it leads out of no base that the target is in. *)
LinkFits(i, t, p, link) ==
  /\ t \in Links /\ link # Null /\ Convertible(i, link.names)
  /\ t.abs /\ link.abs => Code(i, link.names) = t.names /\ OneSubdirLeaves(i, t, p)
  /\ t.abs /\ ~link.abs =>
       /\ Climbs(t.names, p, link.up, Code(i, link.names))
       /\ IsPrefix(Base, t.names) => Len(Base) <= Len(p) - 1 - link.up

(* The link that the layers below call.at have passed on, unless iconv cut  *)
(* it.                                                                      *)
LinkOK ==
  Reading /\ Up /\ call.answer.error = "0" =>
    /\ call.reached # <<>>
    /\ call.answer.short \/ LinkFits(call.at - 1, call.reached[3], call.reached[2][1], call.answer.link)
    /\ call.answer.short => HasIconv(call.at - 1)

(* What layer i makes of the entries.                                       *)
Visible(i) ==
  IF HasIconv(i) THEN {n \in DOMAIN Encoding : Encoding[n] \in Entries} ELSE Entries
NamesFit(i, answer) ==
  /\ answer.names \subseteq Visible(i)
  /\ answer.names = Visible(i) \/ answer.short
  /\ answer.short => HasIconv(i)

(* The entries below layer call.at.                                         *)
NamesOK ==
  call.op = "readdir" /\ Up /\ call.answer.error = "0" => NamesFit(call.at - 1, call.answer)
-----------------------------------------------------------------------------
(* Prefixes and encodings, element by element.                              *)

(* A prefix has the first elements of the other sequence.                   *)
LEMMA PrefixMeans ==
  ASSUME NEW S, NEW s \in Seq(S), NEW t \in Seq(S)
  PROVE  IsPrefix(s, t) <=> Len(s) <= Len(t) /\ \A k \in 1..Len(s) : s[k] = t[k]
  <1>1. Len(s) \in Nat /\ Len(t) \in Nat
        /\ (\A k \in 1..Len(s) : s[k] \in S) /\ (\A k \in 1..Len(t) : t[k] \in S)
    BY LenProperties, ElementOfSeq
  <1>2. CASE ~(Len(s) <= Len(t))
    BY <1>2 DEF IsPrefix
  <1>3. CASE Len(s) <= Len(t)
    <2> DEFINE a == SubSeq(s, 1, Len(s))
               b == SubSeq(t, 1, Len(s))
               n == Len(s)
    <2>1. /\ a \in Seq(S) /\ Len(a) = n /\ \A k \in 1..n : a[k] = s[k]
          /\ b \in Seq(S) /\ Len(b) = n /\ \A k \in 1..n : b[k] = t[k]
      <3>1. 1 \in Int /\ n \in Int /\ (\A k \in 1..n : s[k] \in S) /\ (\A k \in 1..n : t[k] \in S)
        BY <1>1, <1>3
      <3>2. /\ a \in Seq(S) /\ Len(a) = (IF 1 <= n THEN n - 1 + 1 ELSE 0)
            /\ \A k \in 1..(n - 1 + 1) : a[k] = s[1 + k - 1]
        BY <3>1, SubSeqProperties
      <3>3. /\ b \in Seq(S) /\ Len(b) = (IF 1 <= n THEN n - 1 + 1 ELSE 0)
            /\ \A k \in 1..(n - 1 + 1) : b[k] = t[1 + k - 1]
        BY <3>1, SubSeqProperties
      <3> HIDE DEF a, b
      <3>4. n - 1 + 1 = n /\ n \in Nat /\ \A k \in 1..n : 1 + k - 1 = k
        BY <1>1
      <3> HIDE DEF n
      <3> QED
        BY <3>2, <3>3, <3>4
    <2>2. IsPrefix(s, t) <=> a = b
      BY <1>3 DEF IsPrefix
    <2>3. a = b <=> \A k \in 1..n : a[k] = b[k]
      <3>1. (\A k \in 1..n : a[k] = b[k]) => a = b
        <4> HIDE DEF a, b, n
        <4> QED
          BY <2>1, SeqEqual
      <3> QED
        BY <3>1
    <2> HIDE DEF a, b
    <2> QED
      BY <1>3, <2>1, <2>2, <2>3
  <1> QED
    BY <1>2, <1>3

(* The first n elements of a path and the elements of a sequence from n on. *)
LEMMA Parts ==
  ASSUME NEW S, NEW s \in Seq(S), NEW n \in 0..Len(s)
  PROVE  /\ SubSeq(s, 1, n) \in Seq(S) /\ Len(SubSeq(s, 1, n)) = n
         /\ \A k \in 1..n : SubSeq(s, 1, n)[k] = s[k]
         /\ SubSeq(s, n + 1, Len(s)) \in Seq(S) /\ Len(SubSeq(s, n + 1, Len(s))) = Len(s) - n
         /\ \A k \in 1..(Len(s) - n) : SubSeq(s, n + 1, Len(s))[k] = s[n + k]
  <1>1. Len(s) \in Nat /\ \A k \in 1..Len(s) : s[k] \in S
    BY LenProperties, ElementOfSeq
  <1> DEFINE a == SubSeq(s, 1, n)
             b == SubSeq(s, n + 1, Len(s))
             m == Len(s)
  <1>2. /\ a \in Seq(S) /\ Len(a) = (IF 1 <= n THEN n - 1 + 1 ELSE 0)
        /\ \A k \in 1..(n - 1 + 1) : a[k] = s[1 + k - 1]
    <2>1. 1 \in Int /\ n \in Int /\ \A k \in 1..n : s[k] \in S
      BY <1>1
    <2> QED
      BY <2>1, SubSeqProperties
  <1>3. /\ b \in Seq(S) /\ Len(b) = (IF n + 1 <= m THEN m - (n + 1) + 1 ELSE 0)
        /\ \A k \in 1..(m - (n + 1) + 1) : b[k] = s[n + 1 + k - 1]
    <2>1. n + 1 \in Int /\ m \in Int /\ \A k \in (n + 1)..m : s[k] \in S
      BY <1>1
    <2> QED
      BY <2>1, SubSeqProperties
  <1> HIDE DEF a, b
  <1>4. m \in Nat /\ n \in Nat /\ n <= m
    BY <1>1
  <1> HIDE DEF m
  <1>5. n - 1 + 1 = n /\ (\A k \in 1..n : 1 + k - 1 = k)
        /\ m - (n + 1) + 1 = m - n /\ \A k \in 1..(m - n) : n + 1 + k - 1 = n + k
    BY <1>4
  <1>6. Len(a) = n /\ Len(b) = m - n
    BY <1>2, <1>3, <1>4
  <1>7. \A k \in 1..n : a[k] = s[k]
    BY <1>2, <1>5
  <1>8. \A k \in 1..(m - n) : b[k] = s[n + k]
    BY <1>3, <1>5
  <1> QED
    BY <1>2, <1>3, <1>6, <1>7, <1>8 DEF a, b, m

(* What strip_common computes: both have the first n names in common, and   *)
(* no longer prefix but the whole of two equal paths.                       *)
LEMMA CommonMeans ==
  ASSUME NEW l \in Seq(Names), NEW path \in Seq(Names)
  PROVE  LET n == Common(l, path) IN
         /\ n \in 0..Len(l) /\ n <= Len(path) /\ \A k \in 1..n : l[k] = path[k]
         /\ \A m \in 0..Len(l) : m <= Len(path) /\ (\A k \in 1..m : l[k] = path[k]) =>
              m <= n \/ (l = path /\ m = n + 1)
         /\ l = path => n = IF Len(path) = 0 THEN 0 ELSE Len(path) - 1
  <1>1. Len(l) \in Nat /\ Len(path) \in Nat
    BY LenProperties
  <1>2. PICK n0 \in 0..Len(l) :
          /\ IsPrefix(SubSeq(l, 1, n0), path)
          /\ ~(n0 < Len(l) /\ IsPrefix(SubSeq(l, 1, n0 + 1), path))
          /\ Common(l, path) = IF l = path /\ n0 > 0 THEN n0 - 1 ELSE n0
    BY CommonFacts
  <1>3. ASSUME NEW m \in 0..Len(l)
        PROVE  IsPrefix(SubSeq(l, 1, m), path) <=> m <= Len(path) /\ \A k \in 1..m : l[k] = path[k]
    <2> DEFINE a == SubSeq(l, 1, m)
    <2>1. a \in Seq(Names) /\ Len(a) = m /\ \A k \in 1..m : a[k] = l[k]
      BY Parts
    <2> HIDE DEF a
    <2>2. IsPrefix(a, path) <=> Len(a) <= Len(path) /\ \A k \in 1..Len(a) : a[k] = path[k]
      BY <2>1, PrefixMeans
    <2>3. IsPrefix(a, path) <=> m <= Len(path) /\ \A k \in 1..m : l[k] = path[k]
      BY <2>1, <2>2
    <2> QED
      BY <2>3 DEF a
  <1>4. n0 <= Len(path) /\ \A k \in 1..n0 : l[k] = path[k]
    BY <1>2, <1>3
  <1>5. ASSUME NEW m \in 0..Len(l), m <= Len(path), \A k \in 1..m : l[k] = path[k], m > n0
        PROVE  FALSE
    <2>1. n0 + 1 \in 0..Len(l) /\ n0 < Len(l) /\ n0 + 1 <= Len(path)
          /\ \A k \in 1..(n0 + 1) : k \in 1..m
      BY <1>1, <1>5
    <2>2. \A k \in 1..(n0 + 1) : l[k] = path[k]
      BY <1>5, <2>1
    <2> QED
      BY <1>2, <1>3, <2>1, <2>2
  <1>6. l = path => n0 = Len(path)
    <2> SUFFICES ASSUME l = path
                 PROVE  n0 = Len(path)
      OBVIOUS
    <2>1. Len(l) \in 0..Len(l) /\ Len(l) <= Len(path) /\ \A k \in 1..Len(l) : l[k] = path[k]
      BY <1>1
    <2>2. ~(Len(l) > n0)
      BY <1>5, <2>1
    <2> QED
      BY <1>1, <2>2
  <1> DEFINE n == Common(l, path)
  <1>7. n \in 0..Len(l) /\ n <= n0 /\ (n = n0 \/ (l = path /\ n0 = n + 1))
        /\ (l = path => n = IF n0 = 0 THEN 0 ELSE n0 - 1)
    BY <1>1, <1>2
  <1> HIDE DEF n
  <1>8. \A k \in 1..n : k \in 1..n0
    BY <1>7
  <1>9. ASSUME NEW m \in 0..Len(l), m <= Len(path), \A k \in 1..m : l[k] = path[k]
        PROVE  m <= n \/ (l = path /\ m = n + 1)
    <2>1. ~(m > n0)
      BY <1>5, <1>9
    <2> QED
      BY <1>1, <1>7, <2>1
  <1>10. n <= Len(path) /\ \A k \in 1..n : l[k] = path[k]
    BY <1>1, <1>4, <1>7, <1>8
  <1>11. l = path => n = IF Len(path) = 0 THEN 0 ELSE Len(path) - 1
    BY <1>6, <1>7
  <1> QED
    BY <1>7, <1>9, <1>10, <1>11 DEF n

(* The encoding, element by element.                                        *)
LEMMA CodeElements ==
  ASSUME NEW i, NEW a \in Seq(Names), Convertible(i, a)
  PROVE  /\ Code(i, a) \in Seq(Spellings) /\ Len(Code(i, a)) = Len(a) /\ Len(a) \in Nat
         /\ \A k \in 1..Len(a) : a[k] \in Names /\ (HasIconv(i) => a[k] \in DOMAIN Encoding)
         /\ \A k \in 1..Len(a) : Code(i, a)[k] = IF HasIconv(i) THEN Encoding[a[k]] ELSE a[k]
  <1>1. Len(a) \in Nat /\ DOMAIN a = 1..Len(a) /\ \A k \in 1..Len(a) : a[k] \in Names
    BY LenProperties, ElementOfSeq
  <1>2. \A k \in 1..Len(a) : HasIconv(i) => a[k] \in DOMAIN Encoding
    BY <1>1 DEF Convertible, ToSet
  <1>3. Code(i, a) \in Seq(Spellings) /\ Len(Code(i, a)) = Len(a)
        /\ (HasIconv(i) => Code(i, a) = [k \in DOMAIN a |-> Encoding[a[k]]])
        /\ (~HasIconv(i) => Code(i, a) = a)
    BY CodeFacts
  <1>4. \A k \in 1..Len(a) : Code(i, a)[k] = IF HasIconv(i) THEN Encoding[a[k]] ELSE a[k]
    BY <1>1, <1>3
  <1> QED
    BY <1>1, <1>2, <1>3, <1>4

(* Different names are encoded differently.                                 *)
LEMMA CodeInjective ==
  ASSUME NEW i, NEW a \in Seq(Names), Convertible(i, a), NEW b \in Seq(Names), Convertible(i, b),
         NEW k \in 1..Len(a), k \in 1..Len(b)
  PROVE  Code(i, a)[k] = Code(i, b)[k] <=> a[k] = b[k]
  <1>1. /\ Code(i, a)[k] = IF HasIconv(i) THEN Encoding[a[k]] ELSE a[k]
        /\ Code(i, b)[k] = IF HasIconv(i) THEN Encoding[b[k]] ELSE b[k]
        /\ HasIconv(i) => a[k] \in DOMAIN Encoding /\ b[k] \in DOMAIN Encoding
    BY CodeElements
  <1>2. \A x, y \in DOMAIN Encoding : Encoding[x] = Encoding[y] => x = y
    BY StackAssumption DEF IsInjective
  <1> QED
    BY <1>1, <1>2

(* Two paths below the same base have it in common.                         *)
LEMMA CommonReaches ==
  ASSUME NEW i, NEW path \in Seq(Names), NEW l \in Seq(Names),
         Convertible(i, path), Convertible(i, l),
         NEW b \in Seq(Spellings), Len(b) < Len(path),
         IsPrefix(b, Code(i, path)), IsPrefix(b, Code(i, l))
  PROVE  Len(b) <= Common(l, path)
  <1> DEFINE p == Code(i, path)
             t == Code(i, l)
             m == Len(b)
  <1>1. /\ p \in Seq(Spellings) /\ Len(p) = Len(path) /\ Len(path) \in Nat
        /\ t \in Seq(Spellings) /\ Len(t) = Len(l) /\ Len(l) \in Nat /\ m \in Nat
    BY CodeElements, LenProperties
  <1>2. m <= Len(p) /\ m <= Len(t) /\ \A k \in 1..m : b[k] = p[k] /\ b[k] = t[k]
    <2>1. IsPrefix(b, p) /\ IsPrefix(b, t)
      OBVIOUS
    <2> HIDE DEF p, t
    <2>2. m <= Len(p) /\ \A k \in 1..m : b[k] = p[k]
      BY <1>1, <2>1, PrefixMeans
    <2>3. m <= Len(t) /\ \A k \in 1..m : b[k] = t[k]
      BY <1>1, <2>1, PrefixMeans
    <2> QED
      BY <2>2, <2>3
  <1>3. ASSUME NEW k \in 1..m
        PROVE  l[k] = path[k]
    <2>1. k \in 1..Len(l) /\ k \in 1..Len(path)
      BY <1>1, <1>2
    <2>2. p[k] = t[k]
      BY <1>2
    <2> QED
      BY <2>1, <2>2, CodeInjective
  <1> DEFINE n == Common(l, path)
  <1>4. /\ n \in 0..Len(l)
        /\ m \in 0..Len(l) => m <= n \/ (l = path /\ m = n + 1)
        /\ l = path => n = IF Len(path) = 0 THEN 0 ELSE Len(path) - 1
    BY <1>1, <1>2, <1>3, CommonMeans
  <1> HIDE DEF n, m, p, t
  <1>5. m \in 0..Len(l) /\ m < Len(path)
    BY <1>1, <1>2 DEF m
  <1> QED
    BY <1>1, <1>4, <1>5 DEF n, m

(* The rest of a link after what it has in common with the path leads from  *)
(* there to its target, and does not climb out of a base that both are below.*)
LEMMA RelativeMeans ==
  ASSUME NEW i, NEW path \in Seq(Names), NEW link \in LinkSet,
         Convertible(i, path), Convertible(i, link.names),
         NEW b \in Seq(Spellings), Len(b) < Len(path), IsPrefix(b, Code(i, path)),
         Common(link.names, path) # Len(path)
  PROVE  LET rel == Relative(path, link, Common(link.names, path))
             t == Code(i, link.names)
             p == Code(i, path)
         IN  /\ rel \in LinkSet /\ rel.abs = FALSE /\ rel.names \in Seq(Names)
             /\ Convertible(i, rel.names)
             /\ Climbs(t, p, rel.up, Code(i, rel.names))
             /\ IsPrefix(b, t) => Len(b) <= Len(p) - 1 - rel.up
  <1> DEFINE l == link.names
             n == Common(l, path)
             rest == SubSeq(l, n + 1, Len(l))
             rel == [abs |-> FALSE, up |-> Len(path) - n - 1, names |-> rest]
             t == Code(i, l)
             p == Code(i, path)
  <1>0. l \in Seq(Names)
    BY DEF LinkSet
  <1>1. /\ n \in 0..Len(l) /\ n <= Len(path) /\ \A k \in 1..n : l[k] = path[k]
        /\ n # Len(path)
    BY <1>0, CommonMeans
  <1>2. IsPrefix(b, t) => Len(b) <= n
    BY <1>0, CommonReaches
  <1> HIDE DEF n
  <1>3. /\ rest \in Seq(Names) /\ Len(rest) = Len(l) - n
        /\ \A k \in 1..(Len(l) - n) : rest[k] = l[n + k]
    BY <1>0, <1>1, Parts
  <1>4. /\ Len(t) = Len(l) /\ Len(l) \in Nat /\ Len(p) = Len(path) /\ Len(path) \in Nat
        /\ \A k \in 1..Len(l) : HasIconv(i) => l[k] \in DOMAIN Encoding
        /\ \A k \in 1..Len(l) : t[k] = IF HasIconv(i) THEN Encoding[l[k]] ELSE l[k]
    BY <1>0, CodeElements
  <1> HIDE DEF l, rest, t, p
  <1>5. Convertible(i, rest)
    <2>1. DOMAIN rest = 1..(Len(l) - n)
      BY <1>3, LenProperties
    <2>2. \A k \in 1..(Len(l) - n) : n + k \in 1..Len(l)
      BY <1>1, <1>4
    <2> QED
      BY <1>3, <1>4, <2>1, <2>2 DEF Convertible, ToSet
  <1> DEFINE c == Code(i, rest)
  <1>6. /\ Len(c) = Len(l) - n
        /\ \A k \in 1..(Len(l) - n) : c[k] = IF HasIconv(i) THEN Encoding[rest[k]] ELSE rest[k]
    BY <1>3, <1>5, CodeElements
  <1> HIDE DEF c
  <1>7. rel.up = Len(path) - n - 1 /\ rel.names = rest /\ rel.abs = FALSE
        /\ rel.up \in 0..(Len(p) - 1) /\ Len(p) - 1 - rel.up = n
    BY <1>1, <1>4
  <1>8. \A k \in 1..n : t[k] = p[k]
    <2> SUFFICES ASSUME NEW k \in 1..n
                 PROVE  t[k] = p[k]
      OBVIOUS
    <2>1. k \in 1..Len(l) /\ k \in 1..Len(path) /\ l[k] = path[k]
      BY <1>1, <1>4
    <2> QED
      BY <1>0, <2>1, CodeInjective DEF t, p, l
  <1>9. \A k \in 1..(Len(l) - n) : t[n + k] = c[k]
    <2> SUFFICES ASSUME NEW k \in 1..(Len(l) - n)
                 PROVE  t[n + k] = c[k]
      OBVIOUS
    <2>1. n + k \in 1..Len(l)
      BY <1>1, <1>4
    <2>2. rest[k] = l[n + k]
      BY <1>3
    <2> QED
      BY <1>4, <1>6, <2>1, <2>2
  <1>10. Climbs(t, p, rel.up, c)
    <2>1. Len(t) = n + Len(c)
      BY <1>1, <1>4, <1>6
    <2> HIDE DEF rel
    <2> QED
      BY <1>6, <1>7, <1>8, <1>9, <2>1 DEF Climbs
  <1>11. rel \in LinkSet
    BY <1>1, <1>3, <1>4 DEF LinkSet
  <1>12. Code(i, rel.names) = c
    BY <1>7 DEF c
  <1>13. /\ rel \in LinkSet /\ Convertible(i, rel.names) /\ Climbs(t, p, rel.up, Code(i, rel.names))
         /\ IsPrefix(b, t) => Len(b) <= Len(p) - 1 - rel.up
         /\ rel.abs = FALSE /\ rel.names \in Seq(Names)
    <2> HIDE DEF rel
    <2> QED
      BY <1>2, <1>3, <1>5, <1>7, <1>10, <1>11, <1>12
  <1>14. rel = Relative(path, link, Common(link.names, path))
    BY DEF Relative, rest, n, l
  <1> HIDE DEF rel
  <1> QED
    BY <1>13, <1>14 DEF t, p, l

(* transform_symlink: a link that is made relative leads from where it is   *)
(* to its target, and does not climb out of a base that both are below.     *)
LEMMA TransformMeans ==
  ASSUME NEW i, NEW module \in ModuleSet, NEW path \in Seq(Names),
         NEW link \in LinkSet, link.abs, Convertible(i, path), Convertible(i, link.names),
         NEW b \in Seq(Spellings), Len(b) < Len(path), IsPrefix(b, Code(i, path))
  PROVE  LET new == Transform(module, path, link)
             t == Code(i, link.names)
             p == Code(i, path)
         IN  /\ new.abs => new = link
             /\ ~new.abs => /\ new \in LinkSet /\ Convertible(i, new.names)
                            /\ Climbs(t, p, new.up, Code(i, new.names))
                            /\ IsPrefix(b, t) => Len(b) <= Len(p) - 1 - new.up
  <1> DEFINE n == Common(link.names, path)
             rel == Relative(path, link, n)
             new == Transform(module, path, link)
  <1>1. new = link \/ (new = rel /\ n # Len(path))
    BY DEF Transform
  <1>2. n # Len(path) =>
          /\ rel \in LinkSet /\ rel.abs = FALSE /\ Convertible(i, rel.names)
          /\ Climbs(Code(i, link.names), Code(i, path), rel.up, Code(i, rel.names))
          /\ IsPrefix(b, Code(i, link.names)) => Len(b) <= Len(Code(i, path)) - 1 - rel.up
    BY RelativeMeans
  <1> HIDE DEF new, rel, n
  <1> QED
    BY <1>1, <1>2 DEF new

(* A subdir on the file system leaves a link below its base absolute only   *)
(* if its target is below the link itself, or its relative form too long.   *)
LEMMA TransformLeaves ==
  ASSUME NEW module \in ModuleSet, module.abs, NEW path \in Seq(Names),
         NEW link \in LinkSet, link.abs,
         Len(module.base) < Len(path), IsPrefix(module.base, path),
         Transform(module, path, link).abs, IsStrictPrefix(module.base, link.names)
  PROVE  \/ IsStrictPrefix(path, link.names)
         \/ /\ Common(link.names, path) # Len(path)
            /\ Relative(path, link, Common(link.names, path)) \in TooLong
  <1> DEFINE l == link.names
             b == module.base
             n == Common(l, path)
             rel == Relative(path, link, n)
  <1> SUFFICES ASSUME n = Len(path) \/ rel \notin TooLong
               PROVE  IsStrictPrefix(path, link.names)
    OBVIOUS
  <1>1. l \in Seq(Names) /\ b \in Seq(Names)
    BY DEF LinkSet, ModuleSet
  <1>2. Len(l) \in Nat /\ Len(path) \in Nat /\ Len(b) \in Nat
    BY <1>1, LenProperties
  <1>3. /\ n \in 0..Len(l) /\ n <= Len(path) /\ \A k \in 1..n : l[k] = path[k]
        /\ \A m \in 0..Len(l) : m <= Len(path) /\ (\A k \in 1..m : l[k] = path[k]) =>
             m <= n \/ (l = path /\ m = n + 1)
        /\ l = path => n = IF Len(path) = 0 THEN 0 ELSE Len(path) - 1
    BY <1>1, CommonMeans
  <1>4. n < Len(b) \/ n = Len(path)
    <2>1. rel.abs = FALSE
      BY DEF Relative
    <2>2. ~(\/ n < Len(b) \/ (l = b /\ b # <<>>) \/ n = Len(path)) => Transform(module, path, link) = rel
      BY DEF Transform
    <2>3. l # b
      BY DEF IsStrictPrefix
    <2> QED
      BY <2>1, <2>2, <2>3
  <1> HIDE DEF n, rel
  <1>5. Len(b) <= n
    <2>1. IsPrefix(b, l)
      BY DEF IsStrictPrefix
    <2>2. /\ Len(b) \in 0..Len(l) /\ Len(b) <= Len(path)
          /\ \A k \in 1..Len(b) : l[k] = path[k]
      <3>1. Len(b) <= Len(l) /\ \A k \in 1..Len(b) : b[k] = l[k]
        BY <1>1, <2>1, PrefixMeans
      <3>2. Len(b) <= Len(path) /\ \A k \in 1..Len(b) : b[k] = path[k]
        BY <1>1, PrefixMeans
      <3> QED
        BY <1>2, <3>1, <3>2
    <2>3. Len(b) <= n \/ (l = path /\ Len(b) = n + 1)
      BY <1>2, <1>3, <2>2
    <2> HIDE DEF b, l
    <2>4. Len(b) < Len(path)
      BY DEF b
    <2> QED
      BY <1>2, <1>3, <2>3, <2>4
  <1>6. n = Len(path)
    BY <1>2, <1>3, <1>4, <1>5
  <1>7. IsPrefix(path, l)
    <2>1. Len(path) <= Len(l) /\ \A k \in 1..Len(path) : path[k] = l[k]
      BY <1>2, <1>3, <1>6
    <2> QED
      BY <1>1, <2>1, PrefixMeans
  <1>8. path # l
    <2>1. Len(path) > 0
      BY <1>2
    <2> QED
      BY <1>2, <1>3, <1>6, <2>1
  <1> QED
    BY <1>7, <1>8 DEF IsStrictPrefix

-----------------------------------------------------------------------------
(* Where a link lies on the file system.                                    *)

(* Below a subdir that makes links relative there is an iconv at most.      *)
LEMMA RelativeLayer ==
  ASSUME Inv, OneIconv, LowestRelative, phase # "gone", NEW i \in 2..Top,
         layers[i].kind = "subdir", layers[i].module.abs, layers[i].module.rellinks
  PROVE  i = 2 \/ (i = 3 /\ layers[2].kind = "iconv")
  <1>1. PICK stack \in Stacks :
          Top - 1 <= Len(stack) /\ \A n \in 2..Top : layers[n].module = stack[n - 1]
    BY DEF Inv, StackOK
  <1>2. stack \in Seq(ModuleSet)
    BY StackAssumption DEF ModuleSet, Kinds
  <1>3. Top \in Nat /\ Len(stack) \in Nat /\ DOMAIN stack = 1..Len(stack)
    BY <1>2, LayerFacts, LenProperties DEF Inv
  <1>4. ASSUME NEW n \in 2..Top
        PROVE  /\ layers[n].kind = layers[n].module.kind /\ layers[n].kind \in Kinds
               /\ n - 1 \in DOMAIN stack /\ stack[n - 1] = layers[n].module
    BY <1>1, <1>3, LayerFacts DEF Inv, ModuleLayer, Intact, ModuleSet
  <1>5. ASSUME NEW j \in 2..Top, j < i
        PROVE  layers[j].kind = "iconv"
    <2>1. j - 1 < i - 1
      BY <1>3, <1>5
    <2>2. layers[j].kind # "subdir"
      BY <1>4, <2>1 DEF LowestRelative
    <2> QED
      BY <1>4, <2>2 DEF Kinds
  <1>6. ASSUME i >= 4
        PROVE  FALSE
    <2>1. 2 \in 2..Top /\ 3 \in 2..Top /\ 2 < i /\ 3 < i
      BY <1>3, <1>6
    <2>2. layers[2].kind = "iconv" /\ layers[3].kind = "iconv"
      BY <1>5, <2>1
    <2>3. 2 = 3
      BY <2>1, <2>2, OneConverter
    <2> QED
      BY <2>3
  <1>7. i = 2 \/ i = 3
    BY <1>3, <1>6
  <1>8. i = 3 => layers[2].kind = "iconv"
    BY <1>3, <1>5
  <1> QED
    BY <1>7, <1>8

(* The path of a link in each layer.                                        *)
LEMMA LinkArgs ==
  ASSUME Inv, Reading, call.reached # <<>>, NEW i \in 1..Top
  PROVE  /\ call.args[i] \in Seq(PathOrNull) /\ DOMAIN call.args[i] = {1}
         /\ call.args[i][1] \in Seq(Names) /\ call.args[i][1] # Null
  <1>1. Len(call.args) = Top /\ call.args \in Seq(Seq(PathOrNull))
    BY CallFields DEF Inv, StageOK, Reading
  <1>2. call.args[i] \in Seq(PathOrNull)
    BY <1>1, ElementOfSeq
  <1>3. DOMAIN Asked = {1} /\ Asked[1] # Null
    BY DEF Inv, AskedOK, Reading
  <1>4. SameShape(call.args[i], Asked)
    BY DEF Inv, ShapeOK, Reading
  <1>5. DOMAIN call.args[i] = {1} /\ call.args[i][1] # Null
    BY <1>3, <1>4 DEF SameShape
  <1>6. 1 \in 1..Len(call.args[i])
    BY <1>2, <1>5, LenProperties
  <1>7. call.args[i][1] \in PathOrNull
    BY <1>2, <1>6, ElementOfSeq
  <1> QED
    BY <1>2, <1>5, <1>7 DEF PathOrNull

(* The path of the link at the file system is the encoding of the path that *)
(* the layer that may make it relative has for it.                          *)
LEMMA LinkAtFs ==
  ASSUME Inv, ChainOK, OneIconv, LowestRelative, phase # "gone", Reading, call.reached # <<>>,
         NEW i \in 2..Top,
         layers[i].kind = "subdir", layers[i].module.abs, layers[i].module.rellinks
  PROVE  LET path == layers[i].module.base \o call.args[i][1]
         IN  /\ path \in Seq(Names) /\ Convertible(i - 1, path)
             /\ call.reached[2][1] = Code(i - 1, path)
  <1> DEFINE b == layers[i].module.base
             q == call.args[i][1]
             path == b \o q
  <1>1. Top \in Nat /\ i - 1 \in 1..Top /\ 1 \in 1..Top
    BY LayerFacts DEF Inv
  <1>2. layers[i].module \in ModuleSet /\ b \in Seq(Names)
    BY LayerFacts DEF Inv, ModuleLayer, ModuleSet
  <1>3. q \in Seq(Names) /\ q # Null /\ DOMAIN call.args[i] = {1}
    BY <1>1, LinkArgs
  <1>4. path \in Seq(Names)
    BY <1>2, <1>3, ConcatProperties
  <1>5. call.reached[2] = call.args[1]
    BY DEF Inv, ShapeOK, Reading
  <1>6. call.args[i - 1] = Mapped(layers[i], "readlink", call.args[i])
    BY DEF ChainOK, Passing
  <1>7. call.args[i - 1][1] = path
    <2>1. Mapped(layers[i], "readlink", call.args[i])[1] = AddPath(layers[i].module, q)
      BY <1>3 DEF Mapped
    <2>2. AddPath(layers[i].module, q) = path
      BY <1>3 DEF AddPath
    <2> QED
      BY <1>6, <2>1, <2>2
  <1> HIDE DEF path
  <1>8. CASE i = 2
    <2>1. ~HasIconv(i - 1)
      BY <1>8 DEF HasIconv
    <2>2. Code(i - 1, path) = path
      BY <1>4, <2>1, CodeFacts
    <2>3. i - 1 = 1
      BY <1>8
    <2>4. call.reached[2][1] = path
      BY <1>5, <1>7, <2>3
    <2> QED
      BY <1>4, <2>1, <2>2, <2>4 DEF Convertible, path
  <1>9. CASE i = 3 /\ layers[2].kind = "iconv"
    <2>1. 2 \in 2..Top /\ HasIconv(i - 1)
      <3>1. 2 \in 2..Top /\ 2 \in 2..(i - 1)
        BY <1>1, <1>9
      <3> QED
        BY <1>9, <3>1 DEF HasIconv
    <2>2. ~Refuses(layers[2], call.args[2])
          /\ call.args[1] = Mapped(layers[2], "readlink", call.args[2])
      BY <2>1 DEF ChainOK, Passing
    <2>3. DOMAIN call.args[2] = {1} /\ call.args[2][1] = path
      BY <1>1, <1>7, <1>9, LinkArgs
    <2>4. Converts(path) /\ call.args[1][1] = ConvertPath(path)
      BY <1>9, <2>2, <2>3 DEF Refuses, Mapped
    <2>5. path # Null
      BY <1>4, StackAssumption
    <2>6. Convertible(i - 1, path)
      BY <2>4, <2>5 DEF Converts, Convertible
    <2>7. Code(i - 1, path) = [k \in DOMAIN path |-> Encoding[path[k]]]
      BY <1>4, <2>1, CodeFacts
    <2> QED
      BY <1>4, <1>5, <2>4, <2>5, <2>6, <2>7 DEF ConvertPath, path
  <1> QED
    BY <1>8, <1>9, RelativeLayer

(* The link is below all the bases.                                         *)
LEMMA LinkBelow ==
  ASSUME Inv, PathsOK, ChainOK, RootIsNoLink, phase # "gone", Reading, call.reached # <<>>
  PROVE  LET p == call.reached[2][1]
         IN  /\ p \in Seq(Names) /\ Asked[1] \in Seq(Names) /\ Asked[1] # <<>> /\ Asked[1] # Null
             /\ p = Base \o Code(Top, Asked[1]) /\ Base \in Seq(Spellings)
             /\ p \in Seq(Spellings) /\ IsPrefix(Base, p) /\ Len(Base) < Len(p)
  <1> DEFINE p == call.reached[2][1]
             c == Code(Top, Asked[1])
  <1>1. Top \in Nat /\ 1 \in 1..Top /\ Top \in 1..Top
    BY LayerFacts DEF Inv
  <1>2. p \in Seq(Names)
    BY <1>1, LinkArgs DEF Inv, ShapeOK, Reading
  <1>3. Asked[1] \in Seq(Names) /\ Asked[1] # Null /\ DOMAIN Asked = {1}
    BY <1>1, LinkArgs DEF Asked
  <1>4. Asked[1] # <<>>
    BY DEF ChainOK, RootIsNoLink
  <1>5. p = Base \o c
    <2>1. ~Down
      BY DEF Inv, StageOK
    <2>2. call.op \in Requests /\ call.op # "symlink"
      BY DEF Reading, Requests, AttributeOps
    <2>3. call.reached[2] = BelowAll(call.op, Asked)
      BY <2>1, <2>2 DEF PathsOK, Arrived, Reading
    <2>4. BelowAll(call.op, Asked)[1] = Below(Asked[1])
      BY <1>3, <2>2 DEF BelowAll
    <2> QED
      BY <1>3, <2>3, <2>4 DEF Below
  <1>6. Base \in Seq(Spellings)
    <2>1. Base = BaseOf(Top)
      BY DEF Base, BaseOf, BasePart
    <2> QED
      BY <1>1, <2>1, BaseFacts
  <1>7. c \in Seq(Spellings) /\ Len(c) = Len(Asked[1])
    BY <1>3, CodeFacts
  <1>8. Len(Asked[1]) \in Nat \ {0}
    BY <1>3, <1>4, EmptySeq
  <1> HIDE DEF c, p
  <1>9. /\ p \in Seq(Spellings) /\ Len(p) = Len(Base) + Len(c) /\ Len(Base) \in Nat
        /\ \A k \in 1..(Len(Base) + Len(c)) : p[k] = IF k <= Len(Base) THEN Base[k] ELSE c[k - Len(Base)]
    BY <1>5, <1>6, <1>7, ConcatProperties, LenProperties
  <1>10. IsPrefix(Base, p)
    <2>1. Len(Base) <= Len(p) /\ \A k \in 1..Len(Base) : Base[k] = p[k]
      BY <1>7, <1>8, <1>9
    <2> QED
      BY <1>6, <1>9, <2>1, PrefixMeans
  <1>11. Len(Base) < Len(p)
    BY <1>7, <1>8, <1>9
  <1> QED
    BY <1>2, <1>3, <1>4, <1>5, <1>6, <1>9, <1>10, <1>11 DEF c, p

-----------------------------------------------------------------------------
(* A link on its way back through the layers.                               *)

(* Where a link is read, the phase is that of requests.                     *)
LEMMA ReadingIsUp ==
  ASSUME Inv, ~Idle, call.op \in Requests
  PROVE  phase # "gone" /\ phase = "up"
  BY RequestsAreNotLife DEF Inv, PhaseOK

(* How reading a link and reading a directory differ from other requests.   *)
LEMMA ReadlinkIsRequest ==
  /\ "readlink" \in Requests /\ "readdir" \in Requests
  /\ "readlink" \notin TwoPaths /\ "readlink" \notin NullOps
  /\ "readlink" \notin DOMAIN Substitute /\ Substitute["readdir"] = "getdir"
  /\ "readlink" \notin OpenOps \cup {"statfs"} \cup LifeOps
  /\ "readdir" \notin OpenOps \cup {"statfs"} \cup LifeOps
  BY DEF Requests, AttributeOps, HandleOps, TwoPaths, NullOps, Substitute, OpenOps, LifeOps

(* The file system gives links.                                             *)
LEMMA NullIsNoLink == Null \notin LinkSet /\ Links \subseteq LinkSet
  <1>1. Links \subseteq [abs : BOOLEAN, up : {0}, names : Seq(Names)] /\ Null \notin LinkSet
    BY StackAssumption DEF LinkSet
  <1> QED
    BY <1>1 DEF LinkSet

(* The file system hands its link over as it is.                            *)
LEMMA LinkFromFs ==
  ASSUME NEW t, NEW p, NEW link, link.names \in Seq(Names), LinkFits(0, t, p, link)
  PROVE  LinkFits(1, t, p, link)
  <1>1. ~HasIconv(0) /\ ~HasIconv(1)
    BY DEF HasIconv
  <1>2. Code(0, link.names) = link.names /\ Code(1, link.names) = link.names
    BY <1>1, CodeFacts
  <1> QED
    BY <1>1, <1>2 DEF LinkFits, Convertible, OneSubdirLeaves

(* A layer that converts nothing.                                           *)
LEMMA CodeAbove ==
  ASSUME NEW i, HasIconv(i) <=> HasIconv(i - 1), NEW path \in Seq(Names)
  PROVE  Code(i, path) = Code(i - 1, path) /\ (Convertible(i, path) <=> Convertible(i - 1, path))
  BY CodeFacts DEF Convertible

(* Only iconv makes an answer short, and no layer makes it complete again.  *)
LEMMA PassedShort ==
  ASSUME NEW layer, layer.kind \in Kinds \cup {"fs"}, NEW answer \in Answers,
         NEW passed \in Passed(layer, answer), passed.error = "0"
  PROVE  /\ answer.error = "0"
         /\ passed.short => answer.short \/ layer.kind = "iconv"
         /\ answer.short => passed.short
  <1>1. CASE layer.kind = "fs" \/ answer.error # "0"
    BY <1>1 DEF Passed
  <1>2. CASE layer.kind = "subdir" /\ answer.error = "0"
    <2>1. CASE answer.link # Null
      BY <1>2, <2>1 DEF Passed, LinkBack, Answers
    <2>2. CASE answer.link = Null
      BY <1>2, <2>2 DEF Passed, NamesBack
    <2> QED
      BY <2>1, <2>2
  <1>3. CASE layer.kind = "iconv" /\ answer.error = "0" /\ answer.link # Null
    <2> DEFINE new == DecodedLink(answer.link)
    <2>1. \/ \E error \in {"ENOMEM", "EILSEQ"} : passed = [NoAnswer EXCEPT !.error = error]
          \/ passed = [answer EXCEPT !.link = new]
          \/ \E i \in 0..(Len(new.names) - 1) :
               passed = [answer EXCEPT !.link = [new EXCEPT !.names = SubSeq(@, 1, i)], !.short = TRUE]
      <3> HIDE DEF new
      <3> QED
        BY <1>3 DEF Passed, LinkBack, new
    <2> HIDE DEF new
    <2>2. ~\E error \in {"ENOMEM", "EILSEQ"} : passed = [NoAnswer EXCEPT !.error = error]
      BY DEF NoAnswer
    <2> QED
      BY <1>3, <2>1, <2>2 DEF Answers
  <1>4. CASE layer.kind = "iconv" /\ answer.error = "0" /\ answer.link = Null
    <2>1. PICK names : \E known : passed = [answer EXCEPT !.names = names, !.short = @ \/ names # known]
      BY <1>4 DEF Passed, NamesBack
    <2> QED
      BY <1>4, <2>1 DEF Answers
  <1> QED
    BY <1>1, <1>2, <1>3, <1>4 DEF Kinds

(* iconv decodes the names of a link, or fails, or cuts it.                 *)
LEMMA LinkThroughIconv ==
  ASSUME NEW i \in 2..Top, Top \in Nat, layers[i].kind = "iconv", ~HasIconv(i - 1),
         NEW t, NEW p, NEW answer \in Answers, answer.link # Null, answer.error = "0",
         LinkFits(i - 1, t, p, answer.link),
         NEW passed \in Passed(layers[i], answer), passed.error = "0"
  PROVE  passed.short \/ LinkFits(i, t, p, passed.link)
  <1> DEFINE link == answer.link
             names == link.names
             decoded == [k \in DOMAIN names |-> Decoded(names[k])]
             new == DecodedLink(link)
  <1>1. answer.link \in LinkSet
    BY DEF Answers
  <1>2. names \in Seq(Names)
    BY <1>1 DEF LinkSet
  <1>3. Len(names) \in Nat /\ DOMAIN names = 1..Len(names)
    BY <1>2, LenProperties
  <1>4. (\A k \in DOMAIN names : Decodes(names[k])) /\ (passed.short \/ passed.link = new)
    <2>1. passed \in LinkBack(layers[i], answer)
      BY DEF Passed
    <2>2. \/ \E error \in {"ENOMEM", "EILSEQ"} : passed = [NoAnswer EXCEPT !.error = error]
          \/ /\ \A k \in DOMAIN names : Decodes(names[k])
             /\ \/ passed = [answer EXCEPT !.link = new]
                \/ \E k \in 0..(Len(new.names) - 1) :
                     passed = [answer EXCEPT !.link = [new EXCEPT !.names = SubSeq(@, 1, k)],
                                             !.short = TRUE]
      <3> HIDE DEF new
      <3> QED
        BY <2>1 DEF LinkBack, new
    <2> HIDE DEF new, names
    <2>3. ~\E error \in {"ENOMEM", "EILSEQ"} : passed = [NoAnswer EXCEPT !.error = error]
      BY DEF NoAnswer
    <2> QED
      BY <2>2, <2>3 DEF Answers
  <1>5. new \in LinkSet /\ new.abs = link.abs /\ new.up = link.up /\ new.names = decoded
    BY <1>1, <1>4, DecodedLinkFacts
  <1>6. /\ decoded \in Seq(Names) /\ Len(decoded) = Len(names) /\ DOMAIN decoded = 1..Len(names)
        /\ \A k \in 1..Len(names) : /\ decoded[k] \in DOMAIN Encoding
                                    /\ Encoding[decoded[k]] = names[k]
    <2>1. \A k \in 1..Len(names) : /\ Decoded(names[k]) \in DOMAIN Encoding
                                   /\ Decoded(names[k]) \in Names
                                   /\ Encoding[Decoded(names[k])] = names[k]
      BY <1>3, <1>4, DecodedFacts
    <2> HIDE DEF names
    <2> QED
      BY <1>3, <2>1
  <1>7. HasIconv(i)
    <2>1. i \in 2..i
      OBVIOUS
    <2> QED
      BY <2>1 DEF HasIconv
  <1> HIDE DEF decoded
  <1>8. Code(i, decoded) = names
    <2>1. Code(i, decoded) = [k \in DOMAIN decoded |-> Encoding[decoded[k]]]
      BY <1>6, <1>7, CodeFacts
    <2>2. names \in [1..Len(names) -> Names]
      BY <1>2, LenProperties
    <2> HIDE DEF names
    <2>3. names = [k \in 1..Len(names) |-> names[k]]
      BY <2>2
    <2> QED
      BY <1>6, <2>1, <2>3
  <1>9. Code(i - 1, names) = names
    BY <1>2, CodeFacts
  <1>10. Convertible(i, decoded)
    BY <1>6 DEF Convertible, ToSet
  <1>11. new # Null
    BY <1>5, NullIsNoLink
  <1>12. OneSubdirLeaves(i, t, p)
    BY DEF OneSubdirLeaves
  <1> HIDE DEF new, names, link
  <1> QED
    BY <1>4, <1>5, <1>8, <1>9, <1>10, <1>11, <1>12 DEF LinkFits, link, names

(* subdir leaves a link alone or makes it relative.                         *)
LEMMA LinkThroughSubdir ==
  ASSUME Inv, PathsOK, ChainOK, OneIconv, LowestRelative, RootIsNoLink,
         Reading, call.reached # <<>>, call.stage = "back", call.at \in 2..Top,
         Here.kind = "subdir", call.answer.error = "0",
         LinkFits(call.at - 1, call.reached[3], call.reached[2][1], call.answer.link),
         NEW passed \in Passed(Here, call.answer)
  PROVE  LinkFits(call.at, call.reached[3], call.reached[2][1], passed.link)
  <1> DEFINE i == call.at
             t == call.reached[3]
             p == call.reached[2][1]
             link == call.answer.link
             module == Here.module
             path == module.base \o call.args[i][1]
             new == passed.link
  <1>1. Top \in Nat /\ i \in 2..Top /\ Here = layers[i] /\ phase # "gone"
        /\ i \in 1..Top /\ i - 1 \in Nat
    BY LayerFacts, ReadingIsUp, ReadlinkIsRequest DEF Inv, Here, Reading
  <1>2. HasIconv(i) <=> HasIconv(i - 1)
    BY <1>1 DEF HasIconv
  <1>3. link \in LinkSet /\ link # Null
    BY CallFields DEF Inv, Answers, LinkFits
  <1>4. link.names \in Seq(Names) /\ link.abs \in BOOLEAN
    BY <1>3 DEF LinkSet
  <1>5. /\ Code(i, link.names) = Code(i - 1, link.names)
        /\ Convertible(i, link.names) <=> Convertible(i - 1, link.names)
    BY <1>1, <1>2, <1>4, CodeAbove
  <1>6. /\ Args[1] \in Seq(Names) /\ module \in ModuleSet
        /\ Mapped(Here, "readlink", Args)[1] = path /\ path \in Seq(Names)
    BY <1>3, LinkPath DEF Args
  <1>7. new = IF module.rellinks THEN Transform(module, path, link) ELSE link
    <2>1. passed =
            [call.answer EXCEPT !.link = IF module.rellinks THEN Transform(module, path, @) ELSE @]
      BY <1>3, <1>6 DEF Passed, LinkBack
    <2>2. call.answer \in Answers
      BY CallFields DEF Inv
    <2> HIDE DEF path, module, link
    <2> QED
      BY <2>1, <2>2 DEF Answers, link
  <1>8. t.abs /\ link.abs => Code(i - 1, link.names) = t.names /\ t \in Links
    BY DEF LinkFits
  <1>9. CASE ~(module.rellinks /\ module.abs /\ link.abs)
    <2>1. new = link
      BY <1>7, <1>9 DEF Transform
    <2>2. link.abs => OneSubdirLeaves(i, t, p)
      BY <1>1, <1>9 DEF OneSubdirLeaves
    <2> HIDE DEF new, link, i, t, p, module
    <2>3. LinkFits(i - 1, t, p, link)
      BY DEF link, i, t, p
    <2>4. LinkFits(i, t, p, link)
      BY <1>5, <2>2, <2>3 DEF LinkFits
    <2> QED
      BY <2>1, <2>4 DEF new, link, i, t, p
  <1>10. CASE module.rellinks /\ module.abs /\ link.abs
    <2>1. layers[i].kind = "subdir" /\ layers[i].module = module
      BY <1>1
    <2>2. Convertible(i - 1, path) /\ p = Code(i - 1, path)
      BY <1>1, <1>10, <2>1, LinkAtFs
    <2>3. /\ p \in Seq(Names) /\ Base \in Seq(Spellings) /\ IsPrefix(Base, p) /\ Len(Base) < Len(p)
      BY <1>1, LinkBelow
    <2>4. Len(p) = Len(path)
      <3> HIDE DEF p, path
      <3>1. Len(Code(i - 1, path)) = Len(path)
        BY <1>6, CodeFacts
      <3> QED
        BY <2>2, <3>1
    <2>5. Convertible(i - 1, link.names)
      BY DEF LinkFits
    <2> HIDE DEF path, p
    <2>6. LET r == Transform(module, path, link)
              u == Code(i - 1, link.names)
              v == Code(i - 1, path)
          IN  /\ r.abs => r = link
              /\ ~r.abs => /\ r \in LinkSet /\ Convertible(i - 1, r.names)
                           /\ Climbs(u, v, r.up, Code(i - 1, r.names))
                           /\ IsPrefix(Base, u) => Len(Base) <= Len(v) - 1 - r.up
      <3> HIDE DEF module, link, i
      <3> QED
        BY <1>3, <1>6, <1>10, <2>2, <2>3, <2>4, <2>5, TransformMeans
    <2>7. new = Transform(module, path, link)
      BY <1>7, <1>10
    <2>8. CASE new.abs
      <3>1. new = link
        BY <2>6, <2>7, <2>8
      <3>2. ASSUME Top = 2, i = 2, t.abs, IsStrictPrefix(Base, t.names)
            PROVE  \/ IsStrictPrefix(p, t.names)
                   \/ \E long \in TooLong : /\ ~long.abs /\ long.names \in Seq(Names)
                                            /\ Climbs(t.names, p, long.up, long.names)
                                            /\ Len(Base) <= Len(p) - 1 - long.up
        <4>1. ~HasIconv(i - 1)
          BY <3>2 DEF HasIconv
        <4>2. p = path
          BY <1>6, <2>2, <4>1, CodeFacts
        <4>3. t.names = link.names
          BY <1>4, <1>8, <1>10, <3>2, <4>1, CodeFacts
        <4>4. Base = module.base
          <5>1. Base = BaseOf(Top)
            BY DEF Base, BaseOf, BasePart
          <5>2. BaseOf(2) = BaseOf(1) \o BasePart(1) /\ BaseOf(1) = <<>>
                /\ BasePart(1) \in Seq(Spellings)
            <6>1. 1 \in 1..Top /\ 2 \in 1..Top
              BY <3>2
            <6>2. BaseOf(1) = <<>>
              BY <1>1, <6>1, BaseFacts
            <6>3. ASSUME NEW n \in 1..Top, n # 1
                  PROVE  BaseOf(n) = BaseOf(n - 1) \o BasePart(n - 1) /\ BasePart(n - 1) \in Seq(Spellings)
              BY <1>1, <6>3, BaseFacts
            <6>4. 2 # 1 /\ 2 - 1 = 1
              OBVIOUS
            <6>5. BaseOf(2) = BaseOf(2 - 1) \o BasePart(2 - 1) /\ BasePart(2 - 1) \in Seq(Spellings)
              BY <6>1, <6>3, <6>4
            <6> QED
              BY <6>2, <6>4, <6>5
          <5>3. BasePart(1) = Code(1, module.base)
            BY <2>1, <3>2 DEF BasePart
          <5>4. Code(1, module.base) = module.base
            <6>1. ~HasIconv(1) /\ module.base \in Seq(Names)
              BY <1>6 DEF HasIconv, ModuleSet
            <6> QED
              BY <6>1, CodeFacts
          <5>5. <<>> \o BasePart(1) = BasePart(1)
            BY <5>2, ConcatEmptySeq
          <5> QED
            BY <3>2, <5>1, <5>2, <5>3, <5>4, <5>5
        <4>5. /\ Len(module.base) < Len(path) /\ IsPrefix(module.base, path)
              /\ IsStrictPrefix(module.base, link.names)
          BY <2>3, <3>2, <4>2, <4>3, <4>4
        <4>6. Transform(module, path, link).abs
          BY <2>7, <2>8
        <4> DEFINE n == Common(link.names, path)
                   rel == Relative(path, link, n)
        <4>7. IsStrictPrefix(path, link.names) \/ (n # Len(path) /\ rel \in TooLong)
          <5> HIDE DEF module, link, new
          <5> QED
            BY <1>3, <1>6, <1>10, <4>5, <4>6, TransformLeaves
        <4>8. ASSUME n # Len(path), rel \in TooLong
              PROVE  \E long \in TooLong : /\ ~long.abs /\ long.names \in Seq(Names)
                                           /\ Climbs(t.names, p, long.up, long.names)
                                           /\ Len(Base) <= Len(p) - 1 - long.up
          <5>1. /\ rel.abs = FALSE /\ rel.names \in Seq(Names)
                /\ Climbs(Code(i - 1, link.names), p, rel.up, Code(i - 1, rel.names))
                /\ IsPrefix(Base, Code(i - 1, link.names)) => Len(Base) <= Len(p) - 1 - rel.up
            <6> HIDE DEF module, link, new, i
            <6> QED
              BY <1>3, <1>6, <2>2, <2>3, <2>4, <2>5, <4>8, RelativeMeans
          <5>2. Code(i - 1, link.names) = t.names
            BY <1>8, <1>10, <3>2
          <5> HIDE DEF rel, n, module, link, new
          <5>3. Code(i - 1, rel.names) = rel.names
            BY <4>1, <5>1, CodeFacts
          <5>4. IsPrefix(Base, t.names)
            BY <3>2 DEF IsStrictPrefix
          <5> QED
            BY <4>8, <5>1, <5>2, <5>3, <5>4
        <4> HIDE DEF rel, n
        <4> QED
          BY <4>2, <4>3, <4>7, <4>8
      <3>3. t.abs => OneSubdirLeaves(i, t, p)
        BY <3>2 DEF OneSubdirLeaves
      <3> HIDE DEF new, link, i, t, module
      <3>4. LinkFits(i - 1, t, p, link)
        BY DEF link, i, t, p
      <3>5. LinkFits(i, t, p, link)
        BY <1>5, <1>10, <3>3, <3>4 DEF LinkFits
      <3> QED
        BY <3>1, <3>5 DEF new, link, i, t, p
    <2>9. CASE ~new.abs
      <3>1. /\ new \in LinkSet /\ Convertible(i - 1, new.names)
            /\ Climbs(Code(i - 1, link.names), p, new.up, Code(i - 1, new.names))
            /\ IsPrefix(Base, Code(i - 1, link.names)) => Len(Base) <= Len(p) - 1 - new.up
        <4> HIDE DEF new, link, i, module
        <4> QED
          BY <2>2, <2>6, <2>7, <2>9
      <3>2. new.names \in Seq(Names)
        BY <3>1 DEF LinkSet
      <3>3. /\ Code(i, new.names) = Code(i - 1, new.names) /\ Convertible(i, new.names)
        BY <1>1, <1>2, <3>1, <3>2, CodeAbove
      <3>4. new # Null
        BY <3>1, NullIsNoLink
      <3>5. t \in Links
        BY DEF LinkFits
      <3> HIDE DEF new, link, i, t, module
      <3>6. t.abs => Code(i - 1, link.names) = t.names
        BY <1>8, <1>10
      <3>7. LinkFits(i, t, p, new)
        BY <2>9, <3>1, <3>3, <3>4, <3>5, <3>6 DEF LinkFits
      <3> QED
        BY <3>7 DEF new, link, i, t, p
    <2> QED
      BY <2>8, <2>9
  <1> QED
    BY <1>9, <1>10

(* On the way back, the file system is the lowest layer.                    *)
LEMMA KindHere ==
  ASSUME Inv, call.stage = "back", call.at \in 1..Top, Top \in Nat
  PROVE  /\ Here.kind \in Kinds \cup {"fs"}
         /\ IF call.at = 1 THEN Here.kind = "fs" ELSE Here.kind \in Kinds
  <1>1. Intact(call.at)
    BY DEF Intact
  <1>2. CASE call.at = 1
    BY <1>1, <1>2 DEF Inv, LayersOK, Here
  <1>3. CASE call.at # 1
    <2>1. call.at \in 2..Top
      BY <1>3
    <2> QED
      BY <1>1, <1>3, <2>1, HereIsModule DEF Here
  <1> QED
    BY <1>2, <1>3

(* And so through any layer.                                                *)
LEMMA LinkPassed ==
  ASSUME Inv, PathsOK, ChainOK, LinkOK, OneIconv, LowestRelative, RootIsNoLink,
         Reading, call.stage = "back", NEW passed \in Passed(Here, call.answer), passed.error = "0"
  PROVE  /\ call.reached # <<>>
         /\ passed.short \/ LinkFits(call.at, call.reached[3], call.reached[2][1], passed.link)
         /\ passed.short => HasIconv(call.at)
  <1> DEFINE i == call.at
  <1>1. /\ i \in 1..Top /\ Top \in Nat /\ Up /\ Here = layers[i] /\ call.answer \in Answers
        /\ phase # "gone"
    BY LayerFacts, CallFields, ReadingIsUp, ReadlinkIsRequest DEF Inv, StageOK, Up, Here, Reading
  <1>0. /\ Here.kind \in Kinds \cup {"fs"}
        /\ IF i = 1 THEN Here.kind = "fs" ELSE Here.kind \in Kinds
    BY <1>1, KindHere
  <1>2. /\ call.answer.error = "0"
        /\ passed.short => call.answer.short \/ Here.kind = "iconv"
        /\ call.answer.short => passed.short
    BY <1>0, <1>1, PassedShort
  <1>3. /\ call.reached # <<>>
        /\ call.answer.short \/ LinkFits(i - 1, call.reached[3], call.reached[2][1], call.answer.link)
        /\ call.answer.short => HasIconv(i - 1)
    BY <1>1, <1>2 DEF LinkOK
  <1>7. passed.short => HasIconv(i)
    BY <1>0, <1>1, <1>2, <1>3 DEF HasIconv
  <1> SUFFICES ASSUME ~call.answer.short
               PROVE  passed.short \/ LinkFits(i, call.reached[3], call.reached[2][1], passed.link)
    BY <1>2, <1>3, <1>7
  <1>4. call.answer.link # Null /\ call.answer.link \in LinkSet /\ call.answer.link.names \in Seq(Names)
    BY <1>1, <1>3 DEF LinkFits, Answers, LinkSet
  <1>5. CASE i = 1
    <2>1. Here.kind = "fs"
      BY <1>1, <1>5 DEF Inv, LayersOK, Intact
    <2>2. passed = call.answer
      BY <2>1 DEF Passed
    <2>3. LinkFits(0, call.reached[3], call.reached[2][1], call.answer.link)
      BY <1>3, <1>5
    <2> QED
      BY <1>3, <1>4, <1>5, <2>2, <2>3, LinkFromFs
  <1>6. CASE i # 1
    <2>1. i \in 2..Top /\ Intact(i)
      BY <1>1, <1>6 DEF Intact
    <2>2. Here.kind \in Kinds
      BY <2>1, HereIsModule
    <2>3. CASE Here.kind = "subdir"
      BY <1>2, <1>3, <2>1, <2>3, LinkThroughSubdir
    <2>4. CASE Here.kind = "iconv"
      <3>1. ~HasIconv(i - 1)
        <4> SUFFICES ASSUME NEW j \in 2..(i - 1), layers[j].kind = "iconv"
                     PROVE  FALSE
          BY DEF HasIconv
        <4>1. j \in 2..Top /\ j # i
          BY <1>1
        <4> QED
          BY <1>1, <2>1, <2>4, <4>1, OneConverter
      <3> QED
        BY <1>1, <1>2, <1>3, <1>4, <2>1, <2>4, <3>1, LinkThroughIconv
    <2> QED
      BY <2>2, <2>3, <2>4 DEF Kinds
  <1> QED
    BY <1>5, <1>6

-----------------------------------------------------------------------------
(* A directory on its way back.                                             *)

(* iconv_dir_fill: the entries that have a name for users, under that name. *)
LEMMA DecodedEntries ==
  {Decoded(n) : n \in {m \in Entries : Decodes(m)}} = {n \in DOMAIN Encoding : Encoding[n] \in Entries}
  <1> DEFINE A == {Decoded(n) : n \in {m \in Entries : Decodes(m)}}
             B == {n \in DOMAIN Encoding : Encoding[n] \in Entries}
  <1>1. ASSUME NEW x \in A
        PROVE  x \in B
    <2>1. PICK n \in Entries : Decodes(n) /\ x = Decoded(n)
      OBVIOUS
    <2> QED
      BY <2>1, DecodedFacts
  <1>2. ASSUME NEW x \in B
        PROVE  x \in A
    <2> DEFINE y == Decoded(Encoding[x])
    <2>1. Decodes(Encoding[x])
      BY DEF Decodes, Range
    <2>2. y \in DOMAIN Encoding /\ Encoding[y] = Encoding[x]
      BY <2>1, DecodedFacts
    <2>3. y = x
      BY <2>2, StackAssumption DEF IsInjective
    <2> QED
      BY <2>1, <2>3
  <1> QED
    BY <1>1, <1>2

(* What one more layer makes of the entries.                                *)
LEMMA NamesPassed ==
  ASSUME Inv, NamesOK, OneIconv, call.op = "readdir", call.stage = "back",
         NEW passed \in Passed(Here, call.answer), passed.error = "0"
  PROVE  NamesFit(call.at, passed)
  <1> DEFINE i == call.at
             visible == {n \in DOMAIN Encoding : Encoding[n] \in Entries}
  <1>1. /\ i \in 1..Top /\ Top \in Nat /\ Up /\ Here = layers[i] /\ call.answer \in Answers
        /\ phase # "gone" /\ call.answer.link = Null
    BY LayerFacts, CallFields, ReadingIsUp, ReadlinkIsRequest DEF Inv, StageOK, Up, Here, Idle
  <1>2. /\ Here.kind \in Kinds \cup {"fs"}
        /\ IF i = 1 THEN Here.kind = "fs" ELSE Here.kind \in Kinds
    BY <1>1, KindHere
  <1>3. call.answer.error = "0"
    BY <1>1, <1>2, PassedShort
  <1>4. NamesFit(i - 1, call.answer)
    BY <1>1, <1>3 DEF NamesOK
  <1>5. CASE i = 1
    <2>1. passed = call.answer
      BY <1>2, <1>5 DEF Passed
    <2>2. ~HasIconv(1) /\ ~HasIconv(i - 1)
      BY <1>5 DEF HasIconv
    <2> QED
      BY <1>4, <1>5, <2>1, <2>2 DEF NamesFit, Visible
  <1>6. CASE i # 1
    <2>1. i \in 2..Top /\ Intact(i) /\ Here.kind \in Kinds
      BY <1>1, <1>2, <1>6 DEF Intact
    <2>2. passed \in NamesBack(Here, call.answer)
      BY <1>1, <1>3, <2>1 DEF Passed, Kinds
    <2>3. HasIconv(i) <=> HasIconv(i - 1) \/ Here.kind = "iconv"
      BY <1>1, <2>1 DEF HasIconv
    <2>4. CASE Here.kind = "subdir"
      <3>1. passed = call.answer
        BY <2>2, <2>4 DEF NamesBack
      <3> QED
        BY <1>4, <2>3, <2>4, <3>1 DEF NamesFit, Visible
    <2>5. CASE Here.kind = "iconv"
      <3>1. ~HasIconv(i - 1)
        <4> SUFFICES ASSUME NEW j \in 2..(i - 1), layers[j].kind = "iconv"
                     PROVE  FALSE
          BY DEF HasIconv
        <4>1. j \in 2..Top /\ j # i
          BY <1>1
        <4> QED
          BY <1>1, <2>1, <2>5, <4>1, OneConverter
      <3>2. call.answer.names = Entries /\ ~call.answer.short
        BY <1>4, <3>1 DEF NamesFit, Visible
      <3> DEFINE known == {Decoded(n) : n \in {m \in call.answer.names : Decodes(m)}}
      <3>3. PICK names \in SUBSET known :
              passed = [call.answer EXCEPT !.names = names, !.short = @ \/ names # known]
        BY <2>2, <2>5 DEF NamesBack
      <3>4. known = visible
        BY <3>2, DecodedEntries
      <3> HIDE DEF known
      <3>5. passed.names = names /\ (passed.short <=> names # known)
        BY <1>1, <3>2, <3>3 DEF Answers
      <3>6. HasIconv(i) /\ Visible(i) = known
        BY <2>3, <2>5, <3>4 DEF Visible
      <3> QED
        BY <3>3, <3>5, <3>6 DEF NamesFit
    <2> QED
      BY <2>1, <2>4, <2>5 DEF Kinds
  <1> QED
    BY <1>5, <1>6

-----------------------------------------------------------------------------
(* The answers through every step.                                          *)

ReturnInv == PathsOK /\ BottomOK /\ ChainOK /\ LinkOK /\ NamesOK

(* What a link leads to depends on the layers alone.                        *)
LEMMA LinkFitsStays ==
  ASSUME UNCHANGED layers
  PROVE  /\ \A i, t, p, link : LinkFits(i, t, p, link)' <=> LinkFits(i, t, p, link)
         /\ \A i : HasIconv(i)' <=> HasIconv(i)
         /\ Top' = Top
  <1>1. Top' = Top /\ Base' = Base /\ \A i : HasIconv(i)' <=> HasIconv(i)
    BY DEF Top, Base, Code, HasIconv
  <1>2. \A i, path : Code(i, path)' = Code(i, path)
    BY DEF Code
  <1>3. \A i, t, p : OneSubdirLeaves(i, t, p)' <=> OneSubdirLeaves(i, t, p)
    BY <1>1 DEF OneSubdirLeaves
  <1>4. \A i, path : Convertible(i, path)' <=> Convertible(i, path)
    BY <1>1 DEF Convertible
  <1> QED
    BY <1>1, <1>2, <1>3, <1>4 DEF LinkFits

(* LinkOK in the next state, from what call' is.                            *)
LEMMA LinkKept ==
  ASSUME UNCHANGED layers, NEW i, NEW t, NEW p, NEW link, LinkFits(i, t, p, link),
         call'.at - 1 = i, call'.reached # <<>>, call'.reached[3] = t, call'.reached[2][1] = p,
         call'.answer.link = link, ~call'.answer.short
  PROVE  LinkOK'
  <1>1. Top' = Top /\ Base' = Base /\ Code(i, link.names)' = Code(i, link.names)
    BY DEF Top, Base, Code
  <1>2. HasIconv(i)' <=> HasIconv(i)
    BY DEF HasIconv
  <1>3. OneSubdirLeaves(i, t, p)' <=> OneSubdirLeaves(i, t, p)
    BY <1>1 DEF OneSubdirLeaves
  <1>4. LinkFits(i, t, p, link)'
    BY <1>1, <1>2, <1>3 DEF LinkFits, Convertible
  <1> QED
    BY <1>4 DEF LinkOK

(* Without a call, or as one begins, there is nothing to tell but what was  *)
(* asked for.                                                               *)
LEMMA BeginReturn ==
  ASSUME Inv, Push \/ PushFails \/ Start \/ Stop \/ Request \/ Finish
  PROVE  BottomOK' /\ ChainOK' /\ LinkOK' /\ NamesOK'
  <1>1. CASE Push \/ Finish
    <2>1. call' = NoCall
      BY <1>1 DEF Push, Finish, Inv, PhaseOK
    <2>2. call'.stage = "none" /\ call'.op = "none"
      BY <2>1 DEF NoCall
    <2> QED
      BY <2>2 DEF BottomOK, ChainOK, LinkOK, NamesOK, Reading, Up
  <1>2. ASSUME NEW op \in Operations, NEW args \in Seq(PathOrNull), Begin(op, args), UNCHANGED layers,
               op = "readlink" => args[1] \in Paths
        PROVE  BottomOK' /\ ChainOK' /\ LinkOK' /\ NamesOK'
    <2>1. Top \in Nat /\ Top >= 1 /\ Top' = Top
      BY <1>2, LayerFacts DEF Inv, Top
    <2>2. /\ call'.op = op /\ call'.stage = "enter" /\ call'.at = Top
          /\ Len(call'.args) = Top /\ call'.args[Top] = args /\ call'.reached = <<>>
      BY <1>2, <2>1, BeginFacts
    <2>3. Asked' = args
      BY <2>1, <2>2 DEF Asked
    <2>4. ASSUME NEW i \in (2..Top)', Passing(i)'
          PROVE  FALSE
      BY <2>1, <2>2, <2>4 DEF Passing
    <2>5. ChainOK'
      BY <1>2, <2>2, <2>3, <2>4 DEF ChainOK, Reading
    <2> QED
      BY <2>2, <2>5 DEF BottomOK, LinkOK, NamesOK, Up
  <1>3. CASE PushFails
    <2>1. Begin("destroy", <<>>) /\ layers' = [layers EXCEPT ![1].ops = @ \ {"destroy"}]
      BY <1>3 DEF PushFails
    <2>2. call'.op = "destroy" /\ call'.stage = "enter"
      BY <2>1 DEF Begin, NoCall
    <2> QED
      BY <2>2 DEF BottomOK, ChainOK, LinkOK, NamesOK, Reading, Up
  <1>4. CASE Start \/ Stop
    <2>1. call'.op \in LifeOps /\ call'.stage = "enter"
      BY <1>4 DEF Start, Stop, Begin, NoCall, LifeOps
    <2> QED
      BY <2>1 DEF BottomOK, ChainOK, LinkOK, NamesOK, Reading, Up, LifeOps
  <1>5. CASE Request
    <2>1. UNCHANGED layers
      BY <1>5 DEF Request
    <2>2. PICK op \in Requests :
             \/ op \in TwoPaths /\ \E p, q \in Paths : Begin(op, <<p, q>>)
             \/ op \notin TwoPaths /\ \E p \in Paths : Begin(op, <<p>>)
             \/ op \in NullOps /\ (lib.nullpath \/ lib.nopath) /\ Begin(op, <<Null>>)
      BY <1>5 DEF Request
    <2>3. op \in Operations
      BY RequestsAreNotLife
    <2>4. Paths \subseteq PathOrNull /\ Null \in PathOrNull
      BY StackAssumption DEF PathOrNull
    <2>5. ASSUME op \in TwoPaths, NEW p \in Paths, NEW q \in Paths, Begin(op, <<p, q>>)
          PROVE  BottomOK' /\ ChainOK' /\ LinkOK' /\ NamesOK'
      <3>1. <<p, q>> \in Seq(PathOrNull)
        BY <2>4
      <3>2. op # "readlink"
        BY <2>5, ReadlinkIsRequest
      <3> QED
        BY <1>2, <2>1, <2>3, <2>5, <3>1, <3>2
    <2>6. ASSUME NEW p \in Paths, Begin(op, <<p>>)
          PROVE  BottomOK' /\ ChainOK' /\ LinkOK' /\ NamesOK'
      <3>1. <<p>> \in Seq(PathOrNull) /\ <<p>>[1] \in Paths
        BY <2>4
      <3> QED
        BY <1>2, <2>1, <2>3, <2>6, <3>1
    <2>7. ASSUME op \in NullOps, Begin(op, <<Null>>)
          PROVE  BottomOK' /\ ChainOK' /\ LinkOK' /\ NamesOK'
      <3>1. <<Null>> \in Seq(PathOrNull)
        BY <2>4
      <3>2. op # "readlink"
        BY <2>7, ReadlinkIsRequest
      <3> QED
        BY <1>2, <2>1, <2>3, <2>7, <3>1, <3>2
    <2> QED
      BY <2>2, <2>5, <2>6, <2>7
  <1> QED
    BY <1>1, <1>3, <1>4, <1>5

(* A wrapper that has nothing to call fails both.                           *)
LEMMA EnterReturn ==
  ASSUME Inv, ReturnInv, Enter
  PROVE  BottomOK' /\ ChainOK' /\ LinkOK' /\ NamesOK'
  <1> DEFINE chosen == Chosen(Here.ops, call.op, Args)
  <1>1. /\ call.stage = "enter" /\ UNCHANGED layers
        /\ call' = IF chosen # "none"
                   THEN [call EXCEPT !.stage = IF call.at = 1 THEN "bottom" ELSE "body"]
                   ELSE [call EXCEPT !.stage = "back",
                                     !.answer = [NoAnswer EXCEPT !.error = Default(call.op)]]
    BY DEF Enter
  <1>2. ~Idle /\ Down /\ call.reached = <<>>
    BY <1>1 DEF Idle, Down, Inv, StageOK
  <1> HIDE DEF chosen
  <1>3. /\ call'.op = call.op /\ call'.at = call.at /\ call'.args = call.args
        /\ call'.reached = call.reached
        /\ chosen # "none" => call'.stage \in {"bottom", "body"}
        /\ chosen = "none" => call'.answer.error = Default(call.op) /\ call'.stage = "back"
    BY <1>1, NoCallFacts DEF Inv, Calls, Answers
  <1>4. Args' = Args /\ Here' = Here /\ Asked' = Asked /\ Top' = Top
    BY <1>1, <1>3 DEF Args, Here, Asked, Top
  <1>5. BottomOK'
    <2>1. call'.stage = "bottom" => chosen # "none"
      BY <1>3
    <2> QED
      BY <1>3, <1>4, <2>1 DEF BottomOK, chosen
  <1>6. ChainOK'
    <2>1. Reading' => Reading
      BY <1>2, <1>3 DEF Reading
    <2>2. \A i : Passing(i)' => Passing(i)
      BY <1>2, <1>3 DEF Passing
    <2> QED
      BY <1>1, <1>3, <1>4, <2>1, <2>2 DEF ReturnInv, ChainOK
  <1>7. Up' => call'.answer.error = Default(call.op)
    BY <1>3 DEF Up
  <1>8. Default("readlink") # "0" /\ Default("readdir") # "0"
    BY ReadlinkIsRequest DEF Default
  <1> QED
    BY <1>3, <1>5, <1>6, <1>7, <1>8 DEF LinkOK, NamesOK, Reading

(* The file system gives a target, or its entries.                          *)
LEMMA BottomReturn ==
  ASSUME Inv, ReturnInv, Bottom
  PROVE  BottomOK' /\ ChainOK' /\ LinkOK' /\ NamesOK'
  <1> DEFINE op == Chosen(Here.ops, call.op, Args)
             names == IF op \in {"readdir", "getdir"} THEN Entries ELSE {}
  <1>1. PICK error \in (IF op \in LifeOps THEN {"0"} ELSE {"0", "EIO"}),
             link \in (IF op = "readlink" THEN Links ELSE {Null}) :
           call' = [call EXCEPT !.stage = "back", !.reached = <<op, Args, link>>,
                                !.confused = @ \/ private # Here.data,
                                !.answer = [error |-> error, link |-> link, short |-> FALSE, names |-> names]]
    BY DEF Bottom
  <1>2. /\ call.stage = "bottom"
        /\ layers' = IF op = "init" THEN [layers EXCEPT ![1].data = "own"] ELSE layers
    BY DEF Bottom
  <1>3. call.at = 1 /\ ~Idle /\ Down /\ op # "none"
    BY <1>2 DEF Inv, StageOK, Idle, Down, ReturnInv, BottomOK
  <1>4. /\ call.op = "readlink" => op = "readlink"
        /\ call.op = "readdir" => op \in {"readdir", "getdir"}
    BY <1>3, ReadlinkIsRequest DEF Chosen
  <1> HIDE DEF op, names
  <1>5. /\ call'.op = call.op /\ call'.stage = "back" /\ call'.args = call.args /\ call'.at = call.at
        /\ call'.reached = <<op, Args, link>> /\ call'.answer.link = link
        /\ call'.answer.names = names /\ ~call'.answer.short
    BY <1>1 DEF Inv, Calls
  <1>6. BottomOK'
    BY <1>5 DEF BottomOK
  <1>7. call.op \in {"readlink", "readdir"} => UNCHANGED layers
    BY <1>2, <1>4
  <1>8. ~HasIconv(0) /\ ~HasIconv(0)'
    BY DEF HasIconv
  <1>9. NamesOK'
    <2> SUFFICES ASSUME call.op = "readdir"
                 PROVE  NamesOK'
      BY <1>5 DEF NamesOK
    <2>1. names = Entries
      BY <1>4 DEF names
    <2>2. call'.at - 1 = 0
      BY <1>3, <1>5
    <2> QED
      BY <1>5, <1>8, <2>1, <2>2 DEF NamesOK, NamesFit, Visible
  <1>10. LinkOK'
    <2> SUFFICES ASSUME call.op = "readlink"
                 PROVE  LinkOK'
      BY <1>5 DEF LinkOK, Reading
    <2>1. link \in Links /\ link \in LinkSet /\ link # Null
      BY <1>1, <1>4, NullIsNoLink
    <2>2. link.names \in Seq(Names)
      BY <2>1 DEF LinkSet
    <2>3. Code(0, link.names) = link.names /\ Convertible(0, link.names)
      BY <1>8, <2>2, CodeFacts DEF Convertible
    <2>4. PICK p : p = Args[1]
      OBVIOUS
    <2>5. LinkFits(0, link, p, link)
      BY <2>1, <2>3 DEF LinkFits, OneSubdirLeaves
    <2>6. UNCHANGED layers /\ call'.at - 1 = 0 /\ call'.reached # <<>> /\ call'.reached[3] = link
          /\ call'.reached[2][1] = p /\ call'.answer.link = link /\ ~call'.answer.short
      BY <1>3, <1>5, <1>7, <2>4
    <2> QED
      BY <2>5, <2>6, LinkKept
  <1>11. ChainOK'
    <2> SUFFICES ASSUME call.op = "readlink"
                 PROVE  ChainOK'
      BY <1>5 DEF ChainOK, Reading
    <2>1. UNCHANGED layers /\ Top' = Top /\ Asked' = Asked /\ Reading
      BY <1>3, <1>5, <1>7 DEF Top, Asked, Reading
    <2>2. \A i \in 2..Top : Passing(i)
      <3>1. Top \in Nat
        BY LayerFacts DEF Inv
      <3> QED
        BY <1>3, <3>1 DEF Passing
    <2> QED
      BY <1>5, <2>1, <2>2 DEF ChainOK, ReturnInv
  <1> QED
    BY <1>6, <1>9, <1>10, <1>11

(* A module calls the layer below, or fails.                                *)
LEMMA BodyReturn ==
  ASSUME Inv, ReturnInv, Body
  PROVE  BottomOK' /\ ChainOK' /\ LinkOK' /\ NamesOK'
  <1>1. call.stage = "body" /\ UNCHANGED layers
    BY DEF Body
  <1>2. ~Idle /\ Down /\ call.at \in 2..Top /\ Len(call.args) = Top
    BY <1>1 DEF Inv, StageOK, Idle, Down
  <1>3. call.reached = <<>> /\ Top \in Nat /\ Top' = Top
    BY <1>1, <1>2, ArgsFacts DEF Top
  <1>4. CASE /\ ~Refuses(Here, Args)
             /\ call' = [call EXCEPT !.stage = "enter", !.at = @ - 1,
                                     !.args[call.at - 1] = Mapped(Here, call.op, Args),
                                     !.confused = @ \/ private # Here.data]
    <2> DEFINE mapped == Mapped(Here, call.op, Args)
               i == call.at
    <2> HIDE DEF mapped
    <2>1. /\ call'.op = call.op /\ call'.at = i - 1 /\ call'.stage = "enter"
          /\ call'.reached = call.reached /\ call'.args = [call.args EXCEPT ![i - 1] = mapped]
      BY <1>4 DEF Inv, Calls, mapped
    <2>2. DOMAIN call.args = 1..Top
      BY <1>2, CallFields, LenProperties DEF Inv
    <2>3. call'.args[i - 1] = mapped /\ \A j \in i..Top : call'.args[j] = call.args[j]
      BY <1>2, <1>3, <2>1, <2>2
    <2>4. Asked' = Asked
      BY <1>2, <1>3, <2>3 DEF Asked
    <2>5. ASSUME Reading, NEW j \in 2..Top, Passing(j)'
          PROVE  ~Refuses(layers[j], call'.args[j])
                 /\ call'.args[j - 1] = Mapped(layers[j], "readlink", call'.args[j])
      <3>1. j > i - 1
        BY <1>3, <2>1, <2>5 DEF Passing
      <3>2. CASE j = i
        BY <1>2, <1>4, <2>3, <2>5, <3>2 DEF mapped, Here, Args, Reading
      <3>3. CASE j # i
        <4>1. j > i /\ j \in i..Top /\ j - 1 \in i..Top
          BY <1>2, <1>3, <3>1, <3>3
        <4>2. Passing(j)
          BY <1>2, <4>1 DEF Passing
        <4> QED
          BY <2>3, <2>5, <4>1, <4>2 DEF ReturnInv, ChainOK
      <3> QED
        BY <3>2, <3>3
    <2>6. ChainOK'
      <3>1. Reading' => Reading
        BY <1>2, <2>1 DEF Reading
      <3>2. Reading => Asked[1] \in Paths
        BY DEF ReturnInv, ChainOK
      <3> QED
        BY <1>1, <1>3, <2>4, <2>5, <3>1, <3>2 DEF ChainOK
    <2> QED
      BY <2>1, <2>6 DEF BottomOK, LinkOK, NamesOK, Up
  <1>5. ASSUME NEW error \in {"ENOMEM"} \cup (IF Refuses(Here, Args) THEN {"EILSEQ"} ELSE {}),
               call' = [call EXCEPT !.stage = "back", !.answer = [NoAnswer EXCEPT !.error = error]]
        PROVE  BottomOK' /\ ChainOK' /\ LinkOK' /\ NamesOK'
    <2>1. /\ call'.op = call.op /\ call'.stage = "back" /\ call'.args = call.args
          /\ call'.reached = <<>> /\ call'.answer.error = error
      BY <1>3, <1>5, NoCallFacts DEF Inv, Calls, Answers
    <2>2. error # "0"
      OBVIOUS
    <2>3. Asked' = Asked /\ \A j : ~Passing(j)'
      BY <1>3, <2>1 DEF Asked, Passing, Down
    <2>4. Reading' => Reading
      BY <1>2, <2>1 DEF Reading
    <2>5. ChainOK'
      BY <2>3, <2>4 DEF ReturnInv, ChainOK
    <2> QED
      BY <2>1, <2>2, <2>5 DEF BottomOK, LinkOK, NamesOK
  <1> QED
    BY <1>4, <1>5 DEF Body

(* Up one layer.                                                            *)
LEMMA BackReturn ==
  ASSUME Inv, ReturnInv, OneIconv, LowestRelative, RootIsNoLink, Back
  PROVE  BottomOK' /\ ChainOK' /\ LinkOK' /\ NamesOK'
  <1>0. PICK answer \in Passed(Here, call.answer) :
          call' = [call EXCEPT !.answer = answer, !.at = call.at + 1,
                               !.stage = IF call.at = Len(call.args) THEN "done" ELSE "back"]
    BY DEF Back
  <1>1. call.stage = "back" /\ (call.op # "destroy" => UNCHANGED layers)
    BY DEF Back
  <1>2. /\ call'.op = call.op /\ call'.args = call.args /\ call'.reached = call.reached
        /\ call'.answer = answer /\ call'.stage \in {"done", "back"}
        /\ call'.at = call.at + 1
    BY <1>0 DEF Inv, Calls
  <1>3. BottomOK'
    BY <1>2 DEF BottomOK
  <1>4. ~Idle /\ ~Down /\ ~Down' /\ (call.at - 1)' = call.at
    <2>1. call.at \in Nat
      BY CallFields DEF Inv
    <2> QED
      BY <1>1, <1>2, <2>1 DEF Idle, Down
  <1>5. Reading' => Reading /\ UNCHANGED layers
    BY <1>1, <1>2, <1>4 DEF Reading
  <1>6. ChainOK'
    <2> SUFFICES ASSUME Reading, UNCHANGED layers
                 PROVE  ChainOK'
      BY <1>5 DEF ChainOK
    <2>1. Top' = Top /\ Asked' = Asked
      BY <1>2 DEF Top, Asked
    <2>2. \A i : Passing(i)' => Passing(i)
      BY <1>2, <1>4 DEF Passing
    <2> QED
      BY <1>2, <2>1, <2>2 DEF ReturnInv, ChainOK
  <1>7. LinkOK'
    <2> SUFFICES ASSUME Reading, UNCHANGED layers, answer.error = "0"
                 PROVE  LinkOK'
      BY <1>2, <1>5 DEF LinkOK
    <2>1. PICK i, t, p, link :
            /\ i = call.at /\ t = call.reached[3] /\ p = call.reached[2][1]
            /\ link = answer.link
      OBVIOUS
    <2>2. /\ call.reached # <<>>
          /\ answer.short \/ LinkFits(i, t, p, link)
          /\ answer.short => HasIconv(i)
      BY <1>1, <2>1, LinkPassed DEF ReturnInv
    <2>3. /\ call'.at - 1 = i /\ call'.reached # <<>> /\ call'.reached[3] = t
          /\ call'.reached[2][1] = p /\ call'.answer.link = link
      BY <1>2, <1>4, <2>1, <2>2
    <2>4. CASE answer.short
      <3>1. HasIconv(i)'
        BY <2>2, <2>4 DEF HasIconv
      <3> QED
        BY <1>2, <2>3, <2>4, <3>1 DEF LinkOK
    <2>5. CASE ~answer.short
      BY <1>2, <2>2, <2>3, <2>5, LinkKept
    <2> QED
      BY <2>4, <2>5
  <1>8. NamesOK'
    <2> SUFFICES ASSUME call.op = "readdir", answer.error = "0"
                 PROVE  NamesOK'
      BY <1>2 DEF NamesOK
    <2>1. PICK i : i = call.at
      OBVIOUS
    <2>2. NamesFit(i, answer)
      BY <1>1, <2>1, NamesPassed DEF ReturnInv
    <2>3. call'.at - 1 = i
      BY <1>4, <2>1
    <2>4. HasIconv(i)' <=> HasIconv(i)
      BY <1>1 DEF HasIconv
    <2> QED
      BY <1>2, <2>2, <2>3, <2>4 DEF NamesOK, NamesFit, Visible
  <1> QED
    BY <1>3, <1>6, <1>7, <1>8

(* Every step keeps what is known of the answers.                           *)
LEMMA ReturnNext ==
  ASSUME Inv, ReturnInv, OneIconv, LowestRelative, RootIsNoLink, [Next]_vars
  PROVE  ReturnInv'
  <1>1. PathsOK'
    BY PathsNext DEF ReturnInv
  <1>2. CASE UNCHANGED vars
    <2>1. UNCHANGED <<layers, call>>
      BY <1>2 DEF vars
    <2>2. Top' = Top /\ Asked' = Asked /\ Args' = Args /\ Here' = Here
      BY <2>1 DEF Top, Asked, Args, Here
    <2>3. BottomOK'
      BY <2>1, <2>2 DEF ReturnInv, BottomOK
    <2>4. (Reading' <=> Reading) /\ (Up' <=> Up) /\ \A i : Passing(i)' <=> Passing(i)
      BY <2>1 DEF Reading, Up, Passing, Down, Idle
    <2>5. ChainOK'
      BY <2>1, <2>2, <2>4 DEF ReturnInv, ChainOK
    <2>6. NamesOK'
      <3>1. PICK i : i = call.at - 1
        OBVIOUS
      <3>2. HasIconv(i)' <=> HasIconv(i)
        BY <2>1 DEF HasIconv
      <3> QED
        BY <2>1, <2>4, <3>1, <3>2 DEF ReturnInv, NamesOK, NamesFit, Visible
    <2>7. LinkOK'
      <3> SUFFICES ASSUME Reading, Up, call.answer.error = "0"
                   PROVE  LinkOK'
        BY <2>1, <2>4 DEF LinkOK
      <3>1. PICK i, t, p, link :
              /\ i = call.at - 1 /\ t = call.reached[3] /\ p = call.reached[2][1]
              /\ link = call.answer.link
        OBVIOUS
      <3>2. /\ call.reached # <<>>
            /\ call.answer.short \/ LinkFits(i, t, p, link)
            /\ call.answer.short => HasIconv(i)
        BY <3>1 DEF ReturnInv, LinkOK
      <3>3. /\ call'.at - 1 = i /\ call'.reached # <<>> /\ call'.reached[3] = t
            /\ call'.reached[2][1] = p /\ call'.answer.link = link
        BY <2>1, <3>1, <3>2
      <3>4. CASE call.answer.short
        <4>1. HasIconv(i)'
          BY <2>1, <3>2, <3>4 DEF HasIconv
        <4> QED
          BY <2>1, <3>3, <3>4, <4>1 DEF LinkOK
      <3>5. CASE ~call.answer.short
        BY <2>1, <3>2, <3>3, <3>5, LinkKept
      <3> QED
        BY <3>4, <3>5
    <2> QED
      BY <1>1, <2>3, <2>5, <2>6, <2>7 DEF ReturnInv
  <1>3. CASE Push \/ PushFails \/ Start \/ Stop \/ Request \/ Finish
    BY <1>1, <1>3, BeginReturn DEF ReturnInv
  <1>4. CASE Enter
    BY <1>1, <1>4, EnterReturn DEF ReturnInv
  <1>5. CASE Bottom
    BY <1>1, <1>5, BottomReturn DEF ReturnInv
  <1>6. CASE Body
    BY <1>1, <1>6, BodyReturn DEF ReturnInv
  <1>7. CASE Back
    BY <1>1, <1>7, BackReturn DEF ReturnInv
  <1> QED
    BY <1>2, <1>3, <1>4, <1>5, <1>6, <1>7 DEF Next

(* No call has been made at first.                                          *)
LEMMA ReturnInit == Init => ReturnInv
  BY NoCallFacts DEF Init, ReturnInv, PathsOK, BottomOK, ChainOK, LinkOK, NamesOK, Reading, Up, Idle

-----------------------------------------------------------------------------
(* The answer the handler gets.                                             *)

(* t is reached from b \o c up to b \o e, never out of b, and down again.    *)
ClimbsTo(t, b, c, up, e, d) ==
  /\ Climbs(t, b \o c, up, d)
  /\ Len(e) \in Nat /\ Len(e) = Len(b \o c) - 1 - up - Len(b) /\ \A k \in 1..Len(e) : e[k] = c[k]

(* Such a way leads below b, to where c has e and d.                        *)
LEMMA ClimbsBelow ==
  ASSUME NEW b \in Seq(Spellings), NEW c \in Seq(Spellings), NEW d \in Seq(Spellings),
         NEW e \in Seq(Spellings), NEW t \in Seq(Names), NEW up, ClimbsTo(t, b, c, up, e, d)
  PROVE  b \o (e \o d) = t
  <1> PICK p, n : p = b \o c /\ n = Len(e)
    OBVIOUS
  <1>0. /\ Climbs(t, p, up, d) /\ n \in Nat /\ n = Len(p) - 1 - up - Len(b)
        /\ \A k \in 1..n : e[k] = c[k]
    BY DEF ClimbsTo
  <1> DEFINE s == e \o d
             r == b \o s
             m == Len(p) - 1 - up
  <1>1. Len(b) \in Nat /\ Len(c) \in Nat /\ Len(d) \in Nat /\ Len(t) \in Nat
    BY LenProperties
  <1>2. p \in Seq(Spellings) /\ Len(p) = Len(b) + Len(c)
        /\ \A k \in 1..(Len(b) + Len(c)) : p[k] = IF k <= Len(b) THEN b[k] ELSE c[k - Len(b)]
    BY ConcatProperties
  <1>3. s \in Seq(Spellings) /\ Len(s) = n + Len(d)
        /\ \A k \in 1..(n + Len(d)) : s[k] = IF k <= n THEN e[k] ELSE d[k - n]
    BY ConcatProperties
  <1> HIDE DEF s
  <1>4. r \in Seq(Spellings) /\ Len(r) = Len(b) + Len(s)
        /\ \A k \in 1..(Len(b) + Len(s)) : r[k] = IF k <= Len(b) THEN b[k] ELSE s[k - Len(b)]
    BY <1>3, ConcatProperties
  <1> HIDE DEF r
  <1>5. /\ up \in Nat /\ m = Len(b) + n /\ m < Len(p) /\ Len(t) = Len(b) + n + Len(d)
        /\ \A k \in 1..(Len(b) + n) : t[k] = p[k]
        /\ \A k \in 1..Len(d) : t[Len(b) + n + k] = d[k]
    BY <1>0, <1>1, <1>2 DEF Climbs
  <1>6. Len(r) = Len(t)
    BY <1>1, <1>3, <1>4, <1>5
  <1>7. ASSUME NEW k \in 1..Len(t)
        PROVE  r[k] = t[k]
    <2>1. CASE k <= Len(b)
      <3>1. k \in 1..(Len(b) + n) /\ k \in 1..(Len(b) + Len(c)) /\ k \in 1..(Len(b) + Len(s))
        BY <1>1, <1>2, <1>4, <1>5, <1>6, <2>1
      <3> QED
        BY <1>2, <1>4, <1>5, <2>1, <3>1
    <2>2. CASE k > Len(b) /\ k <= Len(b) + n
      <3>1. k - Len(b) \in 1..n /\ k \in 1..(Len(b) + n) /\ k \in 1..(Len(b) + Len(c))
        BY <1>1, <1>2, <1>5, <2>2
      <3>2. t[k] = c[k - Len(b)]
        BY <1>2, <1>5, <2>2, <3>1
      <3>3. r[k] = s[k - Len(b)]
        BY <1>1, <1>4, <1>6, <2>2
      <3>4. s[k - Len(b)] = e[k - Len(b)]
        BY <1>1, <1>3, <3>1
      <3> QED
        BY <1>0, <3>1, <3>2, <3>3, <3>4
    <2>3. CASE k > Len(b) + n
      <3>1. PICK j \in 1..Len(d) : k = Len(b) + n + j
        <4>1. k - Len(b) - n \in 1..Len(d) /\ k = Len(b) + n + (k - Len(b) - n)
          BY <1>1, <1>5, <2>3
        <4> QED
          BY <4>1
      <3>2. t[k] = d[j]
        BY <1>5, <3>1
      <3>3. r[k] = s[n + j]
        <4>1. k > Len(b) /\ k \in 1..(Len(b) + Len(s)) /\ k - Len(b) = n + j
          BY <1>1, <1>4, <1>6, <3>1
        <4>2. r[k] = s[k - Len(b)]
          <5>1. ~(k <= Len(b))
            BY <1>1, <4>1
          <5>2. r[k] = IF k <= Len(b) THEN b[k] ELSE s[k - Len(b)]
            BY <1>4, <4>1
          <5> QED
            BY <5>1, <5>2
        <4> QED
          BY <4>1, <4>2
      <3>4. s[n + j] = d[j]
        <4>1. n + j \in 1..(n + Len(d)) /\ ~(n + j <= n) /\ (n + j) - n = j
          BY <1>1, <3>1
        <4> QED
          BY <1>3, <4>1
      <3> QED
        BY <3>2, <3>3, <3>4
    <2> QED
      BY <1>1, <1>5, <2>1, <2>2, <2>3
  <1>8. r = t
    <2>1. r = [k \in 1..Len(r) |-> r[k]] /\ t = [k \in 1..Len(t) |-> t[k]]
      BY <1>4
    <2> QED
      BY <1>6, <1>7, <2>1, Zenon
  <1> QED
    BY <1>8 DEF r, s

(* A relative link that leads out of no base leads, in the mount, to the    *)
(* file its target names: the names of p up to where the link climbs are    *)
(* the base and the beginning of the link's own path.                       *)
LEMMA ResolveMeans ==
  ASSUME NEW path \in Seq(Names), NEW t \in Seq(Names), NEW link, link.names \in Seq(Names),
         Base \in Seq(Spellings), NEW p, p = Base \o Code(Top, path),
         Climbs(t, p, link.up, Code(Top, link.names)), Len(Base) <= Len(p) - 1 - link.up
  PROVE  link.up < Len(path) /\ Below(Resolve(path, link)) = t
  <1>1. PICK b, c, d, n, front, e :
          /\ b = Base /\ c = Code(Top, path) /\ d = Code(Top, link.names)
          /\ n = Len(path) - 1 - link.up /\ front = SubSeq(path, 1, n) /\ e = Code(Top, front)
    OBVIOUS
  <1>2. /\ c \in Seq(Spellings) /\ Len(c) = Len(path) /\ Len(path) \in Nat
        /\ d \in Seq(Spellings) /\ b \in Seq(Spellings) /\ Len(b) \in Nat
    BY <1>1, CodeFacts, LenProperties
  <1>3. p = b \o c /\ Len(p) = Len(b) + Len(path)
    <2>1. p = b \o c
      BY <1>1
    <2>2. Len(b \o c) = Len(b) + Len(c)
      BY <1>2, ConcatProperties
    <2> QED
      BY <1>2, <2>1, <2>2
  <1>4. link.up \in Nat /\ Len(b) <= Len(p) - 1 - link.up
    BY <1>1, <1>2, <1>3 DEF Climbs
  <1>5. /\ n \in Nat /\ n = Len(p) - 1 - link.up - Len(b) /\ link.up < Len(path) /\ n <= Len(path)
    <2>1. PICK x, y, z, w : x = Len(path) /\ y = link.up /\ z = Len(b) /\ w = Len(p)
      OBVIOUS
    <2>2. n = x - 1 - y /\ w = z + x /\ x \in Nat /\ y \in Nat /\ z \in Nat /\ z <= w - 1 - y
      BY <1>1, <1>2, <1>3, <1>4, <2>1
    <2>3. n \in Nat /\ n = w - 1 - y - z /\ y < x /\ n <= x
      BY <2>2
    <2> QED
      BY <2>1, <2>3
  <1>6. front \in Seq(Names) /\ Len(front) = n /\ \A k \in 1..n : front[k] = path[k]
    BY <1>1, <1>2, <1>5, SubSeqProperties
  <1>7. e \in Seq(Spellings) /\ Len(e) = n
    BY <1>1, <1>6, CodeFacts
  <1>8. \A k \in 1..n : e[k] = c[k]
    <2>1. DOMAIN path = 1..Len(path) /\ DOMAIN front = 1..n /\ \A k \in 1..n : k \in 1..Len(path)
      BY <1>2, <1>5, <1>6, LenProperties
    <2>2. CASE HasIconv(Top)
      <3>1. /\ c = [k \in 1..Len(path) |-> Encoding[path[k]]]
            /\ e = [k \in 1..n |-> Encoding[front[k]]]
        <4>1. c = [k \in DOMAIN path |-> Encoding[path[k]]]
          BY <1>1, <2>2, CodeFacts
        <4>2. e = [k \in DOMAIN front |-> Encoding[front[k]]]
          BY <1>1, <1>6, <2>2, CodeFacts
        <4> QED
          BY <2>1, <4>1, <4>2
      <3> QED
        BY <1>6, <2>1, <3>1
    <2>3. CASE ~HasIconv(Top)
      BY <1>1, <1>6, <2>3, CodeFacts
    <2> QED
      BY <2>2, <2>3
  <1>9. Resolve(path, link) = front \o link.names
    BY <1>1 DEF Resolve
  <1>10. Code(Top, Resolve(path, link)) = e \o d
    BY <1>1, <1>6, <1>9, CodeOfConcat
  <1>11. Resolve(path, link) # Null
    <2>1. front \o link.names \in Seq(Names)
      BY <1>6, ConcatProperties
    <2> QED
      BY <1>9, <2>1, StackAssumption
  <1>12. Below(Resolve(path, link)) = b \o (e \o d)
    BY <1>1, <1>10, <1>11 DEF Below
  <1>13. b \o (e \o d) = t
    <2>1. Climbs(t, b \o c, link.up, d) /\ Len(e) = Len(b \o c) - 1 - link.up - Len(b)
      BY <1>1, <1>3, <1>5, <1>7
    <2>2. ClimbsTo(t, b, c, link.up, e, d)
      BY <1>5, <1>7, <1>8, <2>1 DEF ClimbsTo
    <2> QED
      BY <1>2, <1>7, <2>2, ClimbsBelow
  <1> QED
    BY <1>5, <1>12, <1>13

(* What ChainOK, LinkOK and NamesOK say of a call that is done.             *)
LEMMA ReturnAnswers ==
  ASSUME Inv, ReturnInv, RootIsNoLink
  PROVE  AnswersComeBack
  <1> SUFFICES ASSUME Answered, call.answer.error = "0"
               PROVE  /\ call.op = "readlink" =>
                           LET target == call.reached[3]
                               link == call.answer.link
                               path == Asked[1]
                           IN  /\ /\ target.abs /\ ~link.abs /\ IsPrefix(Base, target.names)
                                  /\ ~call.answer.short
                                  => LeadsTo(path, link, target)
                               /\ link.abs /\ target.abs /\ Top = 2 /\ layers[2].kind = "subdir" =>
                                    \/ ~layers[2].module.abs \/ ~layers[2].module.rellinks
                                    \/ ~IsStrictPrefix(Base, target.names)
                                    \/ IsStrictPrefix(Below(path), target.names)
                                    \/ \E long \in TooLong : ~long.abs /\ LeadsTo(path, long, target)
                      /\ call.op = "readdir" => NamesFit(Top, call.answer)
    BY DEF AnswersComeBack, HasIconv, NamesFit, Visible
  <1>1. /\ call.stage = "done" /\ Up /\ ~Idle /\ call.op \in Requests /\ Top \in Nat
        /\ call.at - 1 = Top /\ call.answer \in Answers
    BY LayerFacts, CallFields DEF Inv, StageOK, Answered, Up, Idle
  <1>2. phase # "gone"
    BY <1>1, ReadingIsUp
  <1>3. ASSUME call.op = "readdir"
        PROVE  NamesFit(Top, call.answer)
    BY <1>1, <1>3 DEF ReturnInv, NamesOK
  <1>4. CASE call.op = "readlink"
    <2> DEFINE t == call.reached[3]
               p == call.reached[2][1]
               link == call.answer.link
               path == Asked[1]
    <2>0. /\ Reading /\ call.reached # <<>>
          /\ call.answer.short \/ LinkFits(Top, t, p, link)
          /\ call.answer.short => HasIconv(Top)
      BY <1>1, <1>4 DEF Reading, ReturnInv, LinkOK
    <2>1. CASE ~call.answer.short
      <3>1. LinkFits(Top, t, p, link)
        BY <2>0, <2>1
      <3>2. /\ p \in Seq(Names) /\ path \in Seq(Names) /\ path # Null
            /\ p = Base \o Code(Top, path) /\ Base \in Seq(Spellings)
        BY <1>2, <2>0, LinkBelow DEF ReturnInv
      <3>3. t.names \in Seq(Names) /\ link.names \in Seq(Names)
        BY <1>1, <3>1, NullIsNoLink DEF LinkFits, LinkSet, Answers
      <3>4. Below(path) = p
        BY <3>2 DEF Below
      <3> HIDE DEF t, p, link, path
      <3>5. ASSUME t.abs, ~link.abs, IsPrefix(Base, t.names)
            PROVE  LeadsTo(path, link, t)
        <4>1. Climbs(t.names, p, link.up, Code(Top, link.names)) /\ Len(Base) <= Len(p) - 1 - link.up
          BY <3>1, <3>5 DEF LinkFits
        <4> QED
          BY <1>1, <3>2, <3>3, <4>1, ResolveMeans DEF LeadsTo
      <3>6. ASSUME link.abs, t.abs, Top = 2, layers[2].kind = "subdir"
            PROVE  \/ ~layers[2].module.abs \/ ~layers[2].module.rellinks
                   \/ ~IsStrictPrefix(Base, t.names) \/ IsStrictPrefix(Below(path), t.names)
                   \/ \E long \in TooLong : ~long.abs /\ LeadsTo(path, long, t)
        <4>1. ASSUME NEW long \in TooLong, ~long.abs, long.names \in Seq(Names),
                     Climbs(t.names, p, long.up, long.names), Len(Base) <= Len(p) - 1 - long.up
              PROVE  LeadsTo(path, long, t)
          <5>1. ~HasIconv(Top)
            BY <3>6 DEF HasIconv
          <5>2. Code(Top, long.names) = long.names
            BY <4>1, <5>1, CodeFacts
          <5>3. Climbs(t.names, p, long.up, Code(Top, long.names))
            BY <4>1, <5>2
          <5>4. long.up < Len(path) /\ Below(Resolve(path, long)) = t.names
            BY <3>2, <3>3, <4>1, <5>3, ResolveMeans
          <5> QED
            BY <5>4 DEF LeadsTo
        <4> QED
          BY <3>1, <3>4, <3>6, <4>1 DEF LinkFits, OneSubdirLeaves
      <3> QED
        BY <1>4, <3>5, <3>6, ReadlinkIsRequest DEF t, link, path
    <2>2. CASE call.answer.short
      <3>1. ~(Top = 2 /\ layers[2].kind = "subdir")
        BY <2>0, <2>2 DEF HasIconv
      <3> QED
        BY <1>4, <2>2, <3>1, ReadlinkIsRequest
    <2> QED
      BY <2>1, <2>2
  <1> QED
    BY <1>3, <1>4

(* Through any stack with one iconv module or none, whose lowest subdir     *)
(* alone makes links relative, a link leads to what its target names, and a *)
(* directory lists every entry that has a name for users, but for what did  *)
(* not fit the buffer or there was no memory for.                           *)
THEOREM AnswersDoComeBack ==
  ASSUME OneIconv, LowestRelative, RootIsNoLink
  PROVE  Spec => []AnswersComeBack
  <1>1. Init => ReturnInv
    BY ReturnInit
  <1>2. Inv /\ ReturnInv /\ [Next]_vars => ReturnInv'
    BY ReturnNext
  <1>3. Inv /\ ReturnInv => AnswersComeBack
    BY ReturnAnswers
  <1> QED
    BY <1>1, <1>2, <1>3, StackInvariant, PTL DEF Spec
====
