------------------------ MODULE MountService_proofs ------------------------
(* The safety of MountService for any mount points, targets and number of   *)
(* commands and deaths.                                                     *)
EXTENDS MountService, TLAPS, FiniteSetTheorems, SequenceTheorems

-----------------------------------------------------------------------------
(* The inductive invariants.                                               *)

(* Nothing is left of a process that has died.                             *)
DeadInv ==
  ~alive => /\ ~initialized /\ task = None /\ tasks = << >> /\ posts = << >>
            /\ \A p \in Points : table[p] = None

(* Where the background thread is says what it has done so far.            *)
TaskInv ==
  task # None =>
    /\ pc = "mount" => task.info.point \in dirs
    /\ pc \in {"test", "mkdir", "mount"} => task.kind = "mount"
    /\ pc \in {"umount", "rmdir"} => task.kind = "umount"
    /\ pc \in {"init", "copy", "chmod", "version", "test", "umount"} => ~result

TypeInv == TypeOK /\ DeadInv /\ TaskInv

(* How far the installation is, by the position of the thread.             *)
InstallInv ==
  /\ initialized => version
  /\ task # None =>
       /\ pc \in {"copy", "chmod", "version"} => ~version
       /\ pc \in {"test", "mkdir", "mount"} => initialized
       /\ pc = "copy" => binary = "none"
       /\ asset /\ pc = "chmod" => binary \in {"none", "copied"}
       /\ asset /\ pc = "version" => binary \in {"none", "ready"}
  /\ InstallSafe

(* The mounts the process knows of.                                        *)
Known(i) ==
  \/ \E p \in Points : table[p] # None /\ i = table[p]
  \/ \E k \in DOMAIN tasks : i = tasks[k].info
  \/ task # None /\ i = task.info
  \/ \E k \in DOMAIN posts : i = posts[k].task.info

(* Numbers are never reused: a number stands for one mount point.          *)
NumberInv ==
  /\ \A p \in Points : table[p] # None => table[p].point = p
  /\ \A i \in UmountInfos : Known(i) => i.id < nextId
  /\ \A i, j \in UmountInfos :
       Known(i) /\ Known(j) /\ i.id = j.id /\ i.id # 0 => i.point = j.point
  /\ EntryNotified

(* The current task has succeeded; so has one whose result is posts[i].    *)
Done(kind, p) == Doing(kind, p) /\ result /\ pc \in {"rmdir", "post"}

Posted(i, kind, p) == posts[i].ok /\ posts[i].task.kind = kind /\ posts[i].task.info.point = p

(* The last of the results on their way says what is mounted.              *)
LastPostTrue ==
  \A p \in Points, i \in DOMAIN posts :
    /\ Posted(i, "mount", p) /\ ~Done("umount", p)
    /\ \A j \in DOMAIN posts : j > i => ~Posted(j, "umount", p)
    => mounted[p] = posts[i].task.info.target

TruthInv ==
  asset => /\ TableTrue
           /\ LastPostTrue
           /\ \A p \in Points : Done("mount", p) => mounted[p] = task.info.target

(* What is mounted after an unmount is known to be.                        *)
KeepInv ==
  /\ \A p \in Points : Done("umount", p) => mounted[p] = None
  /\ \A p \in Points, i \in DOMAIN posts :
       Posted(i, "umount", p) /\ mounted[p] # None =>
         Done("mount", p) \/ \E j \in DOMAIN posts : j > i /\ Posted(j, "mount", p)
  /\ NoForgottenMount

USE MountServiceAssumption

-----------------------------------------------------------------------------
(* Types.                                                                   *)

LEMMA HeadTail ==
  ASSUME NEW S, NEW q \in Seq(S), q # << >>
  PROVE  /\ Head(q) \in S /\ Head(q) = q[1] /\ 1 \in DOMAIN q
         /\ Tail(q) \in Seq(S)
         /\ \A i \in DOMAIN Tail(q) : i + 1 \in DOMAIN q /\ Tail(q)[i] = q[i + 1]
         /\ \A i \in DOMAIN q : i # 1 => i - 1 \in DOMAIN Tail(q) /\ Tail(q)[i - 1] = q[i]
  OBVIOUS

LEMMA ElementType ==
  ASSUME NEW S, NEW q \in Seq(S)
  PROVE  \A k \in DOMAIN q : q[k] \in S /\ k \in Nat \ {0}
  OBVIOUS

LEMMA ConcatType ==
  ASSUME NEW S, NEW q \in Seq(S), NEW r \in Seq(S)
  PROVE  q \o r \in Seq(S)
  OBVIOUS

LEMMA AppendElements ==
  ASSUME NEW S, NEW q \in Seq(S), NEW e \in S
  PROVE  /\ Append(q, e) \in Seq(S)
         /\ \A i \in DOMAIN Append(q, e) :
              \/ i \in DOMAIN q /\ Append(q, e)[i] = q[i]
              \/ i = Len(q) + 1 /\ Append(q, e)[i] = e
         /\ \A i \in DOMAIN q : i \in DOMAIN Append(q, e) /\ Append(q, e)[i] = q[i] /\ i < Len(q) + 1
         /\ Len(q) + 1 \in DOMAIN Append(q, e) /\ Append(q, e)[Len(q) + 1] = e
  OBVIOUS

LEMMA UmountAllType ==
  ASSUME NEW D \in SUBSET Points, NEW s \in SetToSeqs(D)
  PROVE  /\ UmountAll(s) \in Seq(Commands)
         /\ \A p \in D : \E i \in DOMAIN UmountAll(s) :
              UmountAll(s)[i].kind = "umount" /\ UmountAll(s)[i].point = p
<1>1. IsFiniteSet(D) /\ Cardinality(D) \in Nat
  BY FS_Subset, FS_CardinalityType
<1>2. s \in [1..Cardinality(D) -> D] /\ \A i, j \in 1..Cardinality(D) : i # j => s[i] # s[j]
  BY DEF SetToSeqs
<1>3. DOMAIN UmountAll(s) = 1..Cardinality(D)
      /\ \A i \in 1..Cardinality(D) :
           UmountAll(s)[i] = [kind |-> "umount", point |-> s[i], target |-> None]
  BY <1>2 DEF UmountAll
<1>4. UmountAll(s) \in [1..Cardinality(D) -> Commands]
  BY <1>2, <1>3 DEF UmountAll, Commands
<1>5. UmountAll(s) \in Seq(Commands)
  BY <1>1, <1>4
<1>6. ASSUME NEW p \in D
      PROVE  \E i \in 1..Cardinality(D) : s[i] = p
  <2>1. s \in Injection(1..Cardinality(D), D)
    BY <1>2 DEF Injection, IsInjective
  <2>2. IsFiniteSet(1..Cardinality(D)) /\ Cardinality(1..Cardinality(D)) = Cardinality(D)
    BY <1>1, FS_Interval
  <2>3. s \in Surjection(1..Cardinality(D), D)
    BY <1>1, <2>1, <2>2, FS_Injection
  <2>4. QED
    BY <2>3 DEF Surjection
<1>7. QED
  BY <1>3, <1>5, <1>6

LEMMA InitType == Init => TypeInv
<1> SUFFICES ASSUME Init
             PROVE  TypeInv
  OBVIOUS
<1>1. inbox \in Seq(Commands) /\ delivered \in Seq(Commands) /\ tasks \in Seq(Tasks)
      /\ posts \in Seq([task : Tasks, ok : BOOLEAN])
  BY DEF Init
<1>2. /\ table \in [Points -> MountInfos \cup {None}]
      /\ mounted \in [Points -> Targets \cup {None}] /\ dirs \subseteq Points
      /\ \A p \in Points : table[p] = None /\ mounted[p] = None
  BY DEF Init
<1>a. FlagsOK
  BY Zenon DEF Init, FlagsOK
<1>b. shown \subseteq Nat \X Points /\ dialogs \subseteq Points /\ failed \subseteq Points
  BY DEF Init
<1>c. events \in 0..MaxEvents /\ task \in Tasks \cup {None} /\ pc \in PCs
  BY DEF Init, PCs
<1>d. binary \in {"none", "partial", "copied", "ready"} /\ nextId \in Nat \ {0}
  BY DEF Init
<1>3. TypeOK
  BY <1>1, <1>2, <1>a, <1>b, <1>c, <1>d DEF TypeOK, QueuesOK, StateOK
<1>4. DeadInv /\ TaskInv
  BY <1>2 DEF Init, DeadInv, TaskInv
<1>5. QED
  BY <1>3, <1>4 DEF TypeInv

USE DEF systemVars, mainVars, fileVars, mountVars, taskVars, TypeInv, TypeOK, DeadInv, TaskInv

LEMMA ClickMountType == TypeInv /\ ClickMount => TypeInv'
<1> SUFFICES ASSUME TypeInv, ClickMount
             PROVE  TypeInv'
  OBVIOUS
<1>1. QueuesOK'
  BY HeadTail, AppendElements DEF QueuesOK, FlagsOK, StateOK, ClickMount, Sends, Tasks, Commands
<1>2. FlagsOK'
  BY Zenon DEF FlagsOK, ClickMount, Sends
<1>3. StateOK'
  BY HeadTail DEF QueuesOK, StateOK, ClickMount, Sends, PCs, Tasks, UmountInfos, MountInfos
<1>4. \A p \in Points : mounted'[p] # None => p \in dirs'
  BY DEF StateOK, ClickMount, Sends, Tasks, UmountInfos, MountInfos
<1>5. DeadInv'
  BY DEF QueuesOK, StateOK, ClickMount, Sends
<1>6. TaskInv'
  BY DEF QueuesOK, StateOK, ClickMount, Sends, Tasks
<1>7. QED
  BY <1>1, <1>2, <1>3, <1>4, <1>5, <1>6

LEMMA ClickUmountType == TypeInv /\ ClickUmount => TypeInv'
<1> SUFFICES ASSUME TypeInv, ClickUmount
             PROVE  TypeInv'
  OBVIOUS
<1>1. QueuesOK'
  BY HeadTail, AppendElements DEF QueuesOK, FlagsOK, StateOK, ClickUmount, Sends, Tasks, Commands
<1>2. FlagsOK'
  BY Zenon DEF FlagsOK, ClickUmount, Sends
<1>3. StateOK'
  BY HeadTail DEF QueuesOK, StateOK, ClickUmount, Sends, PCs, Tasks, UmountInfos, MountInfos
<1>4. \A p \in Points : mounted'[p] # None => p \in dirs'
  BY DEF StateOK, ClickUmount, Sends, Tasks, UmountInfos, MountInfos
<1>5. DeadInv'
  BY DEF QueuesOK, StateOK, ClickUmount, Sends
<1>6. TaskInv'
  BY DEF QueuesOK, StateOK, ClickUmount, Sends, Tasks
<1>7. QED
  BY <1>1, <1>2, <1>3, <1>4, <1>5, <1>6

LEMMA MountCommandType == TypeInv /\ MountCommand => TypeInv'
<1> SUFFICES ASSUME TypeInv, MountCommand
             PROVE  TypeInv'
  OBVIOUS
<1>a. /\ Head(inbox) \in Commands /\ Head(inbox).kind = "mount" /\ Tail(inbox) \in Seq(Commands)
      /\ inbox' = Tail(inbox) /\ delivered' = Append(delivered, Head(inbox)) /\ posts' = posts
  BY HeadTail DEF QueuesOK, MountCommand, Delivers
<1>b. Head(inbox).point \in Points /\ Head(inbox).target \in Targets
  BY <1>a DEF Commands
<1>c. [kind |-> "mount", info |-> [id |-> nextId, point |-> Head(inbox).point,
                                   target |-> Head(inbox).target]] \in Tasks
  BY <1>b DEF StateOK, Tasks, MountInfos
<1>d. tasks' \in Seq(Tasks)
  BY <1>c, AppendElements DEF QueuesOK, MountCommand, Executes
<1>e. delivered' \in Seq(Commands)
  BY <1>a, AppendElements DEF QueuesOK
<1>1. QueuesOK'
  BY <1>a, <1>d, <1>e DEF QueuesOK
<1>2. FlagsOK'
  BY Zenon DEF FlagsOK, MountCommand, Delivers, Executes
<1>3. StateOK'
  BY HeadTail DEF QueuesOK, StateOK, MountCommand, Delivers, Executes, PCs, Tasks, UmountInfos, MountInfos
<1>4. \A p \in Points : mounted'[p] # None => p \in dirs'
  BY DEF StateOK, MountCommand, Delivers, Executes, Tasks, UmountInfos, MountInfos
<1>5. DeadInv'
  BY DEF QueuesOK, StateOK, MountCommand, Delivers, Executes
<1>6. TaskInv'
  BY DEF QueuesOK, StateOK, MountCommand, Delivers, Executes, Tasks
<1>7. QED
  BY <1>1, <1>2, <1>3, <1>4, <1>5, <1>6

LEMMA AlreadyMountedType == TypeInv /\ AlreadyMounted => TypeInv'
<1> SUFFICES ASSUME TypeInv, AlreadyMounted
             PROVE  TypeInv'
  OBVIOUS
<1>1. QueuesOK'
  BY HeadTail, AppendElements DEF QueuesOK, FlagsOK, StateOK, AlreadyMounted, Delivers, Tasks, Commands
<1>2. FlagsOK'
  BY Zenon DEF FlagsOK, AlreadyMounted, Delivers
<1>3. StateOK'
  BY HeadTail DEF QueuesOK, StateOK, AlreadyMounted, Delivers, PCs, Tasks, UmountInfos, MountInfos
<1>4. \A p \in Points : mounted'[p] # None => p \in dirs'
  BY DEF StateOK, AlreadyMounted, Delivers, Tasks, UmountInfos, MountInfos
<1>5. DeadInv'
  BY DEF QueuesOK, StateOK, AlreadyMounted, Delivers
<1>6. TaskInv'
  BY DEF QueuesOK, StateOK, AlreadyMounted, Delivers, Tasks
<1>7. QED
  BY <1>1, <1>2, <1>3, <1>4, <1>5, <1>6

LEMMA UmountCommandType == TypeInv /\ UmountCommand => TypeInv'
<1> SUFFICES ASSUME TypeInv, UmountCommand
             PROVE  TypeInv'
  OBVIOUS
<1> DEFINE c == Head(inbox).point
           i == IF table[c] # None THEN table[c] ELSE [id |-> 0, point |-> c, target |-> None]
<1>a. /\ Head(inbox) \in Commands /\ Tail(inbox) \in Seq(Commands)
      /\ inbox' = Tail(inbox) /\ delivered' = Append(delivered, Head(inbox)) /\ posts' = posts
  BY HeadTail DEF QueuesOK, UmountCommand, Delivers
<1>b. c \in Points
  BY <1>a DEF Commands
<1>c. i \in UmountInfos
  BY <1>b DEF StateOK, UmountInfos
<1>d. [kind |-> "umount", info |-> i] \in Tasks
  BY <1>c DEF Tasks
<1>e. tasks' \in Seq(Tasks)
  BY <1>d, AppendElements DEF QueuesOK, UmountCommand, Executes
<1>f. delivered' \in Seq(Commands)
  BY <1>a, AppendElements DEF QueuesOK
<1>1. QueuesOK'
  BY <1>a, <1>e, <1>f DEF QueuesOK
<1>2. FlagsOK'
  BY Zenon DEF FlagsOK, UmountCommand, Delivers, Executes
<1>3. StateOK'
  BY HeadTail DEF QueuesOK, StateOK, UmountCommand, Delivers, Executes, PCs, Tasks, UmountInfos, MountInfos
<1>4. \A p \in Points : mounted'[p] # None => p \in dirs'
  BY DEF StateOK, UmountCommand, Delivers, Executes, Tasks, UmountInfos, MountInfos
<1>5. DeadInv'
  BY DEF QueuesOK, StateOK, UmountCommand, Delivers, Executes
<1>6. TaskInv'
  BY DEF QueuesOK, StateOK, UmountCommand, Delivers, Executes, Tasks
<1>7. QED
  BY <1>1, <1>2, <1>3, <1>4, <1>5, <1>6

LEMMA NextTaskType == TypeInv /\ NextTask => TypeInv'
<1> SUFFICES ASSUME TypeInv, NextTask
             PROVE  TypeInv'
  OBVIOUS
<1>1. QueuesOK'
  BY HeadTail, AppendElements DEF QueuesOK, FlagsOK, StateOK, NextTask, Tasks, Commands
<1>2. FlagsOK'
  BY Zenon DEF FlagsOK, NextTask
<1>3. StateOK'
  BY HeadTail DEF QueuesOK, StateOK, NextTask, PCs, Tasks, UmountInfos, MountInfos
<1>4. \A p \in Points : mounted'[p] # None => p \in dirs'
  BY DEF StateOK, NextTask, Tasks, UmountInfos, MountInfos
<1>5. DeadInv'
  BY DEF QueuesOK, StateOK, NextTask
<1>6. TaskInv'
  BY DEF QueuesOK, StateOK, NextTask, Tasks
<1>7. QED
  BY <1>1, <1>2, <1>3, <1>4, <1>5, <1>6

LEMMA CheckBinaryType == TypeInv /\ CheckBinary => TypeInv'
<1> SUFFICES ASSUME TypeInv, CheckBinary
             PROVE  TypeInv'
  OBVIOUS
<1>0. /\ UNCHANGED <<systemVars, mainVars, mountVars, tasks, task, posts>>
      /\ pc' \in PCs /\ binary' \in {"none", "partial", "copied", "ready"}
  BY DEF StateOK, CheckBinary, At, Goes, FirstStep, PCs
<1>1. QueuesOK'
  BY <1>0 DEF QueuesOK
<1>2. FlagsOK'
  BY Zenon DEF FlagsOK, CheckBinary, At, Goes, FirstStep
<1>3. StateOK'
  BY <1>0 DEF StateOK
<1>4. \A p \in Points : mounted'[p] # None => p \in dirs'
  BY DEF StateOK, CheckBinary, At, Goes, FirstStep, Tasks, UmountInfos, MountInfos
<1>5. DeadInv'
  BY DEF QueuesOK, StateOK, CheckBinary, At, Goes, FirstStep
<1>6. TaskInv'
  BY DEF QueuesOK, StateOK, CheckBinary, At, Goes, FirstStep, Tasks
<1>7. QED
  BY <1>1, <1>2, <1>3, <1>4, <1>5, <1>6

LEMMA CopyBinaryType == TypeInv /\ CopyBinary => TypeInv'
<1> SUFFICES ASSUME TypeInv, CopyBinary
             PROVE  TypeInv'
  OBVIOUS
<1>0. /\ UNCHANGED <<systemVars, mainVars, mountVars, tasks, task, posts>>
      /\ pc' \in PCs /\ binary' \in {"none", "partial", "copied", "ready"}
  BY DEF StateOK, CopyBinary, NotFound, At, Goes, PCs
<1>1. QueuesOK'
  BY <1>0 DEF QueuesOK
<1>2. FlagsOK'
  BY Zenon DEF FlagsOK, CopyBinary, NotFound, At, Goes
<1>3. StateOK'
  BY <1>0 DEF StateOK
<1>4. \A p \in Points : mounted'[p] # None => p \in dirs'
  BY DEF StateOK, CopyBinary, NotFound, At, Goes, Tasks, UmountInfos, MountInfos
<1>5. DeadInv'
  BY DEF QueuesOK, StateOK, CopyBinary, NotFound, At, Goes
<1>6. TaskInv'
  BY DEF QueuesOK, StateOK, CopyBinary, NotFound, At, Goes, Tasks
<1>7. QED
  BY <1>1, <1>2, <1>3, <1>4, <1>5, <1>6

LEMMA ChangeModeType == TypeInv /\ ChangeMode => TypeInv'
<1> SUFFICES ASSUME TypeInv, ChangeMode
             PROVE  TypeInv'
  OBVIOUS
<1>0. /\ UNCHANGED <<systemVars, mainVars, mountVars, tasks, task, posts>>
      /\ pc' \in PCs /\ binary' \in {"none", "partial", "copied", "ready"}
  BY DEF StateOK, ChangeMode, At, Goes, PCs
<1>1. QueuesOK'
  BY <1>0 DEF QueuesOK
<1>2. FlagsOK'
  BY Zenon DEF FlagsOK, ChangeMode, At, Goes
<1>3. StateOK'
  BY <1>0 DEF StateOK
<1>4. \A p \in Points : mounted'[p] # None => p \in dirs'
  BY DEF StateOK, ChangeMode, At, Goes, Tasks, UmountInfos, MountInfos
<1>5. DeadInv'
  BY DEF QueuesOK, StateOK, ChangeMode, At, Goes
<1>6. TaskInv'
  BY DEF QueuesOK, StateOK, ChangeMode, At, Goes, Tasks
<1>7. QED
  BY <1>1, <1>2, <1>3, <1>4, <1>5, <1>6

LEMMA WriteVersionType == TypeInv /\ WriteVersion => TypeInv'
<1> SUFFICES ASSUME TypeInv, WriteVersion
             PROVE  TypeInv'
  OBVIOUS
<1>0. /\ UNCHANGED <<systemVars, mainVars, mountVars, tasks, task, posts>>
      /\ pc' \in PCs /\ binary' \in {"none", "partial", "copied", "ready"}
  BY DEF StateOK, WriteVersion, At, Goes, FirstStep, PCs
<1>1. QueuesOK'
  BY <1>0 DEF QueuesOK
<1>2. FlagsOK'
  BY Zenon DEF FlagsOK, WriteVersion, At, Goes, FirstStep
<1>3. StateOK'
  BY <1>0 DEF StateOK
<1>4. \A p \in Points : mounted'[p] # None => p \in dirs'
  BY DEF StateOK, WriteVersion, At, Goes, FirstStep, Tasks, UmountInfos, MountInfos
<1>5. DeadInv'
  BY DEF QueuesOK, StateOK, WriteVersion, At, Goes, FirstStep
<1>6. TaskInv'
  BY DEF QueuesOK, StateOK, WriteVersion, At, Goes, FirstStep, Tasks
<1>7. QED
  BY <1>1, <1>2, <1>3, <1>4, <1>5, <1>6

LEMMA TestTargetType == TypeInv /\ TestTarget => TypeInv'
<1> SUFFICES ASSUME TypeInv, TestTarget
             PROVE  TypeInv'
  OBVIOUS
<1>1. QueuesOK'
  BY HeadTail, AppendElements DEF QueuesOK, FlagsOK, StateOK, TestTarget, At, Tasks, Commands
<1>2. FlagsOK'
  BY Zenon DEF FlagsOK, TestTarget, At
<1>3. StateOK'
  BY HeadTail DEF QueuesOK, StateOK, TestTarget, At, PCs, Tasks, UmountInfos, MountInfos
<1>4. \A p \in Points : mounted'[p] # None => p \in dirs'
  BY DEF StateOK, TestTarget, At, Tasks, UmountInfos, MountInfos
<1>5. DeadInv'
  BY DEF QueuesOK, StateOK, TestTarget, At
<1>6. TaskInv'
  BY DEF QueuesOK, StateOK, TestTarget, At, Tasks
<1>7. QED
  BY <1>1, <1>2, <1>3, <1>4, <1>5, <1>6

LEMMA MakeDirType == TypeInv /\ MakeDir => TypeInv'
<1> SUFFICES ASSUME TypeInv, MakeDir
             PROVE  TypeInv'
  OBVIOUS
<1>1. QueuesOK'
  BY HeadTail, AppendElements DEF QueuesOK, FlagsOK, StateOK, MakeDir, At, Tasks, Commands
<1>2. FlagsOK'
  BY Zenon DEF FlagsOK, MakeDir, At
<1>3. StateOK'
  BY HeadTail DEF QueuesOK, StateOK, MakeDir, At, PCs, Tasks, UmountInfos, MountInfos
<1>4. \A p \in Points : mounted'[p] # None => p \in dirs'
  BY DEF StateOK, MakeDir, At, Tasks, UmountInfos, MountInfos
<1>5. DeadInv'
  BY DEF QueuesOK, StateOK, MakeDir, At
<1>6. TaskInv'
  BY DEF QueuesOK, StateOK, MakeDir, At, Tasks
<1>7. QED
  BY <1>1, <1>2, <1>3, <1>4, <1>5, <1>6

LEMMA MountType == TypeInv /\ Mount => TypeInv'
<1> SUFFICES ASSUME TypeInv, Mount
             PROVE  TypeInv'
  OBVIOUS
<1>1. QueuesOK'
  BY HeadTail, AppendElements DEF QueuesOK, FlagsOK, StateOK, Mount, At, Answers, Tasks, Commands
<1>2. FlagsOK'
  BY Zenon DEF FlagsOK, Mount, At, Answers
<1>a. task \in Tasks /\ task.kind = "mount"
  BY DEF StateOK, Mount, At
<1>b. task.info \in MountInfos
  BY <1>a DEF Tasks
<1>c. mounted' \in [Points -> Targets \cup {None}] /\ pc' \in PCs
  BY <1>b DEF StateOK, Mount, MountInfos, PCs
<1>3. StateOK'
  BY <1>c DEF StateOK, Mount
<1>4. \A p \in Points : mounted'[p] # None => p \in dirs'
  BY DEF StateOK, Mount, At, Answers, Tasks, UmountInfos, MountInfos
<1>5. DeadInv'
  BY DEF QueuesOK, StateOK, Mount, At, Answers
<1>6. TaskInv'
  BY DEF QueuesOK, StateOK, Mount, At, Answers, Tasks
<1>7. QED
  BY <1>1, <1>2, <1>3, <1>4, <1>5, <1>6

LEMMA UmountType == TypeInv /\ Umount => TypeInv'
<1> SUFFICES ASSUME TypeInv, Umount
             PROVE  TypeInv'
  OBVIOUS
<1>1. QueuesOK'
  BY HeadTail, AppendElements DEF QueuesOK, FlagsOK, StateOK, Umount, At, Answers, Tasks, Commands
<1>2. FlagsOK'
  BY Zenon DEF FlagsOK, Umount, At, Answers
<1>c. mounted' \in [Points -> Targets \cup {None}] /\ pc' \in PCs
  BY DEF StateOK, Umount, PCs
<1>3. StateOK'
  BY <1>c DEF StateOK, Umount
<1>4. \A p \in Points : mounted'[p] # None => p \in dirs'
  BY DEF StateOK, Umount, At, Answers, Tasks, UmountInfos, MountInfos
<1>5. DeadInv'
  BY DEF QueuesOK, StateOK, Umount, At, Answers
<1>6. TaskInv'
  BY DEF QueuesOK, StateOK, Umount, At, Answers, Tasks
<1>7. QED
  BY <1>1, <1>2, <1>3, <1>4, <1>5, <1>6

LEMMA RemoveDirType == TypeInv /\ RemoveDir => TypeInv'
<1> SUFFICES ASSUME TypeInv, RemoveDir
             PROVE  TypeInv'
  OBVIOUS
<1>1. QueuesOK'
  BY HeadTail, AppendElements DEF QueuesOK, FlagsOK, StateOK, RemoveDir, At, Tasks, Commands
<1>2. FlagsOK'
  BY Zenon DEF FlagsOK, RemoveDir, At
<1>3. StateOK'
  BY HeadTail DEF QueuesOK, StateOK, RemoveDir, At, PCs, Tasks, UmountInfos, MountInfos
<1>4. \A p \in Points : mounted'[p] # None => p \in dirs'
  BY DEF StateOK, RemoveDir, At, Tasks, UmountInfos, MountInfos
<1>5. DeadInv'
  BY DEF QueuesOK, StateOK, RemoveDir, At
<1>6. TaskInv'
  BY DEF QueuesOK, StateOK, RemoveDir, At, Tasks
<1>7. QED
  BY <1>1, <1>2, <1>3, <1>4, <1>5, <1>6

LEMMA PostType == TypeInv /\ Post => TypeInv'
<1> SUFFICES ASSUME TypeInv, Post
             PROVE  TypeInv'
  OBVIOUS
<1>1. QueuesOK'
  BY HeadTail, AppendElements DEF QueuesOK, FlagsOK, StateOK, Post, At, Tasks, Commands
<1>2. FlagsOK'
  BY Zenon DEF FlagsOK, Post, At
<1>3. StateOK'
  BY HeadTail DEF QueuesOK, StateOK, Post, At, PCs, Tasks, UmountInfos, MountInfos
<1>4. \A p \in Points : mounted'[p] # None => p \in dirs'
  BY DEF StateOK, Post, At, Tasks, UmountInfos, MountInfos
<1>5. DeadInv'
  BY DEF QueuesOK, StateOK, Post, At
<1>6. TaskInv'
  BY DEF QueuesOK, StateOK, Post, At, Tasks
<1>7. QED
  BY <1>1, <1>2, <1>3, <1>4, <1>5, <1>6

LEMMA MountedType == TypeInv /\ Mounted => TypeInv'
<1> SUFFICES ASSUME TypeInv, Mounted
             PROVE  TypeInv'
  OBVIOUS
<1>1. QueuesOK'
  BY HeadTail, AppendElements DEF QueuesOK, FlagsOK, StateOK, Mounted, TakesPost, ShowMounted, Notify, Tasks, Commands
<1>2. FlagsOK'
  BY Zenon DEF FlagsOK, Mounted, TakesPost, ShowMounted, Notify
<1>0. Head(posts) \in [task : Tasks, ok : BOOLEAN]
  BY HeadTail DEF QueuesOK, Mounted, TakesPost
<1>a. Head(posts).task \in Tasks /\ Head(posts).task.kind = "mount"
  BY <1>0 DEF Mounted
<1>b. Head(posts).task.info \in MountInfos
  BY <1>a DEF Tasks
<1> DEFINE i == Head(posts).task.info
<1>c. i.id \in Nat /\ i.point \in Points
  BY <1>b DEF MountInfos
<1>d. table' \in [Points -> MountInfos \cup {None}]
  BY <1>b DEF StateOK, Mounted, ShowMounted
<1>e. shown' \subseteq Nat \X Points /\ dialogs' \subseteq Points
  BY <1>c DEF StateOK, Mounted, ShowMounted, Notify
<1>3. StateOK'
  BY <1>d, <1>e DEF StateOK, Mounted, TakesPost
<1>4. \A p \in Points : mounted'[p] # None => p \in dirs'
  BY DEF StateOK, Mounted, TakesPost, ShowMounted, Notify, Tasks, UmountInfos, MountInfos
<1>5. DeadInv'
  BY DEF QueuesOK, StateOK, Mounted, TakesPost, ShowMounted, Notify
<1>6. TaskInv'
  BY DEF QueuesOK, StateOK, Mounted, TakesPost, ShowMounted, Notify, Tasks
<1>7. QED
  BY <1>1, <1>2, <1>3, <1>4, <1>5, <1>6

LEMMA UnmountedType == TypeInv /\ Unmounted => TypeInv'
<1> SUFFICES ASSUME TypeInv, Unmounted
             PROVE  TypeInv'
  OBVIOUS
<1>1. QueuesOK'
  BY HeadTail, AppendElements DEF QueuesOK, FlagsOK, StateOK, Unmounted, TakesPost, ShowUnmounted, Tasks, Commands
<1>2. FlagsOK'
  BY Zenon DEF FlagsOK, Unmounted, TakesPost, ShowUnmounted
<1>3. StateOK'
  BY HeadTail DEF QueuesOK, StateOK, Unmounted, TakesPost, ShowUnmounted, PCs, Tasks, UmountInfos, MountInfos
<1>4. \A p \in Points : mounted'[p] # None => p \in dirs'
  BY DEF StateOK, Unmounted, TakesPost, ShowUnmounted, Tasks, UmountInfos, MountInfos
<1>5. DeadInv'
  BY DEF QueuesOK, StateOK, Unmounted, TakesPost, ShowUnmounted
<1>6. TaskInv'
  BY DEF QueuesOK, StateOK, Unmounted, TakesPost, ShowUnmounted, Tasks
<1>7. QED
  BY <1>1, <1>2, <1>3, <1>4, <1>5, <1>6

LEMMA TaskFailedType == TypeInv /\ TaskFailed => TypeInv'
<1> SUFFICES ASSUME TypeInv, TaskFailed
             PROVE  TypeInv'
  OBVIOUS
<1>1. QueuesOK'
  BY HeadTail, AppendElements DEF QueuesOK, FlagsOK, StateOK, TaskFailed, TakesPost, Tasks, Commands
<1>2. FlagsOK'
  BY Zenon DEF FlagsOK, TaskFailed, TakesPost
<1>3. StateOK'
  BY HeadTail DEF QueuesOK, StateOK, TaskFailed, TakesPost, PCs, Tasks, UmountInfos, MountInfos
<1>4. \A p \in Points : mounted'[p] # None => p \in dirs'
  BY DEF StateOK, TaskFailed, TakesPost, Tasks, UmountInfos, MountInfos
<1>5. DeadInv'
  BY DEF QueuesOK, StateOK, TaskFailed, TakesPost
<1>6. TaskInv'
  BY DEF QueuesOK, StateOK, TaskFailed, TakesPost, Tasks
<1>7. QED
  BY <1>1, <1>2, <1>3, <1>4, <1>5, <1>6

LEMMA DieType == TypeInv /\ Die => TypeInv'
<1> SUFFICES ASSUME TypeInv, Die
             PROVE  TypeInv'
  OBVIOUS
<1>1. QueuesOK'
  BY HeadTail, AppendElements DEF QueuesOK, FlagsOK, StateOK, Die, Tasks, Commands
<1>2. FlagsOK'
  BY Zenon DEF FlagsOK, Die
<1>3. StateOK'
  BY HeadTail DEF QueuesOK, StateOK, Die, PCs, Tasks, UmountInfos, MountInfos
<1>4. \A p \in Points : mounted'[p] # None => p \in dirs'
  BY DEF StateOK, Die, Tasks, UmountInfos, MountInfos
<1>5. DeadInv'
  BY DEF QueuesOK, StateOK, Die
<1>6. TaskInv'
  BY DEF QueuesOK, StateOK, Die, Tasks
<1>7. QED
  BY <1>1, <1>2, <1>3, <1>4, <1>5, <1>6

LEMMA StartType == TypeInv /\ Start => TypeInv'
<1> SUFFICES ASSUME TypeInv, Start
             PROVE  TypeInv'
  OBVIOUS
<1>a. PICK old \in {delivered, << >>}, s \in SetToSeqs(dirs) :
        inbox' = old \o inbox \o UmountAll(s)
  BY DEF Start
<1>b. old \in Seq(Commands) /\ UmountAll(s) \in Seq(Commands)
  <2>a. << >> \in Seq(Commands) /\ delivered \in Seq(Commands)
    BY DEF QueuesOK
  <2>1. old \in Seq(Commands)
    BY <2>a
  <2>2. UmountAll(s) \in Seq(Commands)
    BY UmountAllType DEF StateOK
  <2>3. QED
    BY <2>1, <2>2
<1>c. inbox' \in Seq(Commands)
  BY <1>a, <1>b DEF QueuesOK
<1>1. QueuesOK'
  BY <1>c DEF QueuesOK, Start
<1>2. FlagsOK'
  BY Zenon DEF FlagsOK, Start
<1>3. StateOK'
  BY HeadTail DEF QueuesOK, StateOK, Start, PCs, Tasks, UmountInfos, MountInfos
<1>4. \A p \in Points : mounted'[p] # None => p \in dirs'
  BY DEF StateOK, Start, Tasks, UmountInfos, MountInfos
<1>5. DeadInv'
  BY DEF QueuesOK, StateOK, Start
<1>6. TaskInv'
  BY DEF QueuesOK, StateOK, Start, Tasks
<1>7. QED
  BY <1>1, <1>2, <1>3, <1>4, <1>5, <1>6

LEMMA StutterType == TypeInv /\ UNCHANGED vars => TypeInv'
<1> SUFFICES ASSUME TypeInv, UNCHANGED vars
             PROVE  TypeInv'
  OBVIOUS
<1>1. QueuesOK' /\ StateOK'
  BY DEF vars, QueuesOK, StateOK
<1>2. FlagsOK'
  BY Zenon DEF vars, FlagsOK
<1>3. QED
  BY <1>1, <1>2 DEF vars

(* Every variable keeps its type, and nothing is mounted on what is not a   *)
(* directory: the type invariant with what is known of a dead process and   *)
(* of the task that is being done.                                          *)
THEOREM TypeInvariant == Spec => []TypeInv
<1>1. TypeInv /\ [Next]_vars => TypeInv'
  <2> SUFFICES ASSUME TypeInv, [Next]_vars
               PROVE  TypeInv'
    OBVIOUS
  <2>1. CASE UserStep
    BY <2>1, ClickMountType, ClickUmountType DEF UserStep
  <2>2. CASE MainStep
    BY <2>2, MountCommandType, AlreadyMountedType, UmountCommandType, MountedType,
       UnmountedType, TaskFailedType DEF MainStep
  <2>3. CASE BackgroundStep
    BY <2>3, NextTaskType, CheckBinaryType, CopyBinaryType, ChangeModeType, WriteVersionType,
       TestTargetType, MakeDirType, MountType, UmountType, RemoveDirType, PostType
    DEF BackgroundStep
  <2>4. CASE Die \/ Start
    BY <2>4, DieType, StartType
  <2>5. CASE UNCHANGED vars
    BY <2>5, StutterType
  <2>6. QED
    BY <2>1, <2>2, <2>3, <2>4, <2>5 DEF Next
<1>2. QED
  BY <1>1, InitType, PTL DEF Spec

(* Every variable has its type in every state, and what is mounted is       *)
(* mounted on a directory the service has made.                             *)
THEOREM TypeCorrect == Spec => []TypeOK
  BY TypeInvariant, PTL DEF TypeInv

-----------------------------------------------------------------------------
(* The installation of the mount command.                                   *)

LEMMA InstallStep ==
  ASSUME {"chmod", "asset"} \cap Failing = {}, TypeInv, InstallInv, [Next]_vars
  PROVE  InstallInv'
<1> USE DEF InstallInv, InstallSafe
<1>1. CASE ClickMount
  BY <1>1 DEF ClickMount, Sends
<1>2. CASE ClickUmount
  BY <1>2 DEF ClickUmount, Sends
<1>3. CASE MountCommand
  BY <1>3 DEF MountCommand, Delivers, Executes
<1>4. CASE AlreadyMounted
  BY <1>4 DEF AlreadyMounted, Delivers
<1>5. CASE UmountCommand
  BY <1>5 DEF UmountCommand, Delivers, Executes
<1>6. CASE NextTask
  BY <1>6 DEF NextTask
<1>7. CASE CheckBinary
  <2>0. task' = task /\ asset' = asset /\ task # None /\ FirstStep \in {"test", "umount"}
    BY <1>7 DEF CheckBinary, At, Goes, FirstStep
  <2>1. CASE initialized \/ ~Outdated
    <3>1. initialized' /\ pc' = FirstStep /\ version /\ version' = version /\ binary' = binary
      BY <1>7, <2>1 DEF CheckBinary, Goes, Outdated
    <3>2. QED
      BY <2>0, <3>1
  <2>2. CASE ~initialized /\ Outdated
    <3>1. initialized' = initialized /\ pc' = "copy" /\ version' = FALSE /\ binary' = "none"
      BY <1>7, <2>2 DEF CheckBinary, Goes, Outdated
    <3>2. QED
      BY <2>0, <2>2, <3>1
  <2>3. QED
    BY <2>1, <2>2
<1>8. CASE CopyBinary
  <2>0. /\ UNCHANGED <<initialized, version, asset, task>> /\ task # None /\ pc = "copy"
        /\ pc' \in {"chmod", "post"} /\ ~version /\ ~initialized
    BY <1>8 DEF CopyBinary, NotFound, At, Goes
  <2>1. CASE ~asset
    BY <2>0, <2>1
  <2>2. CASE asset /\ NotFound
    <3>1. "asset" \notin Failing
      OBVIOUS
    <3>2. binary' = binary /\ pc' = "chmod"
      BY <2>2, <3>1, Zenon DEF NotFound, Goes
    <3>3. QED
      BY <2>0, <2>2, <3>2
  <2>3. QED
    BY <1>8, <2>0, <2>1, <2>2 DEF CopyBinary, Goes
<1>9. CASE ChangeMode
  BY <1>9 DEF ChangeMode, At, Goes
<1>10. CASE WriteVersion
  <2>0. /\ task' = task /\ asset' = asset /\ binary' = binary /\ task # None
        /\ FirstStep \in {"test", "umount"} /\ pc = "version"
    BY <1>10 DEF WriteVersion, At, Goes, FirstStep
  <2>1. CASE version' = TRUE /\ initialized' = TRUE /\ pc' = FirstStep
    BY <2>0, <2>1
  <2>2. CASE pc' = "post" /\ version' = version /\ initialized' = initialized
    BY <2>0, <2>2
  <2>3. QED
    BY <1>10, <2>1, <2>2 DEF WriteVersion, Goes
<1>11. CASE TestTarget
  BY <1>11 DEF TestTarget, At
<1>12. CASE MakeDir
  BY <1>12 DEF MakeDir, At
<1>13. CASE Mount
  BY <1>13 DEF Mount, At, Answers
<1>14. CASE Umount
  BY <1>14 DEF Umount, At, Answers
<1>15. CASE RemoveDir
  BY <1>15 DEF RemoveDir, At
<1>16. CASE Post
  BY <1>16 DEF Post, At
<1>17. CASE Mounted
  BY <1>17 DEF Mounted, TakesPost, ShowMounted, Notify
<1>18. CASE Unmounted
  BY <1>18 DEF Unmounted, TakesPost, ShowUnmounted
<1>19. CASE TaskFailed
  BY <1>19 DEF TaskFailed, TakesPost
<1>20. CASE Die
  BY <1>20 DEF Die
<1>21. CASE Start
  <2>a. /\ ~alive /\ initialized' = initialized /\ task' = task /\ asset' = asset
        /\ binary' = binary /\ (version' = version \/ version' = FALSE)
    BY <1>21, Zenon DEF Start
  <2>1. /\ ~initialized' /\ task' = None /\ asset' = asset /\ binary' = binary
        /\ version' => version
    BY <2>a
  <2>2. QED
    BY <2>1
<1>22. CASE UNCHANGED vars
  BY <1>22 DEF vars
<1>e. QED
  BY <1>1, <1>2, <1>3, <1>4, <1>5, <1>6, <1>7, <1>8, <1>9, <1>10, <1>11, <1>12, <1>13, <1>14, <1>15, <1>16, <1>17, <1>18, <1>19, <1>20, <1>21, <1>22
  DEF Next, UserStep, MainStep, BackgroundStep

(* When the mode of the installed command can be changed and an asset that  *)
(* is there can be opened, a version file that is up to date never stands   *)
(* beside a command that is incomplete or not executable, wherever in the   *)
(* installation an earlier process died or failed.                          *)
THEOREM InstallIsSafe == {"chmod", "asset"} \cap Failing = {} => (Spec => []InstallSafe)
<1> SUFFICES ASSUME {"chmod", "asset"} \cap Failing = {}
             PROVE  Spec => []InstallSafe
  OBVIOUS
<1>1. Init => InstallInv
  BY DEF Init, InstallInv, InstallSafe
<1>2. TypeInv /\ InstallInv /\ [Next]_vars => InstallInv'
  BY InstallStep
<1>3. InstallInv => InstallSafe
  BY DEF InstallInv
<1>4. QED
  BY <1>1, <1>2, <1>3, TypeInvariant, PTL DEF Spec

-----------------------------------------------------------------------------
(* The numbers of the mounts.                                               *)

(* A step that changes neither the table nor the notifications, and lets    *)
(* the process know of nothing that has a new number.                       *)
LEMMA KnownKept ==
  ASSUME NumberInv, nextId' = nextId, table' = table, shown' = shown, nextId \in Nat \ {0},
         \A i \in UmountInfos : Known(i)' => Known(i) \/ i.id = 0
  PROVE  NumberInv'
<1>1. \A i \in UmountInfos : Known(i)' => i.id < nextId'
  BY DEF NumberInv
<1>2. \A i, j \in UmountInfos :
        Known(i)' /\ Known(j)' /\ i.id = j.id /\ i.id # 0 => i.point = j.point
  BY DEF NumberInv
<1>3. EntryNotified' /\ \A p \in Points : table'[p] # None => table'[p].point = p
  BY DEF NumberInv, EntryNotified
<1>4. QED
  BY <1>1, <1>2, <1>3 DEF NumberInv

LEMMA KnownTypes ==
  ASSUME TypeInv
  PROVE  /\ \A p \in Points : table[p] # None => table[p] \in MountInfos /\ table[p] \in UmountInfos
         /\ \A k \in DOMAIN tasks : tasks[k].info \in UmountInfos
         /\ task # None => task.info \in UmountInfos
         /\ \A k \in DOMAIN posts : posts[k].task.info \in UmountInfos
<1>1. \A t \in Tasks : t.info \in UmountInfos
  BY DEF Tasks, UmountInfos
<1>2. \A p \in Points : table[p] # None => table[p] \in MountInfos /\ table[p] \in UmountInfos
  BY DEF StateOK, UmountInfos
<1>3. task # None => task \in Tasks
  BY DEF StateOK
<1>4. \A k \in DOMAIN tasks : tasks[k] \in Tasks
  BY DEF QueuesOK
<1>5. \A k \in DOMAIN posts : posts[k].task \in Tasks
  <2>0. posts \in Seq([task : Tasks, ok : BOOLEAN])
    BY DEF QueuesOK
  <2>1. \A k \in DOMAIN posts : posts[k] \in [task : Tasks, ok : BOOLEAN]
    BY <2>0, ElementType
  <2>2. QED
    BY <2>1
<1>6. QED
  BY <1>1, <1>2, <1>3, <1>4, <1>5

LEMMA PostKnown ==
  ASSUME TypeInv, TakesPost
  PROVE  /\ Head(posts) = posts[1] /\ 1 \in DOMAIN posts
         /\ Head(posts).task.info \in UmountInfos /\ Known(Head(posts).task.info)
         /\ Head(posts).task.kind = "mount" => Head(posts).task.info \in MountInfos
         /\ \A k \in DOMAIN posts' : \E j \in DOMAIN posts : posts'[k] = posts[j]
<1>1. posts \in Seq([task : Tasks, ok : BOOLEAN]) /\ posts # << >> /\ posts' = Tail(posts)
  BY DEF TakesPost, QueuesOK
<1>2. Head(posts) = posts[1] /\ 1 \in DOMAIN posts /\ Head(posts) \in [task : Tasks, ok : BOOLEAN]
  BY <1>1, HeadTail
<1>3. \A k \in DOMAIN posts' : \E j \in DOMAIN posts : posts'[k] = posts[j]
  BY <1>1, HeadTail
<1>4. Head(posts).task \in Tasks
  BY <1>2
<1>5. QED
  BY <1>2, <1>3, <1>4 DEF Known, Tasks, UmountInfos

LEMMA NumberStep == TypeInv /\ NumberInv /\ [Next]_vars => NumberInv'
<1> SUFFICES ASSUME TypeInv, NumberInv, [Next]_vars
             PROVE  NumberInv'
  OBVIOUS
<1>0. nextId \in Nat \ {0}
  BY DEF StateOK
<1>1. CASE ClickMount
  BY <1>1, <1>0, KnownKept DEF ClickMount, Sends, Known
<1>2. CASE ClickUmount
  BY <1>2, <1>0, KnownKept DEF ClickUmount, Sends, Known
<1>3. CASE AlreadyMounted
  BY <1>3, <1>0, KnownKept DEF AlreadyMounted, Delivers, Known
<1>4. CASE CheckBinary
  BY <1>4, <1>0, KnownKept DEF CheckBinary, At, Goes, FirstStep, Outdated, Known
<1>5. CASE CopyBinary
  BY <1>5, <1>0, KnownKept DEF CopyBinary, NotFound, At, Goes, Known
<1>6. CASE ChangeMode
  BY <1>6, <1>0, KnownKept DEF ChangeMode, At, Goes, Known
<1>7. CASE WriteVersion
  BY <1>7, <1>0, KnownKept DEF WriteVersion, At, Goes, FirstStep, Known
<1>8. CASE TestTarget
  BY <1>8, <1>0, KnownKept DEF TestTarget, At, Known
<1>9. CASE MakeDir
  BY <1>9, <1>0, KnownKept DEF MakeDir, At, Known
<1>10. CASE Mount
  BY <1>10, <1>0, KnownKept DEF Mount, At, Answers, Known
<1>11. CASE Umount
  BY <1>11, <1>0, KnownKept DEF Umount, At, Answers, Known
<1>12. CASE RemoveDir
  BY <1>12, <1>0, KnownKept DEF RemoveDir, At, Known
<1>13. CASE Start
  BY <1>13, <1>0, KnownKept DEF Start, Known
<1>14. CASE UNCHANGED vars
  BY <1>14, <1>0, KnownKept DEF vars, Known
<1>a. CASE MountCommand
  <2> DEFINE p == Head(inbox).point
             i == [id |-> nextId, point |-> p, target |-> Head(inbox).target]
             e == [kind |-> "mount", info |-> i]
  <2>1. /\ tasks' = Append(tasks, e) /\ nextId' = nextId + 1
        /\ table' = table /\ shown' = shown /\ task' = task /\ posts' = posts
    BY <1>a DEF MountCommand, Delivers, Executes
  <2>2. /\ Head(inbox) \in Commands /\ Head(inbox).kind = "mount"
    BY <1>a, HeadTail DEF MountCommand, Delivers, QueuesOK
  <2>3. i \in MountInfos /\ e \in Tasks
    BY <2>2, <1>0 DEF Commands, MountInfos, Tasks
  <2>4. \A k \in DOMAIN tasks' : (k \in DOMAIN tasks /\ tasks'[k] = tasks[k]) \/ tasks'[k] = e
    BY <2>1, <2>3, AppendElements DEF QueuesOK
  <2>5. \A j : Known(j)' => Known(j) \/ j = i
    BY <2>1, <2>4 DEF Known
  <2>6. \A j \in UmountInfos : Known(j) => j.id < nextId /\ j.id \in Nat
    BY DEF NumberInv, UmountInfos, MountInfos
  <2>7. \A j \in UmountInfos : Known(j)' => j.id < nextId'
    BY <2>1, <2>5, <2>6, <1>0
  <2>8. \A j, l \in UmountInfos :
          Known(j)' /\ Known(l)' /\ j.id = l.id /\ j.id # 0 => j.point = l.point
    BY <2>5, <2>6, <1>0 DEF NumberInv
  <2>9. QED
    BY <2>1, <2>7, <2>8 DEF NumberInv, EntryNotified
<1>b. CASE UmountCommand
  <2> DEFINE p == Head(inbox).point
             i == IF table[p] # None THEN table[p] ELSE [id |-> 0, point |-> p, target |-> None]
             e == [kind |-> "umount", info |-> i]
  <2>1. /\ tasks' = Append(tasks, e) /\ nextId' = nextId
        /\ table' = table /\ shown' = shown /\ task' = task /\ posts' = posts
    BY <1>b DEF UmountCommand, Delivers, Executes
  <2>2. Head(inbox) \in Commands
    BY <1>b, HeadTail DEF UmountCommand, Delivers, QueuesOK
  <2>3. p \in Points
    BY <2>2 DEF Commands
  <2>4. i \in UmountInfos /\ (i.id = 0 \/ Known(i))
    BY <2>3, KnownTypes DEF UmountInfos, Known
  <2>5. e \in Tasks
    BY <2>4 DEF Tasks
  <2>6. \A k \in DOMAIN tasks' : (k \in DOMAIN tasks /\ tasks'[k] = tasks[k]) \/ tasks'[k] = e
    BY <2>1, <2>5, AppendElements DEF QueuesOK
  <2>7. \A j : Known(j)' => Known(j) \/ j = i
    BY <2>1, <2>6 DEF Known
  <2>8. QED
    BY <2>1, <2>4, <2>7, <1>0, KnownKept
<1>c. CASE NextTask
  <2>1. task' = Head(tasks) /\ tasks' = Tail(tasks) /\ tasks # << >>
        /\ table' = table /\ nextId' = nextId /\ shown' = shown /\ posts' = posts
    BY <1>c DEF NextTask
  <2>2. /\ 1 \in DOMAIN tasks /\ task' = tasks[1]
        /\ \A k \in DOMAIN tasks' : \E j \in DOMAIN tasks : tasks'[k] = tasks[j]
    BY <2>1, HeadTail DEF QueuesOK
  <2>3. \A j : Known(j)' => Known(j)
    BY <2>1, <2>2 DEF Known
  <2>4. QED
    BY <2>1, <2>3, <1>0, KnownKept
<1>d. CASE Post
  <2>1. /\ posts' = Append(posts, [task |-> task, ok |-> result]) /\ task' = None /\ task # None
        /\ table' = table /\ nextId' = nextId /\ shown' = shown /\ tasks' = tasks
    BY <1>d DEF Post, At
  <2>2. [task |-> task, ok |-> result] \in [task : Tasks, ok : BOOLEAN]
    BY <2>1 DEF StateOK, FlagsOK
  <2>3. \A k \in DOMAIN posts' : \/ k \in DOMAIN posts /\ posts'[k] = posts[k]
                                 \/ posts'[k] = [task |-> task, ok |-> result]
    BY <2>1, <2>2, AppendElements DEF QueuesOK
  <2>4. \A k \in DOMAIN posts' : posts'[k].task.info = task.info
                                 \/ \E l \in DOMAIN posts : posts'[k] = posts[l]
    BY <2>3
  <2>5. \A j : Known(j)' => Known(j)
    BY <2>1, <2>4 DEF Known
  <2>6. QED
    BY <2>1, <2>5, <1>0, KnownKept
<1>f. CASE TaskFailed
  <2>1. \A j : Known(j)' => Known(j)
    BY <1>f, PostKnown DEF TaskFailed, TakesPost, Known
  <2>2. QED
    BY <1>f, <2>1, <1>0, KnownKept DEF TaskFailed, TakesPost
<1>g. ASSUME Mounted \/ Unmounted
      PROVE  NumberInv'
  <2> DEFINE i == Head(posts).task.info
  <2>1. /\ TakesPost /\ tasks' = tasks /\ task' = task /\ nextId' = nextId
        /\ i \in UmountInfos /\ Known(i)
        /\ \A k \in DOMAIN posts' : \E j \in DOMAIN posts : posts'[k] = posts[j]
    BY <1>g, PostKnown DEF Mounted, Unmounted, TakesPost
  <2>2. i.point \in Points /\ i.id \in Nat
    BY <2>1 DEF UmountInfos, MountInfos
  <2>3. \A q \in Points : q # i.point => table'[q] = table[q]
    BY <1>g, <2>2 DEF StateOK, Mounted, Unmounted, ShowMounted, ShowUnmounted
  <2>4. table'[i.point] \in {i, None}
    BY <1>g, <2>2 DEF StateOK, Mounted, Unmounted, ShowMounted, ShowUnmounted
  <2>5. \A j : Known(j)' => Known(j)
    BY <2>1, <2>2, <2>3, <2>4 DEF Known
  <2>6. \A q \in Points : table'[q] # None => table'[q].point = q
    BY <2>2, <2>3, <2>4 DEF NumberInv
  <2>7. \A q \in Points : q # i.point /\ table[q] # None => table[q].id # i.id
    <3> SUFFICES ASSUME NEW q \in Points, q # i.point, table[q] # None, table[q].id = i.id
                 PROVE  FALSE
      OBVIOUS
    <3>1. table[q] \in MountInfos /\ table[q] \in UmountInfos /\ Known(table[q]) /\ table[q].point = q
      BY KnownTypes DEF Known, NumberInv
    <3>2. table[q].id # 0
      BY <3>1 DEF MountInfos
    <3>3. QED
      BY <2>1, <3>1, <3>2 DEF NumberInv
  <2>8. \A n \in shown : n[1] # i.id => n \in shown'
    BY <1>g DEF Mounted, Unmounted, ShowMounted, ShowUnmounted, Notify
  <2>9. ASSUME NEW q \in Points, table'[q] # None
        PROVE  <<table'[q].id, q>> \in shown'
    <3>1. CASE q # i.point
      <4>1. table'[q] = table[q] /\ table[q].id # i.id /\ <<table[q].id, q>> \in shown
        BY <2>3, <2>7, <2>9, <3>1 DEF NumberInv, EntryNotified
      <4>2. QED
        BY <2>8, <4>1
    <3>2. CASE q = i.point
      <4>1. table'[q] = i /\ Mounted
        BY <1>g, <2>2, <2>4, <2>9, <3>2 DEF Unmounted, ShowUnmounted, StateOK
      <4>2. QED
        BY <3>2, <4>1 DEF Mounted, ShowMounted, Notify
    <3>3. QED
      BY <3>1, <3>2
  <2>10. \A j \in UmountInfos : Known(j)' => j.id < nextId'
    BY <2>1, <2>5 DEF NumberInv
  <2>11. \A j, l \in UmountInfos :
           Known(j)' /\ Known(l)' /\ j.id = l.id /\ j.id # 0 => j.point = l.point
    BY <2>5 DEF NumberInv
  <2>12. QED
    BY <2>6, <2>9, <2>10, <2>11 DEF NumberInv, EntryNotified
<1>h. CASE Die
  <2>1. tasks' = << >> /\ posts' = << >> /\ task' = None /\ \A p \in Points : table'[p] = None
    BY <1>h DEF Die
  <2>2. \A j : ~Known(j)'
    BY <2>1 DEF Known
  <2>3. QED
    BY <2>1, <2>2 DEF NumberInv, EntryNotified
<1>e. QED
  BY <1>1, <1>2, <1>3, <1>4, <1>5, <1>6, <1>7, <1>8, <1>9, <1>10, <1>11, <1>12, <1>13, <1>14, <1>a, <1>b, <1>c, <1>d, <1>f, <1>g, <1>h
  DEF Next, UserStep, MainStep, BackgroundStep

(* Every entry of the table has its notification: no other mount, unmount   *)
(* or restart takes it away or puts another in its place.                   *)
THEOREM EntriesAreNotified == Spec => []EntryNotified
<1>1. Init => NumberInv
  <2> SUFFICES ASSUME Init
               PROVE  NumberInv
    OBVIOUS
  <2>1. tasks = << >> /\ posts = << >> /\ task = None /\ \A p \in Points : table[p] = None
    BY DEF Init
  <2>2. \A j : ~Known(j)
    BY <2>1 DEF Known
  <2>3. QED
    BY <2>1, <2>2 DEF NumberInv, EntryNotified
<1>2. NumberInv => EntryNotified
  BY DEF NumberInv
<1>3. QED
  BY <1>1, <1>2, NumberStep, TypeInvariant, PTL DEF Spec

-----------------------------------------------------------------------------
(* The table and the mounts.                                                *)

USE DEF Done, Doing, Posted

(* A step that leaves the results, the table, the mounts and what has been  *)
(* done of the current task alone.                                          *)
LEMMA TruthKept ==
  ASSUME TruthInv, posts' = posts, table' = table, mounted' = mounted, asset' = asset,
         \A p \in Points : Done("umount", p) => Done("umount", p)',
         \A p \in Points : Done("mount", p)' => Done("mount", p) /\ task'.info = task.info
  PROVE  TruthInv'
<1> SUFFICES ASSUME asset PROVE TruthInv'
  BY DEF TruthInv
<1>1. TableTrue'
  BY DEF TruthInv, TableTrue, Succeeded
<1>2. LastPostTrue'
  BY DEF TruthInv, LastPostTrue
<1>3. \A p \in Points : Done("mount", p)' => mounted'[p] = task'.info.target
  BY DEF TruthInv
<1>4. QED
  BY <1>1, <1>2, <1>3 DEF TruthInv

LEMMA PostShift ==
  ASSUME TypeInv, TakesPost
  PROVE  /\ 1 \in DOMAIN posts /\ Head(posts) = posts[1]
         /\ DOMAIN posts \subseteq Nat \ {0} /\ DOMAIN posts' \subseteq Nat \ {0}
         /\ \A k \in DOMAIN posts' : k + 1 \in DOMAIN posts /\ posts'[k] = posts[k + 1]
         /\ \A k \in DOMAIN posts : k # 1 => k - 1 \in DOMAIN posts' /\ posts'[k - 1] = posts[k]
<1>1. posts \in Seq([task : Tasks, ok : BOOLEAN]) /\ posts # << >> /\ posts' = Tail(posts)
  BY DEF TakesPost, QueuesOK
<1>2. Tail(posts) \in Seq([task : Tasks, ok : BOOLEAN])
  BY <1>1, HeadTail
<1>3. DOMAIN posts \subseteq Nat \ {0} /\ DOMAIN Tail(posts) \subseteq Nat \ {0}
  BY <1>1, <1>2, ElementType
<1>4. QED
  BY <1>1, <1>3, HeadTail

(* The result at the head of the queue is taken away.                       *)
LEMMA TakenSucceeded ==
  ASSUME TypeInv, TakesPost, NEW p \in Points, ~Posted(1, "umount", p)
  PROVE  Succeeded("umount", p)' = Succeeded("umount", p)
<1>1. UNCHANGED <<task, pc, result>>
  BY DEF TakesPost
<1>2. \A k \in DOMAIN posts' : Posted(k, "umount", p)' => Posted(k + 1, "umount", p)
  BY PostShift
<1>3. \A k \in DOMAIN posts : Posted(k, "umount", p) => k # 1 /\ Posted(k - 1, "umount", p)'
  BY PostShift
<1>4. QED
  BY <1>1, <1>2, <1>3, PostShift DEF Succeeded

LEMMA TakenLast ==
  ASSUME TypeInv, LastPostTrue, TakesPost
  PROVE  LastPostTrue'
<1> SUFFICES ASSUME NEW p \in Points, NEW i \in DOMAIN posts',
                    Posted(i, "mount", p)', ~Done("umount", p)',
                    \A j \in DOMAIN posts' : j > i => ~Posted(j, "umount", p)'
             PROVE  mounted'[p] = posts'[i].task.info.target
  BY DEF LastPostTrue
<1>1. /\ UNCHANGED <<task, pc, result, mounted>>
      /\ i \in Nat /\ i + 1 \in DOMAIN posts /\ posts'[i] = posts[i + 1]
  BY PostShift DEF TakesPost
<1>2. ASSUME NEW j \in DOMAIN posts, j > i + 1
      PROVE  ~Posted(j, "umount", p)
  <2>1. j \in Nat /\ j - 1 \in DOMAIN posts' /\ posts'[j - 1] = posts[j] /\ j - 1 > i
    BY <1>1, <1>2, PostShift
  <2>2. QED
    BY <2>1
<1>3. QED
  BY <1>1, <1>2 DEF LastPostTrue

LEMMA PostsTyped ==
  ASSUME QueuesOK
  PROVE  \A i \in DOMAIN posts : posts[i] \in [task : Tasks, ok : BOOLEAN]
<1>1. PICK q \in Seq([task : Tasks, ok : BOOLEAN]) : q = posts
  BY DEF QueuesOK
<1>2. \A i \in DOMAIN q : q[i] \in [task : Tasks, ok : BOOLEAN]
  BY ElementType
<1>3. QED
  BY <1>1, <1>2

LEMMA TruthStep ==
  ASSUME Failing = {}, TypeInv, InstallInv, TruthInv, [Next]_vars
  PROVE  TruthInv'
<1>1. CASE ClickMount
  BY <1>1, TruthKept DEF ClickMount, Sends
<1>2. CASE ClickUmount
  BY <1>2, TruthKept DEF ClickUmount, Sends
<1>3. CASE MountCommand
  BY <1>3, TruthKept DEF MountCommand, Delivers, Executes
<1>4. CASE AlreadyMounted
  BY <1>4, TruthKept DEF AlreadyMounted, Delivers
<1>5. CASE UmountCommand
  BY <1>5, TruthKept DEF UmountCommand, Delivers, Executes
<1>6. CASE CheckBinary
  BY <1>6, TruthKept DEF CheckBinary, At, Goes, FirstStep, Outdated
<1>7. CASE CopyBinary
  <2>1. /\ posts' = posts /\ table' = table /\ mounted' = mounted /\ asset' = asset
        /\ task' = task /\ result' = result
        /\ task # None /\ ~result
    BY <1>7 DEF CopyBinary, NotFound, At, Goes
  <2>2. QED
    BY <2>1, TruthKept
<1>8. CASE ChangeMode
  <2>1. /\ posts' = posts /\ table' = table /\ mounted' = mounted /\ asset' = asset
        /\ task' = task /\ result' = result
        /\ task # None /\ ~result
    BY <1>8 DEF ChangeMode, At, Goes
  <2>2. QED
    BY <2>1, TruthKept
<1>9. CASE WriteVersion
  <2>1. /\ posts' = posts /\ table' = table /\ mounted' = mounted /\ asset' = asset
        /\ task' = task /\ result' = result
        /\ task # None /\ ~result
    BY <1>9 DEF WriteVersion, At, Goes
  <2>2. QED
    BY <2>1, TruthKept
<1>10. CASE TestTarget
  BY <1>10, TruthKept DEF TestTarget, At
<1>11. CASE RemoveDir
  BY <1>11, TruthKept DEF RemoveDir, At
<1>12. CASE Start
  BY <1>12, TruthKept DEF Start
<1>13. CASE UNCHANGED vars
  BY <1>13, TruthKept DEF vars
<1>a. CASE NextTask
  <2>1. /\ posts' = posts /\ table' = table /\ mounted' = mounted /\ asset' = asset
        /\ task = None /\ pc' = "init"
    BY <1>a DEF NextTask
  <2>2. QED
    BY <2>1, TruthKept
<1>b. CASE MakeDir
  <2>1. /\ posts' = posts /\ table' = table /\ mounted' = mounted /\ asset' = asset
        /\ task' = task /\ pc = "mkdir" /\ pc' = "mount"
    BY <1>b DEF MakeDir, At
  <2>2. QED
    BY <2>1, TruthKept
<1>c. CASE Mount
  <2> SUFFICES ASSUME asset
               PROVE  TruthInv'
    BY <1>c DEF TruthInv, Mount
  <2> DEFINE p == task.info.point
  <2>1. /\ posts' = posts /\ table' = table /\ asset' = asset /\ task' = task /\ task # None
        /\ task.kind = "mount" /\ pc = "mount" /\ pc' = "post" /\ binary \in {"none", "ready"}
    BY <1>c DEF Mount, At, InstallInv, InstallSafe
  <2>2. task \in Tasks /\ task.info \in MountInfos /\ p \in Points
    BY <2>1 DEF StateOK, Tasks, MountInfos
  <2>3. CASE mounted' = mounted /\ result' = FALSE
    BY <2>1, <2>3, TruthKept
  <2>4. CASE mounted[p] = None /\ mounted' = [mounted EXCEPT ![p] = task.info.target]
             /\ result' = TRUE
    <3>1. \A q \in Points : (q # p => mounted'[q] = mounted[q]) /\ mounted'[p] = task.info.target
      BY <2>2, <2>4 DEF StateOK
    <3>2. \A q \in Points : ~Done("umount", q) /\ ~Done("umount", q)'
      BY <2>1
    <3>3. \A q \in Points : Succeeded("umount", q)' = Succeeded("umount", q)
      BY <2>1, <3>2 DEF Succeeded
    <3>4. table[p] # None => Succeeded("umount", p)
      <4>1. table[p] # None => table[p].target # None
        BY <2>2, KnownTypes DEF MountInfos
      <4>2. QED
        BY <2>2, <2>4, <4>1 DEF TruthInv, TableTrue
    <3>5. TableTrue'
      BY <2>1, <2>2, <3>1, <3>3, <3>4 DEF TruthInv, TableTrue
    <3>6. \A i \in DOMAIN posts : Posted(i, "mount", p) => posts[i].task.info.target # None
      <4>1. \A i \in DOMAIN posts : posts[i] \in [task : Tasks, ok : BOOLEAN]
        BY PostsTyped
      <4>2. \A t \in Tasks : t.kind = "mount" => t.info.target # None
        BY DEF Tasks, MountInfos
      <4>3. QED
        BY <4>1, <4>2
    <3>7. LastPostTrue'
      BY <2>1, <2>2, <2>4, <3>1, <3>2, <3>6 DEF TruthInv, LastPostTrue
    <3>8. \A q \in Points : Done("mount", q)' => mounted'[q] = task'.info.target
      BY <2>1, <3>1
    <3>9. QED
      BY <3>5, <3>7, <3>8 DEF TruthInv
  <2>5. QED
    BY <1>c, <2>1, <2>3, <2>4 DEF Mount, Answers
<1>d. CASE Umount
  <2> SUFFICES ASSUME asset
               PROVE  TruthInv'
    BY <1>d DEF TruthInv, Umount
  <2> DEFINE p == task.info.point
  <2>1. /\ posts' = posts /\ table' = table /\ asset' = asset /\ task' = task /\ task # None
        /\ task.kind = "umount" /\ pc = "umount"
    BY <1>d DEF Umount, At
  <2>2. p \in Points
    BY <2>1, KnownTypes DEF UmountInfos, MountInfos
  <2>3. CASE mounted' = mounted /\ result' = FALSE
    BY <2>1, <2>3, TruthKept
  <2>4. CASE mounted' = [mounted EXCEPT ![p] = None] /\ result' = TRUE /\ pc' = "rmdir"
    <3>1. \A q \in Points : q # p => mounted'[q] = mounted[q]
      BY <2>2, <2>4 DEF StateOK
    <3>2. Done("umount", p)' /\ \A q \in Points : ~Done("umount", q)
      BY <2>1, <2>4
    <3>3. \A q \in Points : Succeeded("umount", q) => Succeeded("umount", q)'
      BY <2>1, <3>2 DEF Succeeded
    <3>4. Succeeded("umount", p)'
      BY <3>2 DEF Succeeded
    <3>5. TableTrue'
      BY <2>1, <3>1, <3>3, <3>4 DEF TruthInv, TableTrue
    <3>6. LastPostTrue'
      BY <2>1, <3>1, <3>2 DEF TruthInv, LastPostTrue
    <3>7. \A q \in Points : ~Done("mount", q)'
      BY <2>1
    <3>8. QED
      BY <3>5, <3>6, <3>7 DEF TruthInv
  <2>5. QED
    BY <1>d, <2>1, <2>3, <2>4 DEF Umount, Answers
<1>f. CASE Post
  <2> SUFFICES ASSUME asset
               PROVE  TruthInv'
    BY <1>f DEF TruthInv, Post
  <2>0. PICK n : n = Len(posts) + 1
    OBVIOUS
  <2>r. PICK r : r = [task |-> task, ok |-> result]
    OBVIOUS
  <2>1. /\ posts' = Append(posts, r) /\ table' = table /\ asset' = asset /\ mounted' = mounted
        /\ task' = None /\ task # None /\ pc = "post"
    BY <1>f, <2>r DEF Post, At
  <2>2. r \in [task : Tasks, ok : BOOLEAN] /\ r.task = task /\ r.ok = result
    BY <2>1, <2>r DEF StateOK, FlagsOK
  <2>3. /\ \A i \in DOMAIN posts' : (i \in DOMAIN posts /\ posts'[i] = posts[i]) \/ (i = n /\ posts'[i] = r)
        /\ \A i \in DOMAIN posts : i \in DOMAIN posts' /\ posts'[i] = posts[i] /\ i < n
        /\ n \in DOMAIN posts' /\ posts'[n] = r
    BY <2>0, <2>1, <2>2, AppendElements DEF QueuesOK
  <2>4. \A p \in Points, kind \in {"mount", "umount"} : Posted(n, kind, p)' <=> Done(kind, p)
    BY <2>1, <2>2, <2>3
  <2>5. \A p \in Points : Succeeded("umount", p) => Succeeded("umount", p)'
    BY <2>3, <2>4 DEF Succeeded
  <2>6. TableTrue'
    BY <2>1, <2>5 DEF TruthInv, TableTrue
  <2>7. LastPostTrue'
    <3> SUFFICES ASSUME NEW p \in Points, NEW i \in DOMAIN posts', Posted(i, "mount", p)',
                        \A j \in DOMAIN posts' : j > i => ~Posted(j, "umount", p)'
                 PROVE  mounted'[p] = posts'[i].task.info.target
      BY DEF LastPostTrue
    <3>1. CASE i \in DOMAIN posts /\ posts'[i] = posts[i]
      <4>1. i < n /\ ~Done("umount", p)
        BY <2>3, <2>4, <3>1, ElementType DEF QueuesOK
      <4>2. \A j \in DOMAIN posts : j > i => ~Posted(j, "umount", p)
        BY <2>3
      <4>3. QED
        BY <2>1, <3>1, <4>1, <4>2 DEF TruthInv, LastPostTrue
    <3>2. CASE i = n /\ posts'[i] = r
      <4>1. Done("mount", p)
        BY <2>4, <3>2
      <4>2. QED
        BY <2>1, <2>2, <3>2, <4>1 DEF TruthInv
    <3>3. QED
      BY <2>3, <3>1, <3>2
  <2>8. QED
    BY <2>1, <2>6, <2>7 DEF TruthInv
<1>g. ASSUME Mounted \/ Unmounted \/ TaskFailed
      PROVE  TruthInv'
  <2>0. TakesPost
    BY <1>g DEF Mounted, Unmounted, TaskFailed
  <2> SUFFICES ASSUME asset
               PROVE  TruthInv'
    BY <2>0 DEF TruthInv, TakesPost
  <2> DEFINE i == Head(posts).task.info
  <2>1. /\ UNCHANGED <<asset, mounted, task, pc, result>>
        /\ Head(posts) = posts[1] /\ 1 \in DOMAIN posts /\ i \in UmountInfos
    BY <2>0, PostKnown DEF TakesPost
  <2>2. i.point \in Points
    BY <2>1 DEF UmountInfos, MountInfos
  <2>3. LastPostTrue'
    BY <2>0, TakenLast DEF TruthInv
  <2>4. \A q \in Points : Done("mount", q)' => mounted'[q] = task'.info.target
    BY <2>1 DEF TruthInv
  <2>5. ASSUME NEW q \in Points, table'[q] # None, ~Succeeded("umount", q)'
        PROVE  mounted'[q] = table'[q].target
    <3>1. CASE Mounted /\ q = i.point
      <4>1. table'[q] = i /\ Posted(1, "mount", q)
        BY <2>1, <2>2, <3>1 DEF Mounted, ShowMounted, StateOK
      <4>2. ~Done("umount", q) /\ \A j \in DOMAIN posts : j > 1 => ~Posted(j, "umount", q)
        BY <2>0, <2>1, <2>5, PostShift DEF Succeeded
      <4>3. mounted[q] = posts[1].task.info.target
        BY <2>1, <4>1, <4>2 DEF TruthInv, LastPostTrue
      <4>4. QED
        BY <2>1, <4>1, <4>3
    <3>2. CASE ~(Mounted /\ q = i.point)
      <4>1. ~Posted(1, "umount", q) /\ table'[q] = table[q]
        BY <1>g, <2>1, <2>2, <2>5, <3>2
        DEF Mounted, Unmounted, TaskFailed, ShowMounted, ShowUnmounted, StateOK
      <4>2. ~Succeeded("umount", q)
        BY <2>0, <2>5, <4>1, TakenSucceeded
      <4>3. QED
        BY <2>1, <2>5, <4>1, <4>2 DEF TruthInv, TableTrue
    <3>3. QED
      BY <3>1, <3>2
  <2>6. TableTrue'
    BY <2>5 DEF TableTrue
  <2>7. QED
    BY <2>3, <2>4, <2>6 DEF TruthInv
<1>h. CASE Die
  <2>1. posts' = << >> /\ task' = None /\ \A p \in Points : table'[p] = None
    BY <1>h DEF Die
  <2>2. QED
    BY <2>1 DEF TruthInv, TableTrue, LastPostTrue
<1>e. QED
  BY <1>1, <1>2, <1>3, <1>4, <1>5, <1>6, <1>7, <1>8, <1>9, <1>10, <1>11, <1>12, <1>13, <1>a, <1>b, <1>c, <1>d, <1>f, <1>g, <1>h
  DEF Next, UserStep, MainStep, BackgroundStep

(* When the mount point can be made and commands take less than 30 seconds  *)
(* (and chmod works), an entry of the table names what is mounted there,    *)
(* unless an unmount of it has just succeeded: whatever the order in which  *)
(* commands, tasks and results follow each other.                           *)
THEOREM TableIsTrue == Failing = {} => (Spec => []TableTrue)
<1> SUFFICES ASSUME Failing = {}
             PROVE  Spec => []TableTrue
  OBVIOUS
<1>1. Init => InstallInv /\ TruthInv
  <2> SUFFICES ASSUME Init
               PROVE  InstallInv /\ TruthInv
    OBVIOUS
  <2>1. posts = << >> /\ task = None /\ \A p \in Points : table[p] = None
    BY DEF Init
  <2>2. InstallInv
    BY DEF Init, InstallInv, InstallSafe
  <2>3. QED
    BY <2>1, <2>2 DEF TruthInv, TableTrue, LastPostTrue
<1>2. TypeInv /\ InstallInv /\ [Next]_vars => InstallInv'
  BY InstallStep
<1>3. TypeInv /\ InstallInv /\ TruthInv /\ [Next]_vars => TruthInv'
  BY TruthStep
<1>4. TruthInv => TableTrue
  BY DEF TruthInv, TableTrue
<1>5. QED
  BY <1>1, <1>2, <1>3, <1>4, TypeInvariant, PTL DEF Spec

-----------------------------------------------------------------------------
(* No mount is forgotten.                                                   *)

LEMMA KeepKept ==
  ASSUME KeepInv, posts' = posts, table' = table, mounted' = mounted, failed' = failed,
         alive' = alive,
         \A p \in Points : (Done("umount", p)' <=> Done("umount", p))
                           /\ (Done("mount", p) => Done("mount", p)')
                           /\ (UmountComing(p) => UmountComing(p)')
  PROVE  KeepInv'
<1>1. \A p \in Points : Done("umount", p)' => mounted'[p] = None
  BY DEF KeepInv
<1>2. \A p \in Points, i \in DOMAIN posts' :
        Posted(i, "umount", p)' /\ mounted'[p] # None =>
          Done("mount", p)' \/ \E j \in DOMAIN posts' : j > i /\ Posted(j, "mount", p)'
  BY DEF KeepInv
<1>3. \A p \in Points : Succeeded("mount", p) => Succeeded("mount", p)'
  BY DEF Succeeded
<1>4. NoForgottenMount'
  BY <1>3 DEF KeepInv, NoForgottenMount
<1>5. QED
  BY <1>1, <1>2, <1>4 DEF KeepInv

(* Commands and tasks that come are not lost.                               *)
LEMMA ComingKept ==
  ASSUME NEW p \in Points,
         \A i \in DOMAIN inbox : inbox[i].kind = "umount" =>
           \/ \E j \in DOMAIN inbox' : inbox'[j] = inbox[i]
           \/ \E j \in DOMAIN tasks' : tasks'[j].kind = "umount" /\ tasks'[j].info.point = inbox[i].point,
         \A i \in DOMAIN tasks :
           \/ \E j \in DOMAIN tasks' : tasks'[j] = tasks[i]
           \/ task' # None /\ task' = tasks[i],
         task # None => task' = task
  PROVE  UmountComing(p) => UmountComing(p)'
  BY DEF UmountComing

LEMMA KeepStep ==
  ASSUME "slow" \notin Failing, TypeInv, NumberInv, KeepInv, [Next]_vars
  PROVE  KeepInv'
<1>0. /\ inbox \in Seq(Commands) /\ tasks \in Seq(Tasks)
      /\ posts \in Seq([task : Tasks, ok : BOOLEAN])
  BY DEF QueuesOK
<1>1. CASE ClickMount
  <2>1. /\ UNCHANGED <<posts, table, mounted, failed, alive, task, pc, result, tasks>>
        /\ \E c \in Commands : inbox' = Append(inbox, c)
    BY <1>1 DEF ClickMount, Sends, Commands, StateOK
  <2>2. \A i \in DOMAIN inbox : \E j \in DOMAIN inbox' : inbox'[j] = inbox[i]
    BY <1>0, <2>1, AppendElements
  <2>3. \A p \in Points : UmountComing(p) => UmountComing(p)'
    BY <2>1, <2>2, ComingKept
  <2>4. QED
    BY <2>1, <2>3, KeepKept
<1>2. CASE ClickUmount
  <2>1. /\ UNCHANGED <<posts, table, mounted, failed, alive, task, pc, result, tasks>>
        /\ \E c \in Commands : inbox' = Append(inbox, c)
    BY <1>2 DEF ClickUmount, Sends, Commands, StateOK
  <2>2. \A i \in DOMAIN inbox : \E j \in DOMAIN inbox' : inbox'[j] = inbox[i]
    BY <1>0, <2>1, AppendElements
  <2>3. \A p \in Points : UmountComing(p) => UmountComing(p)'
    BY <2>1, <2>2, ComingKept
  <2>4. QED
    BY <2>1, <2>3, KeepKept
<1>3. CASE CheckBinary
  <2>1. /\ UNCHANGED <<posts, table, mounted, failed, alive, inbox, tasks, task>>
        /\ task # None /\ pc \in {"init", "copy", "chmod", "version", "test", "mkdir"}
        /\ \A p \in Points : ~Done("umount", p)' /\ ~Done("umount", p)
    BY <1>3 DEF CheckBinary, At, Goes, FirstStep
  <2>2. \A p \in Points : UmountComing(p) => UmountComing(p)'
    BY <2>1, ComingKept
  <2>3. QED
    BY <2>1, <2>2, KeepKept
<1>4. CASE CopyBinary
  <2>1. /\ UNCHANGED <<posts, table, mounted, failed, alive, inbox, tasks, task, result>>
        /\ task # None /\ ~result
    BY <1>4 DEF CopyBinary, NotFound, At, Goes
  <2>2. \A p \in Points : UmountComing(p) => UmountComing(p)'
    BY <2>1, ComingKept
  <2>3. QED
    BY <2>1, <2>2, KeepKept
<1>5. CASE ChangeMode
  <2>1. /\ UNCHANGED <<posts, table, mounted, failed, alive, inbox, tasks, task, result>>
        /\ task # None /\ ~result
    BY <1>5 DEF ChangeMode, At, Goes
  <2>2. \A p \in Points : UmountComing(p) => UmountComing(p)'
    BY <2>1, ComingKept
  <2>3. QED
    BY <2>1, <2>2, KeepKept
<1>6. CASE WriteVersion
  <2>1. /\ UNCHANGED <<posts, table, mounted, failed, alive, inbox, tasks, task, result>>
        /\ task # None /\ ~result
    BY <1>6 DEF WriteVersion, At, Goes
  <2>2. \A p \in Points : UmountComing(p) => UmountComing(p)'
    BY <2>1, ComingKept
  <2>3. QED
    BY <2>1, <2>2, KeepKept
<1>7. CASE TestTarget
  <2>1. /\ UNCHANGED <<posts, table, mounted, failed, alive, inbox, tasks, task>>
        /\ task # None /\ pc \in {"init", "copy", "chmod", "version", "test", "mkdir"}
        /\ \A p \in Points : ~Done("umount", p)' /\ ~Done("umount", p)
    BY <1>7 DEF TestTarget, At, Goes, FirstStep
  <2>2. \A p \in Points : UmountComing(p) => UmountComing(p)'
    BY <2>1, ComingKept
  <2>3. QED
    BY <2>1, <2>2, KeepKept
<1>8. CASE MakeDir
  <2>1. /\ UNCHANGED <<posts, table, mounted, failed, alive, inbox, tasks, task>>
        /\ task # None /\ pc \in {"init", "copy", "chmod", "version", "test", "mkdir"}
        /\ \A p \in Points : ~Done("umount", p)' /\ ~Done("umount", p)
    BY <1>8 DEF MakeDir, At, Goes, FirstStep
  <2>2. \A p \in Points : UmountComing(p) => UmountComing(p)'
    BY <2>1, ComingKept
  <2>3. QED
    BY <2>1, <2>2, KeepKept
<1>9. CASE RemoveDir
  <2>1. /\ UNCHANGED <<posts, table, mounted, failed, alive, inbox, tasks, task, result>>
        /\ task # None /\ pc = "rmdir" /\ pc' = "post"
    BY <1>9 DEF RemoveDir, At
  <2>2. \A p \in Points : UmountComing(p) => UmountComing(p)'
    BY <2>1, ComingKept
  <2>3. QED
    BY <2>1, <2>2, KeepKept
<1>10. CASE UNCHANGED vars
  <2>1. \A p \in Points : UmountComing(p) => UmountComing(p)'
    BY <1>10, ComingKept DEF vars
  <2>2. QED
    BY <1>10, <2>1, KeepKept DEF vars
<1>a. ASSUME MountCommand \/ AlreadyMounted \/ UmountCommand
      PROVE  KeepInv'
  <2>1. /\ UNCHANGED <<posts, table, mounted, failed, alive, task, pc, result>>
        /\ inbox # << >> /\ inbox' = Tail(inbox)
    BY <1>a DEF MountCommand, AlreadyMounted, UmountCommand, Delivers
  <2>2. /\ Head(inbox) \in Commands /\ Head(inbox) = inbox[1]
        /\ \A i \in DOMAIN inbox : i # 1 => \E j \in DOMAIN inbox' : inbox'[j] = inbox[i]
    BY <1>0, <2>1, HeadTail
  <2>3. Head(inbox).point \in Points
    BY <2>2 DEF Commands
  <2>4. \A i \in DOMAIN tasks : \E j \in DOMAIN tasks' : tasks'[j] = tasks[i]
    <3>1. \A e : tasks' = Append(tasks, e) =>
            \A i \in DOMAIN tasks : i \in DOMAIN tasks' /\ tasks'[i] = tasks[i]
      BY <1>0
    <3>2. QED
      BY <1>a, <3>1 DEF MountCommand, AlreadyMounted, UmountCommand, Executes
  <2>5. Head(inbox).kind = "umount" =>
          \E j \in DOMAIN tasks' : tasks'[j].kind = "umount" /\ tasks'[j].info.point = Head(inbox).point
    <3> SUFFICES ASSUME Head(inbox).kind = "umount"
                 PROVE  \E j \in DOMAIN tasks' :
                          tasks'[j].kind = "umount" /\ tasks'[j].info.point = Head(inbox).point
      OBVIOUS
    <3>1. UmountCommand
      BY <1>a DEF MountCommand, AlreadyMounted, Delivers
    <3>2. PICK i : /\ i = IF table[Head(inbox).point] # None THEN table[Head(inbox).point]
                          ELSE [id |-> 0, point |-> Head(inbox).point, target |-> None]
                   /\ tasks' = Append(tasks, [kind |-> "umount", info |-> i])
      BY <3>1 DEF UmountCommand, Executes
    <3>3. i.point = Head(inbox).point
      BY <2>3, <3>2 DEF NumberInv
    <3>4. \A e : tasks' = Append(tasks, e) =>
            Len(tasks) + 1 \in DOMAIN tasks' /\ tasks'[Len(tasks) + 1] = e
      BY <1>0
    <3>5. QED
      BY <3>2, <3>3, <3>4
  <2>6. \A i \in DOMAIN inbox : inbox[i].kind = "umount" =>
          \/ \E j \in DOMAIN inbox' : inbox'[j] = inbox[i]
          \/ \E j \in DOMAIN tasks' : tasks'[j].kind = "umount" /\ tasks'[j].info.point = inbox[i].point
    BY <2>2, <2>5
  <2>7. \A p \in Points : UmountComing(p) => UmountComing(p)'
    BY <2>1, <2>4, <2>6, ComingKept
  <2>8. QED
    BY <2>1, <2>7, KeepKept
<1>b. CASE NextTask
  <2>1. /\ UNCHANGED <<posts, table, mounted, failed, alive, inbox>>
        /\ task = None /\ tasks # << >> /\ task' = Head(tasks) /\ tasks' = Tail(tasks)
        /\ pc' = "init"
    BY <1>b DEF NextTask
  <2>2. /\ task' = tasks[1] /\ task' \in Tasks
        /\ \A i \in DOMAIN tasks : i # 1 => \E j \in DOMAIN tasks' : tasks'[j] = tasks[i]
    BY <1>0, <2>1, HeadTail
  <2>3. \A i \in DOMAIN tasks : \/ \E j \in DOMAIN tasks' : tasks'[j] = tasks[i]
                                \/ task' # None /\ task' = tasks[i]
    BY <2>2
  <2>4. \A p \in Points : UmountComing(p) => UmountComing(p)'
    BY <2>1, <2>3, ComingKept
  <2>5. QED
    BY <2>1, <2>4, KeepKept
<1>c. CASE Mount
  <2> DEFINE p == task.info.point
  <2>1. /\ UNCHANGED <<posts, table, failed, alive, inbox, tasks, task>> /\ task # None
        /\ task.kind = "mount" /\ pc = "mount" /\ pc' = "post"
    BY <1>c DEF Mount, At
  <2>2. \A q \in Points : UmountComing(q) => UmountComing(q)'
    BY <2>1, ComingKept
  <2>3. CASE mounted' = mounted
    BY <2>1, <2>2, <2>3, KeepKept
  <2>4. CASE mounted' = [mounted EXCEPT ![p] = task.info.target] /\ result' = TRUE
    <3>1. \A q \in Points : q # p => mounted'[q] = mounted[q]
      BY <2>4 DEF StateOK
    <3>2. p \in Points => Done("mount", p)'
      BY <2>1, <2>4
    <3>3. \A q \in Points : ~Done("umount", q)'
      BY <2>1
    <3>4. \A q \in Points : ~Done("mount", q)
      BY <2>1
    <3>5. \A q \in Points, i \in DOMAIN posts' :
            Posted(i, "umount", q)' /\ mounted'[q] # None =>
              Done("mount", q)' \/ \E j \in DOMAIN posts' : j > i /\ Posted(j, "mount", q)'
      BY <2>1, <3>1, <3>2, <3>4 DEF KeepInv
    <3>6. \A q \in Points : Succeeded("mount", q) => Succeeded("mount", q)'
      BY <2>1, <3>4 DEF Succeeded
    <3>7. p \in Points => Succeeded("mount", p)'
      BY <3>2 DEF Succeeded
    <3>8. NoForgottenMount'
      BY <2>1, <2>2, <3>1, <3>6, <3>7 DEF KeepInv, NoForgottenMount
    <3>9. QED
      BY <3>3, <3>5, <3>8 DEF KeepInv
  <2>5. QED
    BY <1>c, <2>3, <2>4 DEF Mount, Answers
<1>d. CASE Umount
  <2> DEFINE p == task.info.point
  <2>1. /\ UNCHANGED <<posts, table, failed, alive, inbox, tasks, task>> /\ task # None
        /\ task.kind = "umount" /\ pc = "umount"
    BY <1>d DEF Umount, At
  <2>2. \A q \in Points : UmountComing(q) => UmountComing(q)'
    BY <2>1, ComingKept
  <2>3. CASE mounted' = mounted /\ result' = FALSE
    BY <2>1, <2>2, <2>3, KeepKept
  <2>4. CASE mounted' = [mounted EXCEPT ![p] = None]
    <3>1. \A q \in Points : (q # p => mounted'[q] = mounted[q]) /\ (q = p => mounted'[q] = None)
      BY <2>4 DEF StateOK
    <3>2. \A q \in Points : ~Done("mount", q) /\ ~Done("mount", q)'
      BY <2>1
    <3>3. \A q \in Points : Done("umount", q)' => mounted'[q] = None
      BY <2>1, <3>1
    <3>4. \A q \in Points, i \in DOMAIN posts' :
            Posted(i, "umount", q)' /\ mounted'[q] # None =>
              Done("mount", q)' \/ \E j \in DOMAIN posts' : j > i /\ Posted(j, "mount", q)'
      BY <2>1, <3>1, <3>2 DEF KeepInv
    <3>5. \A q \in Points : Succeeded("mount", q)' = Succeeded("mount", q)
      BY <2>1, <3>2 DEF Succeeded
    <3>6. NoForgottenMount'
      BY <2>1, <2>2, <3>1, <3>5 DEF KeepInv, NoForgottenMount
    <3>7. QED
      BY <3>3, <3>4, <3>6 DEF KeepInv
  <2>5. QED
    BY <1>d, <2>3, <2>4 DEF Umount
<1>f. CASE Post
  <2>0. PICK n : n = Len(posts) + 1
    OBVIOUS
  <2>r. PICK r : r = [task |-> task, ok |-> result]
    OBVIOUS
  <2>1. /\ UNCHANGED <<table, mounted, alive, inbox, tasks>> /\ posts' = Append(posts, r)
        /\ task' = None /\ task # None /\ pc = "post"
    BY <1>f, <2>r DEF Post, At
  <2>2. r \in [task : Tasks, ok : BOOLEAN] /\ r.task = task /\ r.ok = result
    BY <2>1, <2>r DEF StateOK, FlagsOK
  <2>3. /\ \A i \in DOMAIN posts' : (i \in DOMAIN posts /\ posts'[i] = posts[i]) \/ (i = n /\ posts'[i] = r)
        /\ \A i \in DOMAIN posts : i \in DOMAIN posts' /\ posts'[i] = posts[i] /\ i < n
        /\ n \in DOMAIN posts' /\ posts'[n] = r
    BY <2>0, <2>1, <2>2, AppendElements, <1>0
  <2>4. \A p \in Points, kind \in {"mount", "umount"} : Posted(n, kind, p)' <=> Done(kind, p)
    BY <2>1, <2>2, <2>3
  <2>5. \A p \in Points : ~Done("umount", p)'
    BY <2>1
  <2>6. ASSUME NEW p \in Points, NEW i \in DOMAIN posts', Posted(i, "umount", p)', mounted'[p] # None
        PROVE  \E j \in DOMAIN posts' : j > i /\ Posted(j, "mount", p)'
    <3>1. i \in DOMAIN posts /\ posts'[i] = posts[i]
      <4>1. ~(i = n)
        BY <2>1, <2>4, <2>6 DEF KeepInv
      <4>2. QED
        BY <2>3, <4>1
    <3>2. Done("mount", p) \/ \E j \in DOMAIN posts : j > i /\ Posted(j, "mount", p)
      BY <2>1, <2>6, <3>1 DEF KeepInv
    <3>3. CASE Done("mount", p)
      <4>1. n > i
        BY <1>0, <2>3, <3>1, <2>0, ElementType
      <4>2. QED
        BY <2>3, <2>4, <3>3, <4>1
    <3>4. CASE \E j \in DOMAIN posts : j > i /\ Posted(j, "mount", p)
      BY <2>3, <3>4
    <3>5. QED
      BY <3>2, <3>3, <3>4
  <2>7. \A p \in Points : Succeeded("mount", p) => Succeeded("mount", p)'
    BY <2>3, <2>4 DEF Succeeded
  <2>8. \A p \in Points : p \in failed /\ mounted[p] # None => p \in failed'
    BY <1>f DEF Post
  <2>9. \A p \in Points : UmountComing(p) /\ mounted[p] # None => UmountComing(p)' \/ p \in failed'
    <3>1. \A p \in Points : Doing("umount", p) /\ mounted[p] # None => p \in failed'
      BY <1>f DEF Post
    <3>2. QED
      BY <2>1, <3>1 DEF UmountComing
  <2>10. NoForgottenMount'
    BY <2>1, <2>7, <2>8, <2>9 DEF KeepInv, NoForgottenMount
  <2>11. QED
    BY <2>5, <2>6, <2>10 DEF KeepInv
<1>g. ASSUME Mounted \/ Unmounted \/ TaskFailed
      PROVE  KeepInv'
  <2>0. TakesPost
    BY <1>g DEF Mounted, Unmounted, TaskFailed
  <2> DEFINE i == Head(posts).task.info
  <2>1. /\ UNCHANGED <<alive, inbox, tasks, failed, mounted, task, pc, result>>
        /\ Head(posts) = posts[1] /\ 1 \in DOMAIN posts /\ i \in UmountInfos
        /\ Head(posts).task.kind = "mount" => i \in MountInfos
    BY <2>0, PostKnown DEF TakesPost
  <2>2. i.point \in Points
    BY <2>1 DEF UmountInfos, MountInfos
  <2>3. \A p \in Points : UmountComing(p) => UmountComing(p)'
    BY <2>1, ComingKept
  <2>4. ASSUME NEW p \in Points, NEW k \in DOMAIN posts', Posted(k, "umount", p)', mounted'[p] # None
        PROVE  Done("mount", p)' \/ \E j \in DOMAIN posts' : j > k /\ Posted(j, "mount", p)'
    <3>1. k \in Nat /\ k + 1 \in DOMAIN posts /\ posts'[k] = posts[k + 1]
      BY <2>0, PostShift
    <3>2. Done("mount", p) \/ \E j \in DOMAIN posts : j > k + 1 /\ Posted(j, "mount", p)
      BY <2>1, <2>4, <3>1 DEF KeepInv
    <3>3. CASE Done("mount", p)
      BY <2>1, <3>3
    <3>4. ASSUME NEW j \in DOMAIN posts, j > k + 1, Posted(j, "mount", p)
          PROVE  j - 1 \in DOMAIN posts' /\ j - 1 > k /\ Posted(j - 1, "mount", p)'
      <4>1. j \in Nat /\ j # 1
        BY <2>0, <3>1, <3>4, PostShift
      <4>2. QED
        BY <2>0, <3>1, <3>4, <4>1, PostShift
    <3>5. QED
      BY <3>2, <3>3, <3>4
  <2>5. ASSUME NEW p \in Points, mounted[p] # None,
               table[p] # None \/ Succeeded("mount", p)
        PROVE  table'[p] # None \/ Succeeded("mount", p)'
    <3>1. CASE Done("mount", p)
      BY <2>1, <3>1 DEF Succeeded
    <3>2. ASSUME NEW j \in DOMAIN posts, j # 1, Posted(j, "mount", p)
          PROVE  Succeeded("mount", p)'
      <4>1. j - 1 \in DOMAIN posts' /\ posts'[j - 1] = posts[j]
        BY <2>0, <3>2, PostShift
      <4>2. QED
        BY <3>2, <4>1 DEF Succeeded
    <3>3. CASE Posted(1, "mount", p)
      <4>1. Mounted /\ i.point = p /\ i \in MountInfos
        BY <1>g, <2>1, <3>3 DEF Unmounted, TaskFailed, Mounted
      <4>2. table'[p] = i
        BY <2>2, <4>1 DEF Mounted, ShowMounted, StateOK
      <4>3. QED
        BY <4>1, <4>2
    <3>4. CASE table[p] # None
      <4>1. CASE Unmounted /\ i.point = p
        <5>1. Posted(1, "umount", p)
          BY <2>1, <4>1 DEF Unmounted
        <5>2. Done("mount", p) \/ \E j \in DOMAIN posts : j > 1 /\ Posted(j, "mount", p)
          BY <2>1, <2>5, <5>1 DEF KeepInv
        <5>3. QED
          BY <3>1, <3>2, <5>2
      <4>2. CASE ~(Unmounted /\ i.point = p)
        <5>1. table'[p] # None
          BY <1>g, <2>1, <2>2, <3>4, <4>2
          DEF Mounted, Unmounted, TaskFailed, ShowMounted, ShowUnmounted, StateOK
        <5>2. QED
          BY <5>1
      <4>3. QED
        BY <4>1, <4>2
    <3>5. Succeeded("mount", p) => \/ Done("mount", p) \/ Posted(1, "mount", p)
                                   \/ \E j \in DOMAIN posts : j # 1 /\ Posted(j, "mount", p)
      BY DEF Succeeded
    <3>6. QED
      BY <2>5, <3>1, <3>2, <3>3, <3>4, <3>5
  <2>6. NoForgottenMount'
    BY <2>1, <2>3, <2>5 DEF KeepInv, NoForgottenMount
  <2>7. \A p \in Points : Done("umount", p)' => mounted'[p] = None
    BY <2>1 DEF KeepInv
  <2>8. QED
    BY <2>4, <2>6, <2>7 DEF KeepInv
<1>h. CASE Die
  <2>1. ~alive' /\ posts' = << >> /\ task' = None
    BY <1>h DEF Die
  <2>2. QED
    BY <2>1 DEF KeepInv, NoForgottenMount
<1>i. CASE Start
  <2>1. /\ posts = << >> /\ task = None /\ posts' = posts /\ task' = task /\ mounted' = mounted
    BY <1>i DEF Start
  <2>2. PICK old \in {delivered, << >>}, s \in SetToSeqs(dirs) :
          inbox' = old \o inbox \o UmountAll(s)
    BY <1>i DEF Start
  <2>3. PICK u : u = UmountAll(s)
    OBVIOUS
  <2>4. PICK o : o = old \o inbox
    OBVIOUS
  <2>5. /\ u \in Seq(Commands)
        /\ \A p \in dirs : \E k \in DOMAIN u : u[k].kind = "umount" /\ u[k].point = p
    BY <2>3, UmountAllType DEF StateOK
  <2>6. o \in Seq(Commands)
    <3>1. delivered \in Seq(Commands) /\ << >> \in Seq(Commands)
      BY DEF QueuesOK
    <3>2. old \in Seq(Commands)
      BY <3>1
    <3>3. old \o inbox \in Seq(Commands)
      BY <1>0, <3>2, ConcatType
    <3>4. QED
      BY <2>4, <3>3
  <2>7. \A k \in DOMAIN u : \E j \in DOMAIN (o \o u) : (o \o u)[j] = u[k]
    <3> SUFFICES ASSUME NEW k \in DOMAIN u
                 PROVE  \E j \in DOMAIN (o \o u) : (o \o u)[j] = u[k]
      OBVIOUS
    <3>1. Len(o) + k \in DOMAIN (o \o u) /\ (o \o u)[Len(o) + k] = u[k]
      BY <2>5, <2>6
    <3>2. QED
      BY <3>1
  <2>8. \A p \in Points : mounted'[p] # None => UmountComing(p)'
    <3>1. inbox' = o \o u
      BY <2>2, <2>3, <2>4
    <3>2. \A p \in Points : mounted'[p] # None => p \in dirs
      BY <2>1
    <3>3. \A k \in DOMAIN u : \E j \in DOMAIN inbox' : inbox'[j] = u[k]
      BY <2>7, <3>1
    <3>4. \A p \in dirs : \E j \in DOMAIN inbox' : inbox'[j].kind = "umount" /\ inbox'[j].point = p
      BY <2>5, <3>3
    <3>5. QED
      BY <3>2, <3>4 DEF UmountComing
  <2>9. QED
    BY <2>1, <2>8 DEF KeepInv, NoForgottenMount
<1>e. QED
  BY <1>1, <1>2, <1>3, <1>4, <1>5, <1>6, <1>7, <1>8, <1>9, <1>10,
     <1>a, <1>b, <1>c, <1>d, <1>f, <1>g, <1>h, <1>i
  DEF Next, UserStep, MainStep, BackgroundStep

(* When commands take less than 30 seconds, whatever is mounted is in the   *)
(* table or about to enter it, or a command or a task to unmount it is on   *)
(* its way, or the process has tried to unmount it and failed.              *)
THEOREM NoMountIsForgotten == "slow" \notin Failing => (Spec => []NoForgottenMount)
<1> SUFFICES ASSUME "slow" \notin Failing
             PROVE  Spec => []NoForgottenMount
  OBVIOUS
<1>1. Init => NumberInv /\ KeepInv
  <2> SUFFICES ASSUME Init
               PROVE  NumberInv /\ KeepInv
    OBVIOUS
  <2>1. /\ tasks = << >> /\ posts = << >> /\ task = None /\ ~alive
        /\ \A p \in Points : table[p] = None
    BY DEF Init
  <2>2. \A j : ~Known(j)
    BY <2>1 DEF Known
  <2>3. NumberInv
    BY <2>1, <2>2 DEF NumberInv, EntryNotified
  <2>4. QED
    BY <2>1, <2>3 DEF KeepInv, NoForgottenMount
<1>2. TypeInv /\ NumberInv /\ KeepInv /\ [Next]_vars => KeepInv'
  BY KeepStep
<1>3. KeepInv => NoForgottenMount
  BY DEF KeepInv
<1>4. QED
  BY <1>1, <1>2, <1>3, NumberStep, TypeInvariant, PTL DEF Spec

=============================================================================
