----------------------------- MODULE MountService -----------------------------
(***************************************************************************)
(* The Android service that mounts and unmounts (MainService.java), the    *)
(* activities that command it, and the Application that unmounts what an   *)
(* earlier process left behind.  The main thread takes commands and        *)
(* results, one background thread runs the tasks in order, each root       *)
(* command is an action.  The process may die between any two of them; the *)
(* mounts, the files and the notifications stay.                           *)
(***************************************************************************)
EXTENDS Integers, FiniteSets, SequencesExt

CONSTANTS
  Points,       (* mount points, directories below the mount root          *)
  Targets,      (* directories the user mounts, none of them empty         *)
  PointOf,      (* the mount point MainActivity gives a target: its name   *)
  None,         (* no entry, no mount, no task, no target                  *)
  Failing,      (* what may go wrong unseen: see UnseenFailures            *)
  MaxEvents     (* bounds commands of the user and deaths of the process   *)

(* chmod or mkdir may exit with an error; any command may take more than   *)
(* the 30 seconds that execCommmandAsRoot waits: it then has its effect,   *)
(* but counts as failed; an asset that is there may not be opened.         *)
UnseenFailures == {"chmod", "mkdir", "slow", "asset"}

(* A mount has a number, which its notification has too.                   *)
MountInfos == [id : Nat \ {0}, point : Points, target : Targets]

(* To unmount what is not in the table, a number is not needed.            *)
UmountInfos == MountInfos \cup [id : {0}, point : Points, target : {None}]

Commands ==
  [kind : {"mount"}, point : Points, target : Targets]
  \cup [kind : {"umount"}, point : Points, target : {None}]

Tasks == [kind : {"mount"}, info : MountInfos] \cup [kind : {"umount"}, info : UmountInfos]

ASSUME MountServiceAssumption ==
  /\ IsFiniteSet(Points)
  /\ PointOf \in [Targets -> Points]
  /\ None \notin Targets /\ None \notin MountInfos /\ None \notin Tasks
  /\ Failing \subseteq UnseenFailures
  /\ MaxEvents \in Nat

VARIABLES
  inbox,       (* commands the system has not delivered                    *)
  delivered,   (* those it has, kept for redelivery                        *)
  alive,       (* the process exists                                       *)
  table,       (* mMountInfoMap                                            *)
  nextId,      (* sMountId                                                 *)
  tasks,       (* tasks the background thread has not begun                *)
  task,        (* the one it is doing                                      *)
  pc,          (* where doInBackground is                                  *)
  result,      (* its local result                                         *)
  posts,       (* results on their way to onPostExecute                    *)
  initialized, (* sIsInitialized                                           *)
  version,     (* the version file names this version of the app           *)
  binary,      (* the file of the mount command                            *)
  asset,       (* the package holds that command for this CPU              *)
  dirs,        (* mount points that exist as directories                   *)
  mounted,     (* what is mounted on each                                  *)
  shown,       (* notifications: number and mount point                    *)
  dialogs,     (* mount points of which there was ever a notification      *)
  failed,      (* mount points this process has failed to unmount          *)
  events       (* commands of the user and deaths so far                   *)

systemVars == <<inbox, delivered, alive, events>>
mainVars == <<table, nextId, shown, dialogs>>
fileVars == <<initialized, version, binary, asset>>
mountVars == <<dirs, mounted, failed>>
taskVars == <<tasks, task, pc, result, posts>>
vars == <<systemVars, mainVars, fileVars, mountVars, taskVars>>

PCs == {"init", "copy", "chmod", "version", "test", "mkdir", "mount", "umount", "rmdir", "post"}

QueuesOK ==
  /\ inbox \in Seq(Commands) /\ delivered \in Seq(Commands)
  /\ tasks \in Seq(Tasks) /\ posts \in Seq([task : Tasks, ok : BOOLEAN])

FlagsOK ==
  /\ alive \in BOOLEAN /\ result \in BOOLEAN
  /\ initialized \in BOOLEAN /\ version \in BOOLEAN /\ asset \in BOOLEAN

StateOK ==
  /\ table \in [Points -> MountInfos \cup {None}] /\ nextId \in Nat \ {0}
  /\ task \in Tasks \cup {None} /\ pc \in PCs
  /\ binary \in {"none", "partial", "copied", "ready"}
  /\ dirs \subseteq Points /\ mounted \in [Points -> Targets \cup {None}]
  /\ shown \subseteq Nat \X Points /\ dialogs \subseteq Points /\ failed \subseteq Points
  /\ events \in 0..MaxEvents

(* Every variable has its type, and only directories have something        *)
(* mounted on them: the mount point is made before it is mounted on.       *)
TypeOK ==
  /\ QueuesOK /\ FlagsOK /\ StateOK
  /\ \A p \in Points : mounted[p] # None => p \in dirs

Init ==
  /\ inbox = << >> /\ delivered = << >> /\ alive = FALSE
  /\ table = [p \in Points |-> None] /\ nextId = 1
  /\ tasks = << >> /\ task = None /\ pc = "post" /\ result = FALSE /\ posts = << >>
  /\ initialized = FALSE /\ version = FALSE /\ binary = "none" /\ asset \in BOOLEAN
  /\ dirs \in SUBSET Points /\ mounted = [p \in Points |-> None]
  /\ shown = {} /\ dialogs = {} /\ failed = {}
  /\ events = 0

-----------------------------------------------------------------------------
(* The user.                                                               *)
Sends(c) ==
  /\ alive /\ events < MaxEvents
  /\ inbox' = Append(inbox, c) /\ events' = events + 1
  /\ UNCHANGED <<delivered, alive, mainVars, fileVars, mountVars, taskVars>>

(* The button of MainActivity.                                             *)
ClickMount == \E t \in Targets : Sends([kind |-> "mount", point |-> PointOf[t], target |-> t])

(* The button of a property dialog, which may have been open for long.     *)
ClickUmount == \E p \in dialogs : Sends([kind |-> "umount", point |-> p, target |-> None])

-----------------------------------------------------------------------------
(* onStartCommand.                                                         *)
Delivers(kind) ==
  /\ alive /\ inbox # << >> /\ Head(inbox).kind = kind
  /\ inbox' = Tail(inbox)
  /\ delivered' = Append(delivered, Head(inbox))
  /\ UNCHANGED <<alive, events, table, shown, dialogs, fileVars, mountVars, task, pc, result, posts>>

Executes(kind, info) == tasks' = Append(tasks, [kind |-> kind, info |-> info])

MountCommandSameId ==
  LET cmd == Head(inbox)
  IN  /\ Delivers("mount") /\ table[cmd.point] = None
      /\ Executes("mount", [id |-> nextId, point |-> cmd.point, target |-> cmd.target])
      /\ UNCHANGED nextId

MountCommand ==
  LET cmd == Head(inbox)
  IN  /\ Delivers("mount") /\ table[cmd.point] = None
      /\ Executes("mount", [id |-> nextId, point |-> cmd.point, target |-> cmd.target])
      /\ nextId' = nextId + 1

AlreadyMounted ==
  /\ Delivers("mount") /\ table[Head(inbox).point] # None
  /\ UNCHANGED <<tasks, nextId>>

UmountCommand ==
  LET cmd == Head(inbox)
  IN  /\ Delivers("umount")
      /\ Executes("umount", IF table[cmd.point] # None THEN table[cmd.point]
                            ELSE [id |-> 0, point |-> cmd.point, target |-> None])
      /\ UNCHANGED nextId

-----------------------------------------------------------------------------
(* doInBackground: first initialize().                                     *)
NextTask ==
  /\ alive /\ task = None /\ tasks # << >>
  /\ task' = Head(tasks) /\ tasks' = Tail(tasks)
  /\ pc' = "init" /\ result' = FALSE
  /\ UNCHANGED <<systemVars, mainVars, fileVars, mountVars, posts>>

At(p) == alive /\ task # None /\ pc = p

Goes(to) == pc' = to /\ UNCHANGED <<systemVars, mainVars, mountVars, tasks, task, result, posts>>

FirstStep == IF task.kind = "mount" THEN "test" ELSE "umount"

Outdated == ~version \/ binary = "none"

CheckBinary ==
  /\ At("init")
  /\ \/ /\ initialized \/ ~Outdated
        /\ initialized' = TRUE
        /\ Goes(FirstStep)
        /\ UNCHANGED <<version, binary, asset>>
     \/ /\ ~initialized /\ Outdated
        /\ version' = FALSE /\ binary' = "none"
        /\ Goes("copy")
        /\ UNCHANGED <<initialized, asset>>

(* copyFileFromAssets opens the file before it looks for the asset.  When  *)
(* either cannot be opened (FileNotFoundException), initialize() takes it  *)
(* for an asset that is missing: it shows an error and goes on.  Any other *)
(* failure ends it.                                                        *)
NotFound ==
  /\ \/ UNCHANGED binary
     \/ (asset => "asset" \in Failing) /\ binary' = "partial"
  /\ Goes("chmod")

CopyBinaryUnchecked ==
  /\ At("copy")
  /\ \/ NotFound
     \/ asset /\ binary' \in {"copied", "partial"} /\ Goes("chmod")
  /\ UNCHANGED <<initialized, version, asset>>

CopyBinary ==
  /\ At("copy")
  /\ \/ NotFound
     \/ asset /\ binary' = "copied" /\ Goes("chmod")
     \/ asset /\ binary' = "partial" /\ Goes("post")
  /\ UNCHANGED <<initialized, version, asset>>

(* The exit status of chmod is not looked at.                              *)
ChangeMode ==
  /\ At("chmod")
  /\ \/ /\ binary' \in (IF binary = "copied" THEN {"ready"} ELSE {binary})
                     \cup (IF "chmod" \in Failing THEN {binary} ELSE {})
        /\ Goes("version")
     \/ Goes("post") /\ UNCHANGED binary
  /\ UNCHANGED <<initialized, version, asset>>

WriteVersion ==
  /\ At("version")
  /\ \/ version' = TRUE /\ initialized' = TRUE /\ Goes(FirstStep)
     \/ Goes("post") /\ UNCHANGED <<version, initialized>>
  /\ UNCHANGED <<binary, asset>>

-----------------------------------------------------------------------------
(* The rest of MountTask and UmountTask.                                   *)

(* What execCommmandAsRoot tells of a command that has worked.             *)
Answers == IF "slow" \in Failing THEN BOOLEAN ELSE {TRUE}

TestTarget ==
  /\ At("test")
  /\ result' \in BOOLEAN
  /\ pc' = IF result' THEN "mkdir" ELSE "post"
  /\ UNCHANGED <<systemVars, mainVars, fileVars, mountVars, tasks, task, posts>>

MakeDirForgotten ==
  /\ At("mkdir") /\ pc' = "mount"
  /\ UNCHANGED <<systemVars, mainVars, fileVars, mountVars, tasks, task, result, posts>>

(* When mkdir fails, result still holds what the test of the target said.  *)
MakeDir ==
  LET p == task.info.point
  IN  /\ At("mkdir")
      /\ \E ok \in {TRUE} \cup (IF "mkdir" \in Failing /\ p \notin dirs THEN {FALSE} ELSE {}) :
           /\ dirs' = IF ok THEN dirs \cup {p} ELSE dirs
           /\ pc' = IF ok THEN "mount" ELSE "post"
      /\ UNCHANGED <<systemVars, mainVars, fileVars, mounted, failed, tasks, task, result, posts>>

(* mount.fusedroid refuses a directory that is not empty, and what is      *)
(* mounted already is not.  A file that is no program does not mount, and  *)
(* one that is not there fails.                                            *)
Mount ==
  LET i == task.info
  IN  /\ At("mount")
      /\ \/ /\ binary = "ready" /\ mounted[i.point] = None
            /\ mounted' = [mounted EXCEPT ![i.point] = i.target]
            /\ result' \in Answers
         \/ /\ result' \in (IF binary \in {"ready", "none"} THEN {FALSE} ELSE BOOLEAN)
            /\ UNCHANGED mounted
      /\ pc' = "post"
      /\ UNCHANGED <<systemVars, mainVars, fileVars, dirs, failed, tasks, task, posts>>

(* The system refuses to unmount what is in use; without a root shell the  *)
(* task ends here.                                                         *)
Umount ==
  LET p == task.info.point
  IN  /\ At("umount")
      /\ \/ /\ mounted[p] # None
            /\ mounted' = [mounted EXCEPT ![p] = None]
            /\ result' \in Answers
            /\ pc' = "rmdir"
         \/ /\ result' = FALSE
            /\ pc' \in {"rmdir", "post"}
            /\ UNCHANGED mounted
      /\ UNCHANGED <<systemVars, mainVars, fileVars, dirs, failed, tasks, task, posts>>

RemoveDir ==
  LET p == task.info.point
  IN  /\ At("rmdir")
      /\ dirs' \in (IF mounted[p] = None THEN {dirs \ {p}, dirs} ELSE {dirs})
      /\ pc' = "post"
      /\ UNCHANGED <<systemVars, mainVars, fileVars, mounted, failed, tasks, task, result, posts>>

Post ==
  /\ At("post")
  /\ posts' = Append(posts, [task |-> task, ok |-> result])
  /\ task' = None
  /\ failed' = IF task.kind = "mount" THEN failed
               ELSE IF mounted[task.info.point] = None THEN failed \ {task.info.point}
               ELSE failed \cup {task.info.point}
  /\ UNCHANGED <<systemVars, mainVars, fileVars, dirs, mounted, tasks, pc, result>>

-----------------------------------------------------------------------------
(* onPostExecute.                                                          *)
TakesPost ==
  /\ alive /\ posts # << >>
  /\ posts' = Tail(posts)
  /\ UNCHANGED <<systemVars, nextId, fileVars, mountVars, tasks, task, pc, result>>

(* Cancels and posts the notification with this number.                    *)
Notify(info) ==
  /\ shown' = {n \in shown : n[1] # info.id} \cup {<<info.id, info.point>>}
  /\ dialogs' = dialogs \cup {info.point}

ShowMounted(info) == table' = [table EXCEPT ![info.point] = info] /\ Notify(info)

ShowUnmounted(info) ==
  /\ shown' = {n \in shown : n[1] # info.id}
  /\ table' = [table EXCEPT ![info.point] = None]
  /\ UNCHANGED dialogs

MountedAnyway ==
  /\ TakesPost /\ Head(posts).task.kind = "mount"
  /\ ShowMounted(Head(posts).task.info)

Mounted ==
  /\ TakesPost /\ Head(posts).ok /\ Head(posts).task.kind = "mount"
  /\ ShowMounted(Head(posts).task.info)

Unmounted ==
  /\ TakesPost /\ Head(posts).ok /\ Head(posts).task.kind = "umount"
  /\ ShowUnmounted(Head(posts).task.info)

TaskFailed == TakesPost /\ ~Head(posts).ok /\ UNCHANGED <<table, shown, dialogs>>

-----------------------------------------------------------------------------
(* Life and death of the process.  A root command that outlives it has     *)
(* ended before the next process starts.                                   *)
Die ==
  /\ alive /\ events < MaxEvents
  /\ alive' = FALSE /\ events' = events + 1
  /\ table' = [p \in Points |-> None] /\ nextId' = 1 /\ initialized' = FALSE
  /\ tasks' = << >> /\ task' = None /\ posts' = << >>
  /\ UNCHANGED <<inbox, delivered, shown, dialogs, version, binary, asset, mountVars, pc, result>>

UmountAll(s) == [i \in DOMAIN s |-> [kind |-> "umount", point |-> s[i], target |-> None]]

(* The system delivers again what START_REDELIVER_INTENT asks for, then    *)
(* what FuseDroidApplication.onCreate adds.  The app may have been updated.*)
StartLeavingMounts ==
  /\ ~alive /\ alive' = TRUE
  /\ inbox' = delivered \o inbox /\ delivered' = << >>
  /\ version' \in {version, FALSE}
  /\ failed' = {}
  /\ UNCHANGED <<events, mainVars, initialized, binary, asset, dirs, mounted, taskVars>>

Start ==
  /\ ~alive /\ alive' = TRUE
  /\ \E old \in {delivered, << >>}, s \in SetToSeqs(dirs) :
       inbox' = old \o inbox \o UmountAll(s)
  /\ delivered' = << >>
  /\ version' \in {version, FALSE}
  /\ failed' = {}
  /\ UNCHANGED <<events, mainVars, initialized, binary, asset, dirs, mounted, taskVars>>

-----------------------------------------------------------------------------
UserStep == ClickMount \/ ClickUmount

MainStep ==
  MountCommand \/ AlreadyMounted \/ UmountCommand \/ Mounted \/ Unmounted \/ TaskFailed

BackgroundStep ==
  \/ NextTask \/ CheckBinary \/ CopyBinary \/ ChangeMode \/ WriteVersion
  \/ TestTarget \/ MakeDir \/ Mount \/ Umount \/ RemoveDir \/ Post

Next == UserStep \/ MainStep \/ BackgroundStep \/ Die \/ Start

Spec == Init /\ [][Next]_vars

-----------------------------------------------------------------------------
(* The task that is being done is of this kind and about p.                *)
Doing(kind, p) == task # None /\ task.kind = kind /\ task.info.point = p

(* A task of this kind about p has succeeded, and its result is not there  *)
(* yet.                                                                    *)
Succeeded(kind, p) ==
  \/ Doing(kind, p) /\ result /\ pc \in {"rmdir", "post"}
  \/ \E i \in DOMAIN posts :
       posts[i].ok /\ posts[i].task.kind = kind /\ posts[i].task.info.point = p

(* There is a command or a task to unmount p.                              *)
UmountComing(p) ==
  \/ \E i \in DOMAIN inbox : inbox[i].kind = "umount" /\ inbox[i].point = p
  \/ \E i \in DOMAIN tasks : tasks[i].kind = "umount" /\ tasks[i].info.point = p
  \/ Doing("umount", p)

(* What the table says is mounted: unless an umount has just succeeded.    *)
(* Two commands for one mount point that both pass the check of            *)
(* onStartCommand must not put a wrong target into it.                     *)
TableTrue ==
  asset => \A p \in Points :
    table[p] # None /\ ~Succeeded("umount", p) => mounted[p] = table[p].target

(* What is mounted is in the table or on its way into it, or will be       *)
(* unmounted, or umount has failed: no mount is forgotten by the service,  *)
(* not even when its process dies and is restarted.                        *)
NoForgottenMount ==
  alive => \A p \in Points :
    mounted[p] # None =>
      table[p] # None \/ Succeeded("mount", p) \/ UmountComing(p) \/ p \in failed

(* Every mount of the table has its notification, from which alone the     *)
(* user can unmount it.                                                    *)
EntryNotified == \A p \in Points : table[p] # None => <<table[p].id, p>> \in shown

(* A version file that is up to date never stands beside a command that is *)
(* incomplete or not executable, in whatever step an earlier process died  *)
(* or failed: nobody would ever look at it again.  A command that is not   *)
(* there at all is noticed by the next process (Outdated).                 *)
InstallSafe == asset /\ version => binary \in {"none", "ready"}
=============================================================================
