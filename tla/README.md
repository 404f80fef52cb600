# Verification project for FuseDroid

FuseDroid mounts directories on Android through FUSE. It has three parts: an Android application (Java) that
mounts and unmounts on request, the daemon `mount.fusedroid` (a passthrough file system, one process per mount),
and libfuse 2.9.3, which is built into the daemon with a small patch for Android. Nearly all of the program's own
logic, and most of its concurrency, is in libfuse's `lib/fuse.c`; this project models it in TLA+, checks the models
with TLC on small instances and proves theorems about them with TLAPS. Paths below are relative to
`src/project/fuse/lib/` unless they say otherwise.

## 1. Inventory

| Component | State | Operations | What makes it correct |
|---|---|---|---|
| Node tree (`fuse.c`) | `node->parent`, `name`, `nlookup`, `refctr`; `name_table`, `id_table` | `find_node`, `remove_node`, `rename_node`, `hide_node`, `forget_node` | always a tree; one node per entry; a node lives while it is looked up or has a child |
| Path lock (`fuse.c`) | `node->treelock`, the queue `fuse->lockq` of waiting requests | `try_get_path`, `unlock_path`, `get_path*`, `get_path2`, `free_path*`, `wake_up_queued`, the wait in `forget_node` | readers and writers exclude each other; the path string stays true while it is used; no lock leaks; no lost wake-up, no deadlock |
| Node table (`fuse.c`) | two hash tables with `size`, `split`, `use`; `ctr`, `generation`; `refctr`; slabs | `rehash_*`, `remerge_*`, `node_table_*`, `hash_*`, `unhash_*`, `next_id`, `find_node`, `forget_node`, `unref_node` | every node is found at every moment of an incremental resize; node ids come back only under a new generation; no node the kernel holds is freed |
| File handlers (`fuse.c`) | `open_count`, `is_hidden`, cached stat, directory buffers | `fuse_lib_*`, `hide_node`, `fuse_do_release`, `fuse_destroy` | a file that is open survives unlink and rename under a hidden name, which the last release removes; `open_count` counts the handles |
| POSIX locks (`fuse.c`) | list of ranges per node | `locks_insert`, `fuse_lib_setlk`, `flush_common` | the list is what the granted calls say, byte by byte |
| Remember mode (`fuse.c`) | `lru_table`, one reference of the library's own per node | `set_forget_time`, `remove_node_lru`, `fuse_clean_cache`, `fuse_session_loop_remember`, prune thread | only nodes the kernel has forgotten are dropped, and all of those are on the list |
| Low-level session (`fuse_lowlevel.c`, `fuse_kernel.h`) | `got_init`, `got_destroy`, `conn`, the lists of requests, of parked interrupts and of notify requests | `fuse_ll_process_buf`, `do_*`, `fuse_reply_*`, `do_init`, `fuse_ll_destroy`, `do_interrupt`, `fuse_free_req`, notifications | each request is answered once and freed once, in the layout of the agreed version; an interrupt reaches the request it names or is answered; INIT first and once, DESTROY last and once |
| Stack of file systems (`fuse.c`, `modules/`) | `fs->op`, `fs->m`, `m->ctr`, `nullpath_ok`, `nopath`, the context's `private_data` | `fuse_fs_*`, `fuse_push_module`, `fuse_lib_init`, `fuse_fs_destroy`, `subdir_*`, `iconv_*` | a call arrives at the bottom with the right paths, and its answer at the top; no module is used after it was given back |
| Worker pool (`fuse_loop_mt.c`) | workers, `numavail`, `exit`, semaphore `finish` | `fuse_do_work`, `fuse_session_loop_mt` | always a worker reading the channel; the loop ends when the session does |
| Session, channel, signals, set-up (`fuse_session.c`, `fuse_kern_chan.c`, `fuse_loop.c`, `fuse_signals.c`, `helper.c`, `mount.c`, `mount_util.c`) | mount, descriptor, channel, session, `fuse_instance`, handlers, `/etc/mtab` | `fuse_setup_common`, `fuse_kern_mount`, `fuse_daemonize`, loops, `fuse_teardown_common`, `fuse_kern_unmount` | on every way out everything acquired is given back, once; nobody else's mount is taken away; a signal ends the loop and never kills the process first |
| Option parser, `buffer.c` | local | pure functions | results equal their definition |
| Android service (`MainService.java`) | table of mounts in memory, task queue, notifications, the installed mount command | start commands, mount and unmount tasks, shell commands with a 30 s limit | the table agrees with what is mounted; no mount is forgotten, also when the process dies |
| mount.fusedroid (`fusexmp.c`) | none; the backing directory | one system call per operation, always by path: `xmp_read` and `xmp_write` open the file anew | the path leads to the file the request is about |

**How they interact.** The process mounts, opens the channel and enters a loop (`helper.c`). The kernel writes requests to the channel. A worker of the pool reads one, the low-level layer
registers it and calls a handler of `fuse.c`. The handler locks the path(s) of the node(s) it is about (or sleeps in
`lockq`), calls the file system with the path string (through the stack of modules, if any), changes the node tree, unlocks the path, which wakes sleeping
requests, and replies. `open`, `opendir` and `create` reply first and unlock afterwards. All shared state of `fuse.c` is under the one
mutex `fuse->lock`, which is not held during the call to the file system.

**What is hard.** The locks are counters on the nodes from the requested node up to the root, and the walk that
releases them follows the parent pointers again; renames change those pointers, forgets delete nodes, both while other
requests hold paths. A queued request is retried by whoever unlocks something. Requests with two paths may keep one of
them while they wait. The list of hazards, with lines, is in `PROJECT.json`.

## 2. Modules

| Module | What it is |
|---|---|
| `NodeTree` | the tree of nodes and the operations on it |
| `PathLock` | the path lock, the queue and the handlers, on top of `NodeTree` |
| `LockTable` | abstract specification: a table of shared and exclusive locks, taken all at once |
| `PathLock_proofs` | lemmas about walks on a tree and about each operation of `NodeTree`; the inductive invariants of `PathLock` (tree, locks, wake-ups), its theorems and that it implements `LockTable` |
| `FuseFiles` | open files, hidden files and the handlers around them, in one directory |
| `FuseFiles_proofs` | the inductive invariants of `FuseFiles`, its theorems and that it implements `PosixFiles` |
| `PosixFiles` | abstract specification: names, handles, and files stored while they have a name or a handle |
| `SessionLoop` | the worker pool of `fuse_loop_mt.c`, the main thread that stops it, signals and the unmount |
| `Interrupts` | requests and INTERRUPTs, from the channel to the handler that is signalled |
| `Interrupts_proofs` | the inductive invariants of `Interrupts` and of `NodeTable`, and their theorems |
| `MountService` | the Android service: commands, background tasks, root commands, death and restart of the process |
| `MountService_proofs` | the inductive invariants of `MountService` and its theorems |
| `Protocol` | the messages of `fuse_kernel.h`: which exist in which version, and their sizes |
| `LowLevel` | the session as the channel sees it: INIT, gates, dispatch, answers, forgets, notifications, DESTROY |
| `LowLevel_proofs` | the inductive invariant of `LowLevel` and its theorems |
| `FsStack` | the stack of file systems and modules: `fuse_fs_*`, subdir, iconv |
| `FsStack_proofs` | the inductive invariants of `FsStack` and its theorems |
| `Daemon` | the life of the process from `fuse_main` to its end |
| `Daemon_proofs` | the inductive invariants of `Daemon` and of `SessionLoop`, and their theorems |
| `NodeTable` | hash tables, node ids, reference counts and the cleaning of the cache |
| `PosixLocks` | record locks of one file: what the file system grants and what the library lists |
| `PosixLocks_proofs` | the invariant of the loop of `locks_insert`, the inductive invariant of `PosixLocks` and its theorems |
| `MCPathLock`, `MCFuseFiles`, `MCSessionLoop`, `MCMountService`, `MCLowLevel`, `MCFsStack`, `MCDaemon`, `MCPosixLocks` | instances for TLC (`Interrupts` and `NodeTable` need no definitions of their own) |

### NodeTree

`parent`, `name` and `nlookup` are the fields of `struct node`. `refctr` is derived: a node is referenced once for being
looked up and once by each child, so it is alive exactly while it or a node below it is looked up (`Alive`);
`DropLookups` deletes what stops being alive, which is the cascade of `unref_node` and `delete_node`. A node id that is
not alive is free, and `FindNode` may take any of them (`next_id`). `Walk` is the loop over `node->parent`, written as a
recursive function.  A hidden name `.fuse_hidden<id><ctr>` is represented by the node itself, since no other entry has it.

### PathLock

| Action | Code |
|---|---|
| `ReceiveNode`, `ReceiveEntry`, `ReceiveRename`, `ReceiveLink` | a handler up to the return of `get_path`, `get_path_name`, `get_path_wrlock` or `get_path2`: granted, refused or queued |
| `Act` | the file system call succeeded: the handler's change to the tree (`find_node`, `remove_node`, `hide_node`, `rename_node`) |
| `Hide` | `fuse_lib_rename` hides the open file it replaces, before the rename that may still fail |
| `Reply` | `fuse_reply_open`, `fuse_reply_create`: the answer that comes before `free_path` |
| `FreePath` | `free_path`, `free_path_wrlock`, `free_path2`: unlock and start a pass over the queue |
| `WakeElement` | one iteration of `wake_up_queued`: `queue_element_wakeup` |
| `Resume` | the end of `wait_path`: the thread whose element is done leaves the queue |
| `ReceiveForget`, `ResumeForget` | `forget_node`, which waits in the same queue until its node is unlocked |

Every action is one critical section of `fuse->lock`, except that a pass over the queue takes one action per element.
`scan` is the position of the pass; while it is not 0 no other action that needs the mutex is enabled, so the pass is atomic
for everybody else. A request is `done` when its element is; done elements stay in the queue until their thread runs and
are examined again by later passes, as in the code.

*What the kernel may send.* The kernel is modelled by what the code relies on (these definitions are marked external in
the map): it names nodes it has looked up and not forgotten, keeps every node of a request until it is answered, holds the
mutex of the directories a request changes, and does not move a directory below itself. `BackingChanges` lifts the
assumption that the kernel knows every node a rename replaces: an entry that vanished from the backing directory is
negative for the kernel and may still have a node.

*Abstractions.* A path string is the function from the nodes of the path to their names. The file system call is the
choice between `Act` and leaving the tree alone. Spurious wake-ups of condition variables change nothing (the code loops) and
are left out. `add_name` and `malloc` may fail for the request kinds in `OutOfMemory`; `hash_name` does not fail. Left out: `nopath` and
`nullpath_ok` (FuseDroid sets neither, every handler locks its path), lookups of `.` and `..` (only for exported file
systems), the remember mode, and the two places where a handler takes a lookup back itself because the caller was
interrupted (`fuse_lib_create`, `reply_entry`). Node ids are reused without a generation number.

*Bounds.* `MaxLookup` bounds `nlookup`. `WaitOffset` stands for `INT_MIN`; `PathLockAssumption` asks only that it is lower
than any count of readers can reach.

### LockTable

A request acquires shared locks on the nodes of its paths and exclusive locks on the nodes it will move or remove, all in
one step, when no other request has a conflicting lock, and releases all in one step. `PathLock` maps to it with the path
strings of the requests that have been granted their paths (`SharedNodes`) and their `wnode`s (`ExclusiveNodes`). What a
queued request holds of its paths is hidden by the mapping.

### FuseFiles

mount.fusedroid keeps no file descriptors: every read and write opens the backing file by path. The handle of a user is therefore
only as good as the path of its node, and an open file that is removed or replaced has to keep one. `fuse.c` renames it to a
`.fuse_hidden` name (`hide_node`) and deletes it with the last release. The module has one directory, the root of the mount: the backing entries
(`dir`), the node of each entry (`name`, `opens` for `open_count`, `hidden` for `is_hidden`), the kernel's dentries and handles, and threads that each serve
one request. Every critical section of `fuse->lock` and every file system call is an action, so two requests interleave wherever they can in the
code. The path lock is an instance of `LockTable`, which `PathLock` implements.

| Action | Code |
|---|---|
| `GrantFile`, `GrantDir` | `get_path`, `get_path_nullok`; `get_path_name`, `get_path_wrlock`, `get_path2` |
| `Check` | `is_open` in `fuse_lib_unlink` and `fuse_lib_rename` |
| `Hide`, `HideNode` | `hidden_name` with the rename of `hide_node`; `rename_node` with `hide = 1` |
| `FsUnlink`, `FsRename`, `FsMknod`, `FsGetattr`, `FsOpen`, `FsUse` | the handlers' calls into the file system, which are `XmpUnlink`, `XmpRename`, `XmpMknod`, `Exists`, `XmpRead` of mount.fusedroid |
| `ChangeTable` | `find_node` (in `lookup_path`), `remove_node`, `rename_node` after the call |
| `CountOpen`, `ReplyOpen` | `open_count++` and `fuse_reply_open` in `fuse_lib_open`; ENOENT (the caller was interrupted) leads to `fuse_do_release` |
| `DropOpen`, `EraseHidden` | `fuse_do_release` under the mutex, and its unlink after it |
| `Finish` | `free_path` and the answer; `reply_entry` forgets the node again when the caller was interrupted |
| `Forget`, `Destroy` | `forget_node`; `fuse_destroy` |

*The kernel* (external) holds the directory's mutex while it looks up or changes an entry, but not when it asks again for an entry whose time is up
(`SendRevalidate`; `PathLock` has no such lookups). It sends a release when nobody uses the handle any more and forgets a node that no dentry, handle or request is for. `OpenRaces = FALSE` takes from it
that an open of a file overlaps a removal or replacement of the same file. The Linux kernel does not promise that; with it, `UseReachesFile` fails (finding 5), and everything else about
this module is checked and stated without it, but that `open_count` is exact, which is proved for both. `O_CREAT` reaches the daemon as mknod and open: mount.fusedroid has no create, and `fuse_lib_create` answers ENOSYS before it has any effect.

*Abstractions.* A hidden name that `hidden_name` finds is one that no node and no file has; its ten attempts are one action, and giving up is a failure of
`"hide"`. `Failing` lists the calls that may fail for no reason the model knows. Unlinking a hidden file may fail unnoticed (the result is dropped, 3102); then it is left behind, so
`HiddenWillGo` is checked without `"erase"`. Left out: hard links (a linked open file would keep its other name), users that name hidden files
themselves, hidden files left by an earlier process, directories, negative dentries, changes of the backing directory by others, failing `malloc`.

### PosixFiles

Files that exist while they have a name or a handle, names that are made, removed and moved in one step, and handles that stay on the file they were opened on. `FuseFiles` implements
it with the users' names as entries and *all* backing names, hidden ones included, as what is stored: no file that is open is deleted, and every change of a visible
name is one the users asked for. An identity of a file may be used again once the file is deleted.

### SessionLoop

| Action | Code |
|---|---|
| `LoopHead`, `ReadRequest`, `ReadInterrupted`, `ReadNoDevice`, `ReadFails`, `ReadCancelled` | the head of the loop in `fuse_do_work` and the outcomes of `fuse_kern_chan_receive` |
| `Got`, `Finish` | the two critical sections of `mt->lock` around `fuse_session_process_buf`; `StartsWorker` is `fuse_loop_start_thread` |
| `Leave` | `sem_post(&mt->finish)` |
| `StartLoop`, `MainChecks`, `SemWait`, `StopWorkers`, `JoinWorker`, `LoopReturns` | `fuse_session_loop_mt` |
| `Teardown` | `fuse_teardown_common` |
| `TermSignal`, `Unmount` | `exit_handler` in the main thread; a umount from outside |

`list` is the linked list of workers as a set; a worker that detaches or is joined becomes `free` and may be created again.
Creating a thread fails exactly when all of `Workers` exist. `MaxAvail` is the 10 of the code. `WakeUp` chooses between the
`pthread_cancel` of the sources and the `pthread_kill(SIGUSR1)` that `src/project/mount.fusedroid/patches/` puts in its
place on Android, where nobody handles that signal (the mount command has no `-o intr`). A request is only known to be a
FORGET or not; what its handler does is the subject of `PathLock`. A signal that interrupts `sem_wait` and one that
arrives just before it blocks are the two outcomes of `TermSignal`. Left out: the cleanup thread (remember mode), thread
attributes, `numworker` (never read).

### Interrupts

A request is named by its `unique` number. `ctr` is 0 when the object `struct fuse_req` does not exist; `list` and `interrupts` are the
two lists of `struct fuse_ll`, the second a sequence because its head is what `check_interrupt` sends back.

| Action | Code |
|---|---|
| `SendRequest`, `SendInterrupt` | a worker has read a message and allocated its request |
| `AskInterrupt` | the kernel wants a request interrupted (once; it repeats only what comes back with EAGAIN) |
| `Begin`, `Bounce` | `check_interrupt` with `list_add_req` under one hold of `f->lock`; then `fuse_reply_err(intr, EAGAIN)` |
| `Refuse` | the handler does not get its path and answers with an error |
| `Prepare`, `SetFinished`, `Unregister` | `fuse_do_prepare_interrupt`, and the two halves of `fuse_do_finish_interrupt` |
| `CallBlocks`, `CallReturns` | the file system's operation, which may or may not block |
| `Reply`, `FreeReq` | `send_reply` and `fuse_free_req` |
| `Find`, `Flag`, `UnlockReq`, `DropRef` | `do_interrupt` and `find_interrupted`, with their "ugly locking" |
| `Signal`, `SignalEnds` | the loop of `fuse_interrupt` |

`Flag` keeps `req->lock` until `UnlockReq`, and `Prepare` and `Unregister` wait for it. The kernel (external) gives each request one number,
drops an INTERRUPT it has not delivered when the request is answered, and queues one again that comes back with EAGAIN. A signal ends a
blocking call and has no other effect. The model describes a mount with `-o intr`; FuseDroid's command does not pass it, and then `func` is never
set and `Prepare` to `Unregister` do nothing. Requests refused before they are listed, and failures of `calloc`, are in `LowLevel`.

### MountService

One action per thing that can happen between two others on the device. The main thread handles a command (`MountCommand`,
`AlreadyMounted`, `UmountCommand`) or a result (`Mounted`, `Unmounted`, `TaskFailed`); one background thread (the serial executor of
`AsyncTask`) works through `tasks`, each root command being an action: those of `initialize` (`CheckBinary` to `WriteVersion`), then
`TestTarget`, `MakeDir`, `Mount` or `Umount`, `RemoveDir`, and `Post`, which hands the result to the main thread. What is on the main thread's way
(`inbox`, `posts`) and what the background thread still has are sequences. `table` is `mMountInfoMap`, `shown` the notifications, with the numbers
that replace each other.

`Die` loses the memory of the process, not the mounts, files and notifications. `Start` delivers again what was delivered before
(`START_REDELIVER_INTENT`; or nothing, when the system had given up on the service), what was still waiting, and the unmounts that
`FuseDroidApplication.onCreate` asks for, one for each directory of the mount root. The app may have been updated meanwhile.

`Failing` says what may go wrong in ways the code does not see: `chmod` or `mkdir` exits with an error, a command takes longer than the 30
seconds that `execCommmandAsRoot` waits, or an asset that is there cannot be opened. All other failures are always possible: the file for the copy cannot be opened (`NotFound`), copying fails half-way, no root shell, a target
that is no directory, a mount refused, an unmount of a busy mount, a directory that cannot be removed.

Assumed of the system: a directory with something mounted on it is not empty, so `mount.fusedroid` refuses to mount on it again (`fuse_mnt_check_empty`,
`mount_util.c`, 303) and rmdir fails; a root command that outlives its process has ended before the next process starts;
tasks run one at a time (Android 3.0 and later).

### Protocol and LowLevel

`Protocol` has the two sides' common ground: the opcodes with the minor version of protocol 7 that brought each, and the sizes in bytes of the structures
in front of a request's names and data (`InSize`) and in an answer (`OutSize`), for every minor version. They are written from `fuse_kernel.h`. What the library
reads and sends is written from `fuse_lowlevel.c` (`DataAt`, `ReadsTo`, `Successes`), so that `SpeaksVersion` compares two descriptions of one layout.

| Action | Code |
|---|---|
| `SendInit`, `SendRequest`, `SendForget`, `SendDestroy` | the kernel (external) |
| `Read`, `Refuse`, `Admit` | `fuse_ll_process_buf`: the allocation and its failure, the gate (`GateError`), `list_add_req` |
| `LeftOut`, `Call`, `FsReplies` | a `do_*` handler without the operation; with it; the file system's `fuse_reply_*` |
| `Forget` | `do_forget`, `do_batch_forget`: `forget_multi`, or `forget` entry by entry (`Callee`) |
| `OtherMajor`, `Negotiate`, `InitReplies` | `do_init`: a newer major, the agreement, `op.init` and the reply |
| `Destroy`, `DestroyReplies`, `EndSession` | `do_destroy`; `fuse_ll_destroy` (`DestroyDue`) |
| `Notify`, `Retrieve`, `SendRetrieve`, `UndoRetrieve` | `fuse_lowlevel_notify_*`; the three steps of `fuse_lowlevel_notify_retrieve` |
| `NotifyReply`, `Retrieved` | `do_notify_reply` with the list of notify requests, `fuse_ll_retrieve_reply` |

A daemon is a record: its operations, options (with and without a capability), the size of a pointer and of the buffer, whether `malloc` may fail, and the kernels it meets. Data are
sizes. Left out: splice (the Android build has none), both of reply data and of requests, whose pipe has ways out of `fuse_ll_process_buf` of its own, one of them without any answer (2336-2345, 2413-2430); the `fuse_chan` plumbing, INTERRUPT (its own module), unions of directory entries.
The branch "unmatched notify reply" of `fuse_ll_process_buf` is unreachable in the model: the kernel answers a retrieve that was sent, and a sent one is listed.

*Bounds.* Two workers and three requests let one request be served while another is read and a third answered. The kernels are those of the minor versions at which a message changed, plus one newer than
the library; `KernelMajors` has an older and a newer major. `Racing` limits which requests come while another is served, since most differ by their sizes only: one is enough there.

### FsStack

A path is a sequence of names and a link is [abs, up, names]. `Enter` is a `fuse_fs_*` wrapper (the context's data, the choice between a newer and an older operation, the default answer), `Body` is a function
of `subdir.c` or `iconv.c` on the way down, `Bottom` the call of the file system, `Back` what a module does to the answer. `Push`, `PushFails`, `Start`, `Stop`, `GivenBack` are `fuse_push_module`, the failure
inside `fuse_new_common`, `fuse_lib_init`, `fuse_destroy`, `fuse_put_module`. An encoding is a one-to-one function of names that may be undefined on some; the mutex of iconv makes a
conversion one step. `subdir` and `iconv` do not have `ioctl`, `poll` and `fallocate` among their operations, so a stack hides them (`Hidden` in `CallsArrive`).
A base that cannot be converted makes every path fail (`BaseFails`). `TooLong` are the links that do not fit the buffer of a readlink: one set for the check of `transform_symlink` and for the cut of `iconv_readlink`, which is made between two names only; the links at the bottom fit.
`LinkBack` and `NamesBack` are sets, since memory for a conversion may run out at each name and link; `short` in an answer says that iconv left out a name or cut a link. `StackAssumption` says what the constants are: paths are sequences of `Names`, `Null` is none of them, links come without leading `..`, an encoding is one-to-one.

*Bounds.* The nine stacks have each module alone with every option, both orders of two different ones, and two subdirs; the paths have one and two names, the link targets up to three; `Long` has relative forms of two names and an absolute link of three, so that subdir leaves links alone and iconv cuts some.

### Daemon

`pc` is the place of the main thread; one action per step that acquires, gives back or may fail:

| Action | Code |
|---|---|
| `MountRefused`, `MountHelp`, `OpenDevice` | `fuse_parse_cmdline`, `fuse_mount_common`, `fuse_kern_mount` up to the device |
| `MountSys`, `MountSysFails`, `AddMount`, `UndoMount` | `fuse_mount_sys`, with `fuse_mnt_add_mount` and `out_umount` |
| `Fusermount`, `FusermountFails`, `FusermountNotRun` | `fuse_mount_fusermount`, tried again without subtype; no memory for its options, which leaves -2 as descriptor |
| `NewChannel`, `NewFails`, `NewFailsLate`, `New` | `fuse_kern_chan_new`, `fuse_new_common` failing before or after the session has adopted the channel |
| `Daemonize`, `SetSignalHandlers`, `RemoveSignalHandlers` | `fuse_daemonize`, `fuse_signals.c` |
| `Start`, `CheckExited`, `EnterRead`, `Receive*`, `Poll*` | `fuse_session_loop`, `fuse_session_loop_remember`, `fuse_kern_chan_receive` |
| `ClearFd`, `Poll`, `Umount`, `FreeChannel`, `Destroy` | `fuse_unmount_common`, `fuse_kern_unmount`, `fuse_chan_destroy`, `fuse_destroy` |
| `Signal`, `OtherMounts`, `OtherUnmounts`, `HelperUnmounts` | a signal at any moment; other processes; fusermount with `auto_unmount` |

`mounts` is the stack of what is mounted at the mount point. `fd` is the device, the standard input after finding 8, or the -2 of finding 15 (`"invalid"`), on which a read fails and a poll waits (`Waits`). `wrong` records a use after free or a second close. The read of the channel is entered in a step of its own, so a signal
may come before it, where it does not interrupt it, or in it. The multithreaded loop is in `SessionLoop`. The strings of options, of `/etc/mtab` and of messages are left out; so is `mount_bsd.c`.

*Bounds.* `MaxMounts` 2: one mount of others below or above. Every set of failures can happen together (`Failing` has all of them but `"umount"`). The instance has every command line but `-h` together with a mount point (finding 8).

### NodeTable

`NodeTree` says what names and counts mean; here is how they are stored. A node has its name, parent, `nlookup` and `refctr`; a table has its buckets, `size`, `split` and `use`; a chain is a set. The hash functions are the code's,
modulo the table size, on small numbers; the factor of `id_hash` is a constant (`HashFactor`). `unref_node` and `delete_node` call each other: `Doomed` are the nodes that go, `Unnamed` and `Dropped` what is left of the tables as they do, from the node up and back. Every handler's part under `f->lock` is an action: `FindOld`, `FindNew`, `FindFails` (`find_node`), `FindDot` (a lookup of `.`), `Forget`, `RemoveName`, `Rename`, `Clean` (`fuse_clean_cache`, for any
number of nodes whose time is over, one round of its loop after the other: `Prune`, `Pruned`). Growing fails when there is no memory. `Piecemeal` and `Behind` say in which modes the kernel may give back references one by one, or a name may go that the kernel did not
look up; where the code's asserts fail then is finding 10. The pages of the slab allocator are left out: a node is there or is not.

*Bounds.* `MinSize` 4 (8192 in the code) and `MergeSteps` 1 (8) let a table of four nodes double, split in the middle of inserts, merge and halve; `IdLimit` 6 lets ids wrap around while nodes are in use, `MaxWraps` 1 is the bound on generations.

### PosixLocks

`SetLock` and `Flush` are the call into the file system of `fuse_lib_setlk`, `fuse_lib_flush` and `fuse_lib_release`, which is not under `f->lock`; `List` is `locks_insert` under it. `LocksInsert` is the loop of `locks_insert`, a recursive function of the number of rounds,
`held` is what the file system grants, byte by byte. The unlock of a close may fail (`FlushFails`); `kept` is a history variable, the owners whose last close did not release their locks. The thread of each owner serves one request at a time (finding 11).

*Bounds.* Three bytes are the least on which a lock can be split with a part left on each side; two owners give conflicts and interleavings. TLC also checked four bytes, where both parts can lie apart from a neighbour, without failing unlocks (3.6 million states).

## 3. Runs

| Run | Instance | Shows |
|---|---|---|
| `path_lock` | 2 threads, tree root/x/x, 2 names, all request kinds, `nlookup` up to 2; 631,000 states | `LockAccounting`, `PathsStay`, `NodesOutliveRequests`, `DeletedNodesUnlocked`, `ImplementsLockTable` |
| `path_lock_live` | 3 threads; open (malloc may fail), rename and forget in directories that stay where they are; fair; 10,700 states | `NoLostWakeup`, `WaitersAnswered` |
| `path_lock_deadlock` | as before, but the directory itself can be renamed | `WaitersAnswered` is violated |
| `session_loop` | 4 workers, `MaxAvail` 2, requests, FORGETs, read errors, signals, an unmount; fair; 126,000 states | `ReaderLeft`, `NoWorkerAtReturn`, `UnmountEndsLoop` |
| `interrupts` | 2 requests, 3 threads, fair; 78,000 states | `CalleeIsThere`, `InterruptKept`, `InterrupterReturns` |
| `low_level` | 2 workers, 3 requests, 1 retrieve, 4 daemons, kernels 7.3 to 7.23 and other majors; symmetric; 508,000 states | `OneAnswer`, `ForgetsArrive`, `SpeaksVersion`, `Agreed`, `FsLifetime`, `RetrieveMatched` |
| `fuse_files` | 2 threads, 2 names, 2 hidden names, 3 nodes, 2 files, 2 handles; every call may fail but the unlink of a hidden file; symmetric; 385,000 states | `UseReachesFile`, `HiddenWillGo`, `ImplementsPosix` |
| `fs_stack` | 3 file systems, 9 stacks, every operation, failures, links too long for the buffer; 463,000 states | `CallsArrive`, `AnswersComeBack`, `WithinAbilities`, `ModulesCounted` |
| `daemon` | all command lines, 2 signals, every step of the set-up may fail, at most 2 mounts; fair; 135,000 states | `MountGone`, `ReleasedOnce`, `ServingSurvives`, `OthersStay`, `UnmountEndsProcess` |
| `node_table` | up to 4 nodes, 2 names, tables of 4 and 8 buckets, 5 ids and 2 generations, all three modes; 311,000 states | `EveryNodeFound`, `KernelNodesStay`, `LruIsUnused`, `IdsNeverReturn` |
| `posix_locks` | 2 owners, a file of 3 bytes, unlocks that fail at a close; symmetric; 858,000 states | `ListFollowsFs`, `GetlkAgrees` |
| `mount_service` | 2 mount points, 3 targets of which 2 share a mount point, 3 commands or deaths; 13.3 million states | `TableTrue`, `NoForgottenMount`, `InstallSafe` |

- `LockAccounting`: each counter is the number of paths held through the node, possibly with `WaitOffset` added, or -1 with
  exactly one writer. It implies all asserts of `unlock_path`.
- `PathsStay`: while a path is held, the string names the nodes it named when it was built.
- `NodesOutliveRequests`: `get_node` finds the nodes of a request until the request ends, early replies or not.
- `DeletedNodesUnlocked`: the assert of `delete_node`.
- `ImplementsLockTable`: the refinement of `LockTable`.
- `NoLostWakeup`: whenever the mutex is free, a sleeping request could not get its path by trying.
- `WaitersAnswered`: a queued request is answered in the end.
- `ReaderLeft`: while the loop serves, there is a worker that is not busy with a request other than FORGET, unless no thread can be created.
- `NoWorkerAtReturn`: no thread is left when `mt` goes out of scope.
- `UnmountEndsLoop`: after an unmount the process leaves the loop and finishes.
- `CalleeIsThere`: who is being signalled is still inside the handler of the request that is meant.
- `InterruptKept`: until the answer, the wish to interrupt is somewhere: with the kernel, parked, carried by a thread, or marked.
- `InterrupterReturns`: the thread that signals gets away in the end.
- `OneAnswer`: a request that waits for its answer is in exactly one place, and one that nobody serves is not left on `f->list`, on every error path of a request that was read into memory (the pipe's are left out with splice).
- `ForgetsArrive`: references in single and batched forgets reach a file system that has `forget` one for one.
- `SpeaksVersion`: both sides lay out a message of the agreed version in the same way, no handler reads further than the structure the kernel sent, but for finding 7a, and a notification that is sent from some version on is known to the kernel from that version of the header's changelog on.
- `Agreed`: a negotiation succeeds unless memory runs out or the kernel's major version is older (finding 13), with which no session starts; then a write fits into the channel's buffer and the tunables into 16 bits.
- `FsLifetime`: no operation is called before the one `init` has returned, none that is answered after the one `destroy` has begun, whether the kernel sends DESTROY or not. Forgets and replies to retrieves, which the kernel does not wait for, may come after it (finding 14).
- `RetrieveMatched`: an answer to a retrieve finds its request, which is taken off the list by the answer or by the failed sender, never by both.
- `UseReachesFile`: a read or write reaches the file that was opened, whatever happened to its name.
- `HiddenWillGo`: a hidden file belongs to an open node that is marked, so that the last release or `fuse_destroy` deletes it.
- `ImplementsPosix`: the refinement of `PosixFiles`.
- `CallsArrive`: a request reaches the file system once, with all its paths below the bases and converted, and with the layer's own data.
- `AnswersComeBack`: a link that was made relative leads in the mount to the very file its target names below, unless iconv cut it; a target below the base stays absolute only if it lies below the link itself or its relative form does not fit; a directory lists what has a name, all of it unless iconv had no memory.
- `WithinAbilities`: no call without a path for a file system that needs it, no capability offered that it has no operation for.
- `ModulesCounted`: a module is counted exactly as often as layers use it, also when one pushed later fails.
- `MountGone`: at the end of `fuse_main` the process has nothing mounted, if umount works.
- `ReleasedOnce`: nothing is used after it was freed or closed twice, and nothing is left, but for finding 7b.
- `ServingSurvives`: from the end of the set-up no signal kills the process, also in the teardown.
- `OthersStay`: the process takes a mount of others away only if its own vanished after it had looked (the POLLERR of `fuse_kern_unmount`), but for the closed descriptor of finding 7b and the -2 of finding 15.
- `UnmountEndsProcess`: when somebody else unmounts the file system, the process ends, unless it polls the -2 of finding 15.
- `EveryNodeFound`: at every moment a table holds exactly the nodes it should, each in the bucket its hash selects.
- `KernelNodesStay`: no node the kernel holds is gone, and no assert fails.
- `LruIsUnused`: the list of remember mode is exactly the nodes the kernel has forgotten.
- `IdsNeverReturn`: a node id comes back only under a later generation.
- `ListFollowsFs`: what the library lists of an owner without a request under way is what the file system granted, byte by byte; it may lack, and never exceeds, what the file system kept when its unlock failed at a close (finding 11).
- `GetlkAgrees`: F_GETLK finds a conflict in the list exactly when the file system has one, but for locks kept at a close, and reports a lock that somebody really holds.
- `TableTrue`: an entry of the table names what is mounted there, unless an unmount has just succeeded.
- `NoForgottenMount`: while the process lives, what is mounted is in the table or about to enter it, or a command or task to unmount it is on its way,
  or the process has tried and failed to unmount it (and has said so).
- `InstallSafe`: beside an up-to-date version file the mount command is never incomplete or not executable. It may be missing (finding 12), which the next process notices.

The modules define a few more invariants that no run lists: those that a theorem states for all constants (every `TypeOK`, the `TableTypeOK` of `NodeTable`, `Acyclic`, `AvailCount`, `PoolBounded`, `ExitFreezesPool`,
`CounterIsUsers`, `ParkedNotListed`, `EntryNotified`, `OpenCountExact`, `VisibleStays`), and `OnlyFirstPartiallyLocked`, which holds when it is added to `PathLockLive.cfg`.

*Why these bounds.* A path of two nodes below the root has a node that is read-locked from below and one that is
write-locked at its end; two threads give every pair of handlers in every order, with one of them in the queue, and
renames can replace, exchange levels and hide. The third thread of the fair instances gives a queue of two with a
holder outside it, the smallest in which order in the queue and the privilege of the first element matter; there the request
kinds are cut down to those that can block each other. With four or more threads a queue has more than one element that is not
first, and these are treated alike.

In `FuseFiles` two threads interleave every pair of requests at every critical section and call; two handles let a file be open twice, two names
allow a rename over an open file, two hidden names allow both to be hidden, and a third node is for the file that is made under a name whose old file is still hidden. Threads, nodes, names, hidden names, files and handles
are used symmetrically (only equality and `CHOOSE` of the one node with a name), and no property is about liveness.

In `SessionLoop` four workers with two that may be available let the pool grow, shrink by detaching, run out of threads and be
stopped with workers in every position; a fifth would only repeat the position of another.

In `Interrupts` two requests and three threads let one INTERRUPT be parked too late (after the answer of its request) and come back through
the other request, and let two threads interrupt or serve while a third goes on to its next request.

The bounds of the other modules are with them in section 2. In `MountService` three events give two mounts racing for one mount point with an unmount, or a mount, a death and what the restart does, with
another command or a second death in between. No property needs fairness: they are all about what may have been lost or mixed up.

*Fairness.* The running pass goes on (`WakeElement`: a loop that holds the mutex). A file system call returns and a reply is
sent, so `Reply` and `FreePath` happen in the end; `FreePath`, `Resume` and `ResumeForget` need the mutex, which passes of other
threads take again and again, so they get strong fairness: a thread that blocks on a mutex or was signalled gets the mutex
in the end. Nothing is assumed about new requests or about the file system call succeeding.

In `SessionLoop` threads are scheduled (weak fairness: `mt->lock` is held for a few instructions and nobody waits under it), handlers
return, a read that fails or is cancelled returns. No request, signal or unmount is bound to come, so a blocked read may stay blocked.

In `Interrupts` the steps between messages are weakly fair, and so are the repeated signals. A call that blocks may stay blocked
(`CallReturns` is not fair): only a signal is sure to end it.

In `Daemon` the main thread is weakly fair: its next step happens unless it sits in a read or poll that waits for the kernel. A device whose file system is unmounted lets neither wait. `LowLevel`, `FsStack`, `NodeTable` and `PosixLocks`
have no liveness properties.

*Deadlock checking* is off where the system may really stop: in `path_lock_deadlock` and in `path_lock_live`, where nothing
brings back what the kernel has forgotten; in `FuseFiles`, `SessionLoop` and `Daemon`, where the process ends; in `Interrupts`, `MountService` and `LowLevel`, where everything that was sent
has been dealt with; in `FsStack`, where the stack is gone; in `NodeTable`, where an abort or the bounded generations end it.

### Findings

With a run:

1. **Two-path requests can deadlock** (`path_lock_deadlock`). The first element of the queue may keep one path locked
   (1068-1076), meant to prevent starvation. A rename inside directory d whose first path is refused, because a getattr holds the file, keeps its
   second path, a read lock on d, while it waits. A writer of d then adds `TREELOCK_WAIT_OFFSET`; when the file is free again, the rename's first path is
   refused on d for as long as d has a reader, which is the rename's own second path.

Without a run of its own; each is an outcome of the models, with the change to a configuration that shows it (add `CHECK_DEADLOCK FALSE` and take out the other properties):

2. **A forget can delete a locked ancestor.** `forget_node` waits for its own node only; `unref_node`
   then deletes the parent although a rename holds it write-locked, against the assert in `delete_node` (794). It needs an
   entry that vanished from the backing directory, which a passthrough mount of a live directory allows. (`PathLock.cfg` with `BackingChanges = TRUE`, `Nodes = {root, d, a, b}`, `InitParent <- VanishParent`, `Ops <- VanishOps`;
   `DeletedNodesUnlocked`.)
3. **A queue element that has failed can lock a path and lose the lock.** `queue_element_wakeup` does not look at `qe->done`. A rename that failed with ENOMEM
   and has not run yet is examined again by the next pass; as first element it may get and keep one path, and then returns its error without unlocking. The nodes of that path stay locked: writers, and
   forgets, wait for ever. (`PathLock.cfg` with three threads, renames and opens as `Ops`, and `OutOfMemory = {"rename"}`; `LockAccounting`.)
4. **On Android a signal kills the daemon without unmounting.** The patch stops the workers with SIGUSR1, which
   nobody handles, so the process dies in `fuse_session_loop_mt` and the promise of `fuse.h` (628) is not kept. (`SessionLoop.cfg` with `WakeUp = "signal"`; `UnmountedAtEnd`.)
   Also between the check of the exited flag and `sem_wait` (`fuse_loop_mt.c`, 241-242) a SIGTERM only sets the flag, against "Exit session on HUP, TERM and INT signals" (`fuse_common.h`, 447); the loop ends when the
   next request wakes a worker. The single-threaded loop has the same window between its check and its read (`EnterRead` of `Daemon`).
5. **An open that overlaps a removal can lose its file.** `fuse_lib_open` opens the file and counts the open in two steps. A file that is open
   already is hidden by an unlink in between; when the other handle's release then finds `open_count` 1, it deletes the hidden file, and the open is answered with a handle
   whose reads and writes find nothing. (`FuseFiles.cfg` with `OpenRaces = TRUE`; `UseReachesFile`.)
6. **An early interrupt is forgotten.** When the request is marked before its handler registers, `fuse_req_interrupt_func` calls
   `fuse_interrupt` in the handler's own thread, which returns at once (`fuse.c`, 1416), and no signal is ever sent. The documentation says that
   interrupts cannot be lost. `InterruptKept` shows that none gets lost before that point. (`Interrupts.cfg`; `InterruptedEnds`.)
7. **Exceptions the properties name.** (a) `do_setlk_common` reads `lk_flags`, which kernels before 7.9 do not send: it reads past the message (`ReadsBeyond` in `SpeaksVersion`).
   (b) When `fuse_new_common` fails after `fuse_session_add_chan` - no memory for a table, an `intr_signal` that is none - it destroys the session and with it the channel, and `err_unmount` of
   `fuse_setup_common` goes on to use and destroy the freed channel (`ReleasedOnce`). The `fuse_kern_unmount` it calls polls the closed descriptor, which gives POLLNVAL and not POLLERR, and unmounts what is on top,
   whose ever it is (`Late` in `OthersStay`). (c) When `fuse_ll_process_buf` has no memory for a reply to a retrieve (2360-2373) the notify request stays on the list for ever
   (`settings.oom` in `RetrieveMatched`). (d) `transform_symlink` leaves a link to the base directory itself absolute, since the base it compares with ends in a slash (`IsStrictPrefix` in `AnswersComeBack`), and
   a link whose relative form does not fit the buffer (`subdir.c`, 137-139). (e) When `malloc` fails in `iconv_convpath`, `iconv_dir_fill` leaves the entry out and `readdir` succeeds (`iconv.c`, 178-182); a link that is longer in the users' character set than the
   buffer is cut (150) and leads elsewhere (`short` in `AnswersComeBack`).
8. **`prog mountpoint -h` unmounts what is mounted there.** `fuse_kern_mount` returns 0 for help, which is then taken for the device: the process closes its stdin and unmounts the mount point. (A command line with `help` and `mountpoint` in
   `Daemon`; `OthersStay`. `NoHelpMount` in the proofs excludes it.)
9. **Handlers are not restored, errno is compared with a negative number.** `fuse_remove_signal_handlers` is documented to "Restore default signal handlers" (`fuse_common.h`, 457-465), but `set_one_signal_handler` installs one only where the old one is the
   default; `ServingSurvives` shows the good side of that. `fuse_session_loop_remember` compares `errno` with `-EINTR` (4280), so that any handled signal ends the loop (`PollInterrupted`).
10. **Remember mode does not fit all forgets.** There a removal gives back a reference of the library (`unlink_node`, which asserts `nlookup > 1`). A kernel that then gives back its references in more than one FORGET, as
    `fuse_lowlevel.h` allows, makes `forget_node` delete the node at the first; the second aborts in `get_node`. A name that the kernel has forgotten and that goes behind its back (a rename onto it) hits the assert. (`NodeTable.cfg` with `"remember"` in
    `Piecemeal`, or in `Behind`; `KernelNodesStay`.)
11. **The list of locks may differ from the file system's.** Two requests of one owner (threads of one process) may be recorded in the other order (`PosixLocks.cfg` with `OwnerOf <- SharedOwner` and without symmetry), and -ENOLCK of `locks_insert` is not looked at
    (`NoMemory = TRUE`); `ListFollowsFs` in both cases. And `fuse_flush_common` takes the owner's locks off the list whenever the file system's unlock returns anything but -ENOSYS (3845), also when it
    failed: the file system keeps the locks and F_GETLK finds none in the list. This is in the run (`FlushFails`), and `kept` in the properties names it.
12. **A mount that failed is shown as mounted.** When `mkdir` of the mount point fails, `MountTask` returns the result of the earlier test of the target, which was true
    (`MainService.java`, 363 and 393). (`MountService.cfg` with `Failing = {"mkdir"}`; `TableTrue`.)
    The exit status of `chmod` is not looked at (142), so that a refused root shell at the first start leaves a version
    file for a command that cannot run, which is not repaired until the app is updated (`InstallSafe` fails with `Failing = {"chmod"}`); and after a mount that took longer than
    30 s the directory is mounted and not in the table (`NoForgottenMount` fails with `Failing = {"slow"}`; the code marks the limit as temporary). Unmounting before the mount's
    result has come uses notification number 0 (85), so the notification of that mount stays.
    A file that cannot be opened for the copy of the command (`new FileOutputStream`, 188) throws the same exception as a missing asset (134): the user reads that the CPU is not supported, and the version file is
    written for a command that is not there. Every mount then fails until the process ends; the next one sees that the command is missing (112). When an asset that is there cannot be opened, an empty command stays until the app is
    updated (`InstallSafe` fails with `Failing = {"asset"}`).
13. **An older major version is refused.** "If the library supports a larger major version, then it shall fall back to the major protocol version sent by the kernel" (`fuse_kernel.h`, 112-115); `do_init` answers EPROTO (`fuse_lowlevel.c`, 1760-1765).
    (`LowLevel.cfg` has one of major 6; take `Older` out of `Agreed`.)
14. **Forgets may come after `destroy`.** The kernel does not wait for forgets and retrieve replies before DESTROY, and with two workers the one that read a FORGET may be overtaken by the one that read DESTROY: `op.forget`, `op.forget_multi` or
    `op.retrieve_reply` then runs during or after `op.destroy`, of which `fuse_lowlevel.h` says only that it is called on file system exit. (Put `CallsUnanswered(w)` beside `pc[w] = "call"` before `~gotDestroy` in `FsLifetime`.) The high-level `fuse_lib_forget` works on the node tables, which
    are there until the loop has ended.
15. **A descriptor -2.** When there is no memory for the options of fusermount, `fuse_kern_mount` returns the -2 of `fuse_mount_sys` (`mount.c`, 603-607), and `fuse_mount_common` tests for -1 (`helper.c`, 235). The daemon goes into the background and sets itself up
    with -2 for a device and nothing mounted; its first read fails, and at the end it unmounts what others have mounted at the place. With `remember=T` it polls the -2, which poll ignores, for ever. (`FusermountNotRun` in the `daemon` run; named in `OthersStay` and `UnmountEndsProcess`.)

Seen in the code while it was modelled, and not in a model: `fuse_mount_sys` returns 0, a valid descriptor, when `malloc` fails for the source or type; `iconv_new` tests `ic->tofs` after the second `iconv_open` instead of `ic->fromfs`; the mutex
of `iconv.c` is used without `pthread_mutex_init`; when the process is unmounted before `fuse_mnt_add_mount`, the entry in `/etc/mtab` stays.

## 4. Proofs

### Path lock

*The tree.* Proved for every value of the constants (any tree, threads, names, any mix of requests, malloc failing for any of them, entries vanishing or
not), from the assumptions of `NodeTree` and `PathLock`:

- `TypeCorrect == Spec => []TypeOK`
- `TreeStaysATree == Spec => []Acyclic`

Both follow from `TreeInvariant == Spec => []TreeInv`. `Acyclic` alone is not inductive. A rename is sent only if what it moves is
not above where it goes, but it acts later, after waiting in the queue, and the tree changes meanwhile. `TreeInv` adds what keeps
that condition true: of two unanswered requests only one changes a directory and only one moves between directories
(`DirsOK`); a pending rename stays separated from its target (`RenamesOK`); its directories stay alive, because the
kernel keeps them (`PinsOK`) and a pending forget gives back no more than there is, once per node (`ForgetsOK`); the tree
has one node per entry and references its parents (`TreeOK`); requests are well formed (`RequestsOK`) and the queue holds
waiting threads, each once (`QueueOK`).

The walk is a recursive function over a tree that changes. Instead of an induction over it, `Acyclic` is stated with
closed sets: every non-empty set of nodes that holds the parents of its members has a member without a parent.
From that `ChainClosure` derives that the walk of a node is the least set holding the node and closed under parents, and
the lemmas about moving (`GraftAcyclic`) and cutting (`CutAcyclic`, `CutShortens`) are about least sets only. There is one
lemma per operation of the tree (`FindNodeKeeps`, `RenameNodeKeeps`, `DropLookupsKeeps`, ...) and one per action of
`PathLock` (`ActInv`, `ResumeInv`, ...). TLC checked `TreeInv` on the `path_lock` instance before it was proved.

*The locks.* The second part of `PathLock_proofs` is about the counters. Its theorems hold when `Benign`: no two-path request runs out of
memory for its second path, and entries do not vanish behind the daemon's back. Findings 3 and 2 are what happens otherwise, so
these are conditions the code itself does not establish; malloc may fail for every other request, and the tree, the threads and the mix of requests are free.

- `LocksAccounted == Spec => []LockAccounting`
- `HeldPathsStay == Spec => []PathsStay`
- `RequestsKeepNodes == Spec => []NodesOutliveRequests`
- `DeletedUnlocked == Spec => []DeletedNodesUnlocked`
- `LocksLikeATable == Spec => ImplementsLockTable`

All follow from `LockInvariant == Spec => [](TreeInv /\ LockInv)`. `LockInv` has three parts. `LockAccount` says for each node
that its counter fits (`Fits`) the set of threads that hold a path through it and the set that hold it at an end for writing. `ThreadOK` says what a
thread holds at each stage of its request, also while its queue element is done and it has not run yet, and that what it holds is the walk of today's tree (`HeldOK`, `WriterOK`,
`EntryOK`): without that, `unlock_path` would walk other nodes than `try_get_path` did. `VictimsOK` says that the kernel still
knows the entry a pending removal or rename is about, which is why the node that is locked for it is the node it removes.

A step that tries, takes or undoes a path is one thread's business. `Balance` opens the account for this thread: the
counter fits the others, and the thread adds itself node by node along its walk, with one lemma for each way of adding or dropping a reader or a writer
(`AddReader`, `DropReader`, `AddWriter`, ...), by the library's facts about adding and removing one element of a finite set. A step that changes the tree
touches the nodes that move (`Moves`) or go (`Doomed`). `Spared` and `Apart` say that these lie on nobody else's held path, which follows
from the account: the acting thread holds them for writing, or the forget found them without locks (`ActLocks`, `DropLocks`). For the refinement each step is shown to be an
`Acquire`, a `Release` or a stutter of `LockTable`; `TableIsHeld` and `TableIsApart` say what the mapped table contains, and `TableStep`
that one thread's row changes at a time, also in the passes of `wake_up_queued`. TLC checked the conjuncts of `LockInv` before they were proved, with two threads and all
kinds of requests (631,228 states).

*The wake-ups.* The last part is about who is left asleep, again when `Benign`:

- `NoWakeupIsLost == Spec => []NoLostWakeup`

It follows from `WakeInvariant == Spec => [](TreeInv /\ LockInv /\ WakeInv)`. `NoLostWakeup` speaks of moments without a pass and of a try that has not been made; neither survives a step. `WakeInv` says
instead, with no try in it, that a sleeper is `Stuck`: a path it lacks is shut (its own entry is locked, or a node above is locked for writing) or no longer leads to the root; for a forget, its node is locked. This is claimed for the elements
a pass has gone by (`SeenStuck`), for all of them when no pass runs. Every waiting thread is in the queue (`WaitersQueued`), which a pass therefore reaches.

The argument: taking locks, announcing a writer included, only shuts paths (`Tighter`, `TryTightens`), so that a request that arrives frees nobody, and what it takes and gives back in the same critical section leaves no path open (`SecondTightens`, since its two
paths do not stand in each other's way: `PathsApart`). `free_path` gives locks back and starts a pass, after which nothing is claimed. During the pass a lock is given back only by an element that kept one path, and that is the first of
the queue (`FirstKeeps`), which has no element before it (`WakePathPasses`, `WakeElementWake`). A handler that moves nodes moves only those it has write-locked, and a forget takes away only what nobody has locked; the first node that moves above a sleeper's path is then still above it and
still shut, or the path is cut (`FirstMoved`, `StuckThroughMove`, `ActStuck`, `DropStuck`), and the entry a removal or rename waits for stays, since no other request changes its directory. `StuckCannotProceed` goes back to the try: the locks of
its own first path do not open the second. TLC checked `WakeInv` on the `path_lock` instance (631,228 states) and with three threads on four nodes (2,022,262 states) before it was proved.

### Low-level session

Proved for all settings of the two sides whose kernel minors are natural numbers (`SettingsAssumption`), any requests, notifications and interrupts: `TypeCorrect`, `EveryRequestAnsweredOnce` (`OneAnswer`),
`BothSidesAgree` (`Agreed`), `FsLives` (`FsLifetime`), `RetrievesMatched` (`RetrieveMatched`), `VersionSpoken` (`SpeaksVersion`) and `ForgetsDoArrive` (`ForgetsArrive`), from `Invariance == Spec => []LInv`.
`LInv` adds to `TypeOK`: messages and requests have different identities wherever they are (`Names`), who waits for what (`Waits`), what the two lists of the session hold at each stage of a request (`Lists`, `Retrieves`,
`Stages`), what the session has seen of INIT and DESTROY (`PhaseOK`, `Alone`: the kernel sends these two by themselves), that answered operations are called between `init` and `destroy` and the others after `init` (`Calls`) and what was negotiated (`Negotiated`).
The actions are few kinds of steps on this state - a request is sent, read, moves to another place, leaves, a notification
is sent, a request ends - and the lemmas are about these kinds. `VersionSpoken` adds the layouts: for each operation and each minor the answer has the size the kernel expects (`AnswersFit`), what an old kernel leaves out is at the end (`MissingFits`),
data begins where the library looks for it (`DataWhereItIs`), and reads stay inside (`ReadsWithin`).

`ForgetsDoArrive` (`ForgetsArrive`) counts: what the kernel has given back is what the file system was told plus the sum over the messages on their way (`Pending`, in the queue or with a worker). `ForgetsOK` adds what makes the sum move as it should:
the counts are natural numbers, only forgets have one, and they come from the kernel as root, so that the gate refuses none. The sum is a fold of the library over a set; `SumsExist` and `SumsAnyOrder` show, by induction on the sets of numbers up to a cardinality
(`NumbersInduction`), that it does not depend on the order, and `CountedAdd` and `CountedRemove` are what the steps need of it. The proof corrected the property: its antecedent was that the file system has `forget` or `forget_multi`, but
`do_forget` (fuse_lowlevel.c:985) knows only `forget`, so a file system with `forget_multi` alone never hears of single forgets.

### Files

Proved for any finite sets of threads and of handles, any nodes, names, hidden names and files, and any set of file system calls that fail:

- `TypeCorrect == Spec => []TypeOK` and `CountsExact == Spec => []OpenCountExact`, for both values of `OpenRaces`;
- `UsesReachFiles` (`UseReachesFile`), `VisibleFilesStay` (`VisibleStays`) and `PosixImplemented == Spec => ImplementsPosix`, when `OpenRaces` is FALSE: finding 5 is what happens otherwise;
- `HiddenFilesGo` (`HiddenWillGo`), when besides the unlink of a hidden file does not fail (`"erase" \notin Failing`), a condition the code does not establish either: it drops the result.

`BaseInv` is what needs no such condition: what each stage of a request says of it (`RequestOK`), that the kernel knows the nodes of its dentries, handles and requests (`PinsKnown`), that one request at a time looks
up or changes an entry (`OneDirOp`), and the exact count, as the sum of two cardinalities. The count makes `open_count` stay a natural number, which is why it is in the same invariant as the types, and
why `find_node`, which clears the count of a node it takes over, changes nothing: such a node is not known to the kernel, so its count is 0 (`NodesFound`).

`FileInv` adds where the file of a handle is. `UseReachesFile` is far from inductive: it speaks of a request whose path was computed before, while entry and node change in separate steps. `HandleOK` says that the file
of an open handle is at the name of its node, and, while `hide_node` or `fuse_lib_rename` is between the call of the file system and the change of the node (`Moved`), at the name the node is about to get (`Place`). Around it stand:
a node that is open has a name, and no two have one name (`OpenNamed`, `UniqueNames`); a marked node is open and has a hidden name (`MarkedOK`); who works on an open file holds its node read-locked and has its name as path (`PathOK`), and
who removes or replaces an entry has write-locked the node of it (`Grabs`), so that the two exclude each other (`Settled`). `Grabs` has an exception that TLC showed: a LOOKUP that revalidates a dentry is not under the directory's mutex and can make a new node for an entry
that is being renamed; that node is closed, and no dentry leads to it (`Fresh`), so nobody can open it before the entry is gone. What `is_open` found stays true until it is acted on (`VictimClosed`, `VictimOpen`) because nobody is opening the victim
(`NoOpening`: here `OpenRaces` enters) and whoever closes it would hold it read-locked.

There is one lemma per conjunct (`GrabsStep`, `VictimOpenStep`, `PathStep`, `HandleStep`, ...), over lemmas that say which step changes a name, a count, an entry, a dentry or a handle at all
(`NameSteps`, `OpensSteps`, `EntrySteps`, `DentrySteps`, `HandleSteps`). For the refinement every step is shown to be one action of `PosixFiles` or a stutter (`StepPosix`; the rename of `hide_node` is the `Remove` of its victim, the unlink of a hidden file a `Delete`, `fuse_destroy` the `Unmount`); that no
file is deleted under a handle is `HandleOK` read once more (`FilesReachable`). TLC checked the conjuncts before they were proved: on the `fuse_files` instance (385,174 states), and with three and four threads on parts of theirs.

### Worker pool

In the second part of `Daemon_proofs`. Proved for any finite set of workers, any `MaxAvail` above 0 and both ways of stopping: `LoopTypeCorrect`, `CounterExact` (`AvailCount`),
`SomeoneReads` (`ReaderLeft`), `PoolStaysSmall` (`PoolBounded`), `PoolFrozen` (`ExitFreezesPool`) and `AllWorkersGone` (`NoWorkerAtReturn`).
All follow from `PoolInvariant == Spec => []PoolInv`. `ReaderLeft` and `PoolBounded` are about sets of workers, the code only looks at `numavail`; so
`PoolInv` has the exact count, the bounds of `numavail` while the loop serves (0 only if every thread exists), that the list is the set of existing
threads, and what the main thread's position says about `mt->exit` and the list. `GotInv` and `FinishInv` are the two critical
sections; the other worker steps are instances of `MovesOnInv`. The cardinalities come from the library's facts on adding and
removing one element.

### Interrupts

Proved for any finite sets of requests and threads: `TypeCorrect`, `CounterExact` (`CounterIsUsers`), `CalleeStays` (`CalleeIsThere`), `ParkedIsFound`
(`ParkedNotListed`) and `NoInterruptVanishes` (`InterruptKept`), all from `InterruptInvariant == Spec => []IInv`. `IInv` adds to them `ThreadInv`: a
request has one server, `list` holds the requests being served, nobody interrupts a request that is not listed yet, a locked `req->lock`
belongs to a thread between `Flag` and `UnlockReq`, and a registered callback to a thread inside its handler. `CalleeIsThere` needs all of
these: the signalled thread cannot pass `Unregister` because the interrupter has the mutex of the request. The counter needs the others the
other way round: `Begin` sets it to 1, which is right because nobody uses the object yet. The queue is treated through the set of its elements
(`RemoveAtElements`, `TailElements`, `AppendElements`).

### Android service

Proved for any finite set of mount points, any targets and any bound: `TypeCorrect` and `EntriesAreNotified` (`EntryNotified`) for every `Failing`, `InstallIsSafe`
(`InstallSafe`) when chmod works and an asset that is there can be opened, `NoMountIsForgotten` (`NoForgottenMount`) when commands take less than 30 seconds, and `TableIsTrue` (`TableTrue`) when all of this holds and
mkdir works. `TypeInv` says what is known of a dead process and of the task by the position of the thread. `InstallInv` adds how far the installation is.
`NumberInv` says that a number stands for one mount point in everything the process knows of, which is why no result can cancel another's notification.
`TruthInv` and `KeepInv` are about the results on their way to the main thread: the last successful one for a mount point says what is mounted there
(`LastPostTrue`), and a mount that follows an unmount in this queue is not lost when the unmount's result takes the entry away.
TLC checked these invariants on the `mount_service` instance first.

### Stack of modules

Proved for any file systems, any set of stacks of any height, any paths, links, directory entries and any one-to-one encoding (`StackAssumption`): `TypeCorrect`, `ModulesAreCounted` (`ModulesCounted`), `NeverBeyondAbilities` (`WithinAbilities`), from
`StackInvariant == Spec => []Inv`; and `CallsDoArrive` (`CallsArrive`), when a stack has at most one iconv module (`OneIconv`: the model has one encoding, and two modules with the same one would convert a path twice).

`ModulesCounted` and `WithinAbilities` speak of moments without a call or of the lowest layer; `Inv` says what holds in between. While `fuse_fs_destroy` goes through the stack, the layers above the one it is at are freed already and the others are not (`Intact`), and each counter is
the number of layers of its kind that are not (`CountOK`). The flags of `struct fuse` are never wider than those of the file system at the bottom, however many modules were pushed (`NarrowOK`). That no module invents a path or drops one
is `ShapeOK`: in every layer that a call has reached, a path is missing exactly where the handler gave none (`SameShape`).

`CallsArrive` compares what arrives with what the handler asked for, which for a stack of unknown height needs an invariant of the call on its way: `PathsOK` says that the path a layer is called with, moved and converted by the modules that are still below (`Placed`), is where the
handler's path lies, so that nothing is left to move at the bottom. The step of a module is then the equation between two neighbouring layers (`PlacedBelow`): subdir puts its base in front of a path that the layers below will convert as a whole (`CodeOfConcat`), iconv converts one that no
other module converts (`OneConverter`). `Base` is a fold over the layers (`FlattenSeq`). What such a fold computes needs an induction, which is done here about sets of numbers (`NumbersInduction`, from the library's well-foundedness of the
natural numbers): `FlattensExists` and `FollowsUnique` give the concatenation of any number of sequences, `FlattenStep` its recursion. TLC checked `Inv` on the `fs_stack` instance before it was proved.

`AnswersDoComeBack` (`AnswersComeBack`) is about the way back, which changes an answer in every layer. It holds when a stack has at most one iconv module (`OneIconv`), no subdir module makes links relative but the lowest (`LowestRelative`), and no link is read at the root of the mount, which is a
directory (`RootIsNoLink`). Its invariant is `ReturnInv`:

- `ChainOK`: each layer that a `readlink` has passed was called with what the layer above made of its path. subdir works its mapped path out again on the way back, so that without this nothing says it is the path of the link on the file system.
- `LinkOK`: of the target `t` of a link at `p`, the layers passed so far have made either an absolute link that is still `t` in the encoding of the file system, or one that climbs from `p` and comes down at `t` (`Climbs`) without leaving any base that `t` is in (`LinkFits`). It speaks of the bytes on the file
  system, so that a step of iconv leaves what it says alone (`LinkThroughIconv`) and a step of subdir is `strip_common` and `transform_symlink` on sequences (`CommonMeans`, `TransformMeans`), compared in one encoding and carried to the other by `CodeInjective` and `CommonReaches`. `ResolveMeans` turns it into what a
  user who follows the link in the mount finds.
- `NamesOK`: the entries passed on so far are those that have a name, or fewer of them in an answer marked `short`, and `BottomOK`: the lowest wrapper calls something.

`LowestRelative` cannot be left out. With two subdir modules of the same base `/a`, both with `rellinks`, and a link whose target lies below the link itself (which no one can follow), the lower one leaves the target alone and the upper one makes it relative as if it were a path of its own level; TLC finds it. The
run `fs_stack` has a stack of two such modules, with different bases. `StackAssumption` says that `Null` is no link, relative or not. TLC checked `BottomOK`, `ChainOK`, `LinkOK` and `NamesOK` first, also with stacks of three modules (573,000 states).

### Daemon

Proved for any set of command lines, any signals, any set of failing calls and any bound on the mounts: `TypeCorrect`, `SignalsDoNotKill` (`ServingSurvives`) and `MountIsTakenAway` (`MountGone`), from `LifeInvariant == Spec => []LifeInv`; and,
when no command line asks for help and for a mount (`NoHelpMount`, finding 8), `EverythingIsReleased` (`ReleasedOnce`) and `OtherMountsStay` (`OthersStay`), from `HoldInvariant`. `LifeInv` adds to the types what is known of the mount at each place
of the main thread (`MountKnown`: the process mounts at most once, so that its mount, if it is there, is on top; before the mount and after the umount it is not there unless umount failed) and that the handlers are in place from the end of the set-up
(`SignalsHandled`). `HoldInv` adds what the process has at each place (`AtPlace`), where a second close or a use after free can be (`Places`: only after the late failure of `fuse_new_common`), and that at the places before an umount the mount is the process's own or
was taken away in between, unless the descriptor that was polled was closed or -2 (`UnmountsOwn`). There is one lemma per conjunct (`RestStep`, `MountsStep`, `SignalsStep`, `MountKnownStep`, `PlacesStep`, `UnmountsOwnStep`), each with a step per action of `Next`.

### Record locks

Proved for any threads and owners and any range of offsets, from `PosixLocksAssumption`:

- `LocksInOrder == Spec => [](TypeOK /\ ListOK)`, without conditions, also when `locks_insert` has no memory: of one owner no two locks in the list overlap, and they are in the order of their bytes;
- `ListIsFsList` (`ListFollowsFs`) and `GetlkIsRight` (`GetlkAgrees`), when each owner has one thread at a time (`OneThreadEach`) and `locks_insert` has memory. Finding 11 is what happens otherwise: the code establishes neither. The unlock of a close may fail.

Most of the work is `LocksInsertDoes`, what `locks_insert` makes of *any* list that is in order. The loop is a recursive function of the round (`InsertStep`), and `Round` is its invariant: what has been passed is in order and the new lock, as it has
grown, fits between what is in front of it and what is behind (`Ordered`, `Fits`); what is still to come lies behind all that (`Ahead`); other owners' locks are what they were (`Others`); and byte by byte the owner has the new lock where it was asked for and the old ones elsewhere (`Own`). The
conjunct that is easy to miss is `Grown`: a lock that has merged with one of its type covers more than was asked for, and the loop then deletes, cuts and splits locks of the *other* type by the grown lock. That is right only because whatever is still to come starts behind
what the lock has gained. There is a lemma for each way a round can go (`RoundAfter`, `RoundPast`, `RoundBehind`, `RoundListed`, `RoundGrown`, `RoundSwallowed`, `RoundFront`, `RoundCut`, `RoundSplit`); `Ways` says there are no others. The induction over the rounds is about a set of
numbers (`RoundsAll`), as in the stack of modules.

`Follows` then carries it through the specification: an owner without a request has all its bytes listed, and one with a request has them listed but for the bytes of the request, which the file system has already; where the file system kept locks at a close (`kept`), a byte may also be listed not at all. `GetlkIsRight` adds that two ranges meet in a byte.

### Node table

In the second part of `Interrupts_proofs`: `NodesFound` (`EveryNodeFound`), `NodesStay` (`KernelNodesStay`), `ListIsUnused` (`LruIsUnused`), `TypesHold` (`TableTypeOK`) and `IdsAreNew` (`IdsNeverReturn`), all from
`TablesInvariant == Usual /\ TableSpec => []TablesInv`. They hold for any `MinSize` that four divides, any hash factor, any names, modes, numbers of nodes and ids and any `MergeSteps`, from `NodeTableAssumption`. Names are two levels deep at most, as the model has them (`Dirs`).
`Usual` is the hypothesis that excludes finding 10: the kernel gives back all its references to a remembered node at once, and names vanish without its help only in the mode without `remember`, where they hold no reference.

- *Tables.* `Holding` says that a table has exactly the given nodes, each in the bucket its hash selects. There is a lemma for each operation of a table (`ResizedHolds`, `RehashHolds`, `ReducedHolds`, `RemergeHolds`, `InsertHolds`, `DeleteHolds`). `Sizes` is the set of numbers that doubling
  `MinSize` reaches; four divides each, without which halving a table would leave a `split` that does not match its buckets. `SplitBucket` and `MergeBucket` are the arithmetic of one bucket that moves up or down.
- *Nodes.* `Good(s, E)` is the state of `struct fuse` in which the nodes of `E` have a reference too many that is about to be given back: types, the tree of parents, `refctr` counted from entries and lookups, and both tables. `UnrefKeeps` goes from `Good(s, {n})` to `Good(r, {})` over
  the whole cascade of `unref_node` and `delete_node` (`DoomedIsChain`, `UnnamedHolds`, `DroppedKeeps`), `UnhashKeeps` and `HashNameKeeps` over the changes of names, `NextIdKeeps` and `CreatedKeeps` over a new node.
- *Who holds what.* `Agree` relates the nodes to the kernel: `nlookup` is what the kernel holds plus the reference that a name holds where something is remembered (`Balanced`), and the list has exactly the nodes for which only the latter is left (`ListFits`). That is what makes the assertions of
  `forget_node`, `unlink_node` and `fuse_clean_cache` hold. In the loop of `fuse_clean_cache`, a round takes no node off the list but its own: the others have a reference by number and so no cascade reaches them (`PruneKeeps`; `PrunedKeeps` is the induction over the rounds, about a set of numbers).
- *Ids.* `Passed` says that the last id given out is not above the counter in its generation, but for the root's, which is given out without being counted.

TLC checked the properties on the `node_table` instance first.

### What is not proved

Every safety invariant and every action property of the runs is stated by a theorem, some under the hypotheses named above. The library's induction theorems cannot be used (they take a property as a parameter), so each recursive function is given an induction of its own, about a set.
Only checkable with TLC: `WaitersAnswered`, `UnmountEndsLoop`, `InterrupterReturns`
and `UnmountEndsProcess` (liveness under fairness).

## 5. Plan

1. **Path lock**. To do: which of its theorems hold without `Benign`, when the kernel sends what cannot meet findings 2 and 3.
2. **Low-level session**. To do: its requests as the source of those of `Interrupts`.
3. **Files** - `FuseFiles`. To do: hard links; the directory buffer of `readdir`.
4. **Node table**. To do: that `NodeTable` implements `NodeTree` (the derivation of `Alive` from `refctr` as a refinement).
5. Algorithms: `fuse_buf_copy` (`buffer.c`), option matching (`fuse_opt.c`).

## 6. Not modelled, and why

- `debug_path` and all logging.
- Splice and `buffer.c`: the Android build has no splice, and what is left copies bytes between buffers, which `LowLevel` has as sizes.
- The option parser (`fuse_opt.c`) and the texts of options and of `/etc/mtab`: strings without state.
- `cuse_lowlevel.c` and `ulockmgr.c`: not built into the daemon. `mount_bsd.c`: another system.
- The slab pages of the node allocator: where a node lies in memory is not visible to anything modelled.
- The operations of mount.fusedroid beyond those of `FuseFiles`: one system call each, no state.
- The activities and dialogs of the application: user interface; the commands they send are in `MountService`.
- `fuse_lib_create` with its own handle, cached attributes and the buffer of `readdir`: not yet (see the plan).
