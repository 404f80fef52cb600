------------------------------- MODULE Daemon -------------------------------
(***************************************************************************)
(* The life of a file system process from fuse_main to its end (helper.c,  *)
(* mount.c, mount_util.c, fuse_signals.c, fuse_session.c, fuse_loop.c,     *)
(* fuse_new_common and fuse_destroy of fuse.c): what it acquires while it  *)
(* is set up (a mount, a descriptor of /dev/fuse, a channel, a session,    *)
(* signal handlers, an entry of /etc/mtab), how the loop ends, and what is *)
(* given back on every way out, while signals arrive and other processes   *)
(* mount and unmount at the same place.                                    *)
(***************************************************************************)
EXTENDS Naturals, Sequences, FiniteSets

CONSTANTS
  Options,    \* the command lines: records of the options that matter here
  Signals,    \* the signals that end the loop (HUP, INT, TERM)
  Failing,    \* the calls that may fail
  MaxMounts   \* bound: mounts at the mount point at one time

ASSUME DaemonAssumption ==
  /\ Options \subseteq [help : BOOLEAN, mountpoint : BOOLEAN, root : BOOLEAN,
                        autoUnmount : BOOLEAN, subtype : BOOLEAN,
                        mtab : BOOLEAN, remember : BOOLEAN,
                        intr : {"off", "on", "bad"}]
  /\ MaxMounts \in Nat \ {0}

Pipe == "SIGPIPE"
Intr == "SIGUSR1"
AllSignals == Signals \cup {Pipe, Intr}

VARIABLES
  opt,       \* the options of this process
  pc,        \* where the main thread is
  fd,        \* the descriptor fuse_kern_mount returned, or fuse_kern_unmount was
             \* given: "none" (-1), "stdin" (0), "dev", "invalid" (-2)
  mounts,    \* what is mounted on the mount point, the last one on top
  open,      \* descriptors that are open
  chan,      \* the channel: its life, its descriptor, whether it knows the session
  sess,      \* the session: its life, whether it has the channel, exited
  fuse,      \* the life of struct fuse
  handler,   \* disposition of every signal
  instance,  \* fuse_instance: the session the exit handler acts on
  helper,    \* fusermount waits for the process to end (auto_unmount)
  raced,     \* others took our mount away after the process looked for it
  served,    \* the set-up has been completed
  wrong      \* what was used after it was freed, or closed twice

life == <<chan, sess, fuse>>
sigs == <<handler, instance>>
aux == <<raced, served>>
place == <<mounts, helper>>
vars == <<opt, pc, fd, mounts, open, chan, sess, fuse, handler,
          instance, helper, raced, served, wrong>>

Descriptors == {"none", "stdin", "dev", "invalid"}
Lives == {"none", "live", "freed"}
Loop == {"loop", "read", "blocked", "broken"}
Over == {"done", "killed"}

TypeOK ==
  /\ opt \in Options
  /\ pc \in {"mount", "device", "mtab", "undo", "fusermount", "again", "chan",
             "drop", "dropped", "new", "daemonize", "signals", "start",
             "teardown", "clearfd", "poll", "umount", "freechan",
             "destroy"} \cup Loop \cup Over
  /\ fd \in Descriptors
  /\ mounts \in Seq({"own", "other"}) /\ Len(mounts) <= MaxMounts
  /\ helper \in BOOLEAN /\ raced \in BOOLEAN /\ served \in BOOLEAN
  /\ open \subseteq {"stdin", "dev"}
  /\ chan \in [life : Lives, fd : Descriptors, se : BOOLEAN]
  /\ sess \in [life : Lives, ch : BOOLEAN, exited : BOOLEAN]
  /\ fuse \in Lives
  /\ handler \in [AllSignals -> {"default", "user", "exit", "ignore", "intr"}]
  /\ instance \in BOOLEAN
  /\ wrong \subseteq {"use", "close"}

Mounted == \E i \in DOMAIN mounts : mounts[i] = "own"
Top == IF mounts = <<>> THEN "none" ELSE mounts[Len(mounts)]
Unmounted == SubSeq(mounts, 1, Len(mounts) - 1)  \* what an umount leaves
MayFail(what) == what \in Failing

\* close(d): a descriptor that is not open any more was closed twice; -2 never
\* was one.
Close(d) ==
  /\ open' = open \ {d}
  /\ wrong' = IF d \in open \cup {"invalid"} THEN wrong ELSE wrong \cup {"close"}

\* fuse_mount_common makes sure that 0, 1 and 2 are open; the shell or the
\* program may have left a signal to a handler of its own.
Init ==
  /\ opt \in Options
  /\ pc = "mount" /\ fd = "none" /\ open = {"stdin"}
  /\ mounts \in {<<>>, <<"other">>} /\ helper = FALSE
  /\ chan = [life |-> "none", fd |-> "none", se |-> FALSE]
  /\ sess = [life |-> "none", ch |-> FALSE, exited |-> FALSE]
  /\ fuse = "none"
  /\ handler \in {h \in [AllSignals -> {"default", "user"}] :
                    h[Pipe] = "default" /\ h[Intr] = "default"}
  /\ instance = FALSE /\ raced = FALSE /\ served = FALSE /\ wrong = {}

-----------------------------------------------------------------------------
(***************************************************************************)
(* Mounting: fuse_kern_mount, fuse_mount_sys, fuse_mount_fusermount.       *)
(***************************************************************************)

\* Bad options, no mount point, a directory that is not there or not empty,
\* no /dev/fuse: nothing was acquired, fuse_setup_common returns NULL.
MountRefused ==
  /\ pc = "mount"
  /\ MayFail("options") \/ (~opt.help /\ (~opt.mountpoint \/ MayFail("stat")))
  /\ pc' = "done"
  /\ UNCHANGED <<opt, fd, place, open, life, sigs, aux, wrong>>

\* -h and -V: fuse_kern_mount returns 0, which is the descriptor of the channel.
MountHelp ==
  /\ pc = "mount" /\ opt.help
  /\ fd' = "stdin" /\ pc' = "chan"
  /\ UNCHANGED <<opt, place, open, life, sigs, aux, wrong>>

\* auto_unmount works with fusermount only; otherwise /dev/fuse is opened.
OpenDevice ==
  /\ pc = "mount" /\ ~opt.help /\ opt.mountpoint
  /\ IF opt.autoUnmount
     THEN pc' = "fusermount" /\ UNCHANGED <<fd, open>>
     ELSE pc' = "device" /\ fd' = "dev" /\ open' = open \cup {"dev"}
  /\ UNCHANGED <<opt, place, life, sigs, aux, wrong>>

\* mount(2). Another process may have mounted there in the meantime.
MountSys ==
  /\ pc = "device" /\ Len(mounts) < MaxMounts
  /\ mounts' = Append(mounts, "own")
  /\ pc' = IF opt.root THEN "mtab" ELSE "chan"
  /\ UNCHANGED <<opt, fd, helper, open, life, sigs, aux, wrong>>

\* It fails: without the right to mount fusermount is tried, after any other
\* error nothing.
MountSysFails ==
  /\ pc = "device"
  /\ ~opt.root \/ MayFail("mount") \/ Len(mounts) = MaxMounts
  /\ Close("dev") /\ fd' = "none"
  /\ \/ ~opt.root /\ pc' = "fusermount"
     \/ MayFail("mount") /\ pc' = "done"
     \/ Len(mounts) = MaxMounts /\ pc' = "done"
  /\ UNCHANGED <<opt, place, life, sigs, aux>>

\* root enters the mount into /etc/mtab: the path must resolve, and /bin/mount
\* succeed where mtab is a file to be updated.
AddMount ==
  /\ pc = "mtab"
  /\ \/ pc' = "chan"
     \/ MayFail("resolve") /\ pc' = "undo"
     \/ MayFail("mtab") /\ opt.mtab /\ pc' = "undo"
  /\ UNCHANGED <<opt, fd, place, open, life, sigs, aux, wrong>>

\* out_umount: the mount is undone (umount2, lazy), then the device is closed.
UndoMount ==
  /\ pc = "undo"
  /\ mounts' = IF mounts = <<>> THEN mounts ELSE Unmounted
  /\ Close("dev") /\ fd' = "none"
  /\ pc' = "done"
  /\ UNCHANGED <<opt, helper, life, sigs, aux>>

\* fusermount mounts and passes the descriptor; with auto_unmount it waits
\* for the end of the socket it shares with the process.
Fusermount ==
  /\ pc \in {"fusermount", "again"} /\ Len(mounts) < MaxMounts
  /\ mounts' = Append(mounts, "own")
  /\ open' = open \cup {"dev"} /\ fd' = "dev"
  /\ helper' = opt.autoUnmount
  /\ pc' = "chan"
  /\ UNCHANGED <<opt, life, sigs, aux, wrong>>

\* A fusermount that knows no subtype is tried again without it; there may be
\* no memory for the options with the subtype.
FusermountFails ==
  /\ pc \in {"fusermount", "again"}
  /\ \/ /\ MayFail("fusermount") \/ Len(mounts) = MaxMounts
        /\ pc' = IF opt.subtype /\ pc = "fusermount" THEN "again" ELSE "done"
     \/ MayFail("memory") /\ opt.subtype /\ pc = "fusermount" /\ pc' = "done"
  /\ UNCHANGED <<opt, fd, place, open, life, sigs, aux, wrong>>

\* No memory for the options meant for fusermount: it is not run, and the -2
\* of fuse_mount_sys is returned. fuse_mount_common tests for -1 and goes on
\* with -2 as its descriptor, and with nothing mounted.
FusermountNotRun ==
  /\ pc = "fusermount" /\ MayFail("memory")
  /\ fd' = "invalid" /\ pc' = "chan"
  /\ UNCHANGED <<opt, place, open, life, sigs, aux, wrong>>

-----------------------------------------------------------------------------
(***************************************************************************)
(* Setting up: fuse_mount_common, fuse_new_common, fuse_daemonize,         *)
(* fuse_set_signal_handlers.                                               *)
(***************************************************************************)

NewChannelLeaves ==  \* mutant: a failure leaves the mount behind
  /\ pc = "chan"
  /\ \/ chan' = [life |-> "live", fd |-> fd, se |-> FALSE] /\ pc' = "new"
     \/ MayFail("chan") /\ UNCHANGED chan /\ pc' = "done"
  /\ UNCHANGED <<opt, fd, place, open, sess, fuse, sigs, aux, wrong>>

NewChannel ==
  /\ pc = "chan"
  /\ \/ chan' = [life |-> "live", fd |-> fd, se |-> FALSE] /\ pc' = "new"
     \/ /\ MayFail("chan") /\ UNCHANGED chan
        /\ pc' = IF opt.mountpoint THEN "drop" ELSE "done"
  /\ UNCHANGED <<opt, fd, place, open, sess, fuse, sigs, aux, wrong>>

\* fuse_chan_destroy of a channel with the given descriptor.
DestroyChannel(d) ==
  /\ chan' = [life |-> "freed", fd |-> d, se |-> FALSE]
  /\ IF d = "none" THEN UNCHANGED <<open, wrong>> ELSE Close(d)

\* fuse_new_common fails before the session has adopted the channel; with -h
\* it always does, since fuse_lowlevel_new_common only prints the help.
NewFails ==
  /\ pc = "new" /\ (opt.help \/ MayFail("new"))
  /\ pc' = "clearfd"
  /\ UNCHANGED <<opt, fd, place, open, life, sigs, aux, wrong>>

\* It fails after that (a table, the root node, an intr_signal that is none):
\* fuse_session_destroy takes the channel with it.
NewFailsLate ==
  /\ pc = "new" /\ ~opt.help
  /\ opt.intr = "bad" \/ MayFail("tables")
  /\ DestroyChannel(chan.fd)
  /\ sess' = [sess EXCEPT !.life = "freed"]
  /\ pc' = "clearfd"
  /\ UNCHANGED <<opt, fd, place, fuse, sigs, aux>>

New ==
  /\ pc = "new" /\ ~opt.help /\ opt.intr # "bad"
  /\ sess' = [life |-> "live", ch |-> TRUE, exited |-> FALSE]
  /\ chan' = [chan EXCEPT !.se = TRUE]
  /\ fuse' = "live"
  /\ handler' = IF opt.intr = "on" THEN [handler EXCEPT ![Intr] = "intr"]
                                   ELSE handler
  /\ pc' = "daemonize"
  /\ UNCHANGED <<opt, fd, place, open, instance, aux, wrong>>

Daemonize ==
  /\ pc = "daemonize"
  /\ \/ pc' = "signals"
     \/ MayFail("fork") /\ pc' = "clearfd"
  /\ UNCHANGED <<opt, fd, place, open, life, sigs, aux, wrong>>

SetHandlersAlways(which, action) ==  \* mutant: whatever the action was before
  [s \in AllSignals |-> IF s \in which THEN action ELSE handler[s]]

\* set_one_signal_handler: only a signal with the default action gets one.
SetHandlers(which, action) ==
  [s \in AllSignals |-> IF s \in which /\ handler[s] = "default" THEN action
                                                        ELSE handler[s]]

\* fuse_instance is set last; a failure in the middle leaves some handlers.
SetSignalHandlers ==
  /\ pc = "signals"
  /\ \/ /\ handler' = [SetHandlers(Signals, "exit") EXCEPT ![Pipe] =
                         IF handler[Pipe] = "default" THEN "ignore"
                                                      ELSE handler[Pipe]]
        /\ instance' = TRUE /\ served' = TRUE
        /\ pc' = "start"
     \/ /\ MayFail("sigaction")
        /\ \E some \in SUBSET Signals : handler' = SetHandlers(some, "exit")
        /\ pc' = "clearfd"
        /\ UNCHANGED <<instance, served>>
  /\ UNCHANGED <<opt, fd, place, open, life, raced, wrong>>

-----------------------------------------------------------------------------
(***************************************************************************)
(* The loop: fuse_session_loop or, with remember=T, the loop that waits in *)
(* poll and cleans the cache in between; fuse_kern_chan_receive.           *)
(***************************************************************************)

Start ==
  /\ pc = "start"
  /\ \/ pc' = "loop"
     \/ MayFail("buffer") /\ pc' = "teardown"
  /\ UNCHANGED <<opt, fd, place, open, life, sigs, aux, wrong>>

\* poll ignores a negative descriptor: with remember=T the loop waits for
\* ever and cleans the cache in between.
PollsNothing == opt.remember /\ chan.fd = "invalid"

\* A device whose file system is unmounted lets neither poll nor read wait,
\* nor does a read of -2 (EBADF).
Waits == Mounted \/ PollsNothing

\* Every way out of the loop resets the session.
LeaveLoop ==
  /\ pc' = "teardown"
  /\ sess' = [sess EXCEPT !.exited = FALSE]
  /\ UNCHANGED <<opt, fd, place, open, chan, fuse, sigs, aux, wrong>>

CheckExited ==
  /\ pc = "loop"
  /\ IF sess.exited
     THEN LeaveLoop
     ELSE /\ pc' = "read"
          /\ UNCHANGED <<opt, fd, place, open, life, sigs, aux, wrong>>

\* The read is entered; a signal before this moment does not interrupt it.
EnterRead ==
  /\ pc = "read"
  /\ pc' = "blocked"
  /\ UNCHANGED <<opt, fd, place, open, life, sigs, aux, wrong>>

\* A request: processed, unless the session was told to exit.
Receive ==
  /\ pc = "blocked" /\ Mounted
  /\ IF sess.exited
     THEN LeaveLoop
     ELSE /\ pc' = "loop"
          /\ UNCHANGED <<opt, fd, place, open, life, sigs, aux, wrong>>

ReceiveUnmountedAgain ==  \* mutant: ENODEV is taken for an interruption
  /\ pc = "blocked" /\ ~Waits
  /\ pc' = "loop"
  /\ UNCHANGED <<opt, fd, place, open, life, sigs, aux, wrong>>

\* fuse_session_loop_remember: poll times out, the cache is cleaned.
PollTimeout ==
  /\ pc = "blocked" /\ opt.remember /\ Waits
  /\ pc' = "loop"
  /\ UNCHANGED <<opt, fd, place, open, life, sigs, aux, wrong>>

\* It takes an interrupted poll for an error: errno is never -EINTR.
PollInterrupted ==
  /\ pc = "broken"
  /\ LeaveLoop

\* ENODEV: somebody has unmounted the file system; EBADF: it never was.
ReceiveUnmounted ==
  /\ pc = "blocked" /\ ~Waits
  /\ LeaveLoop

\* Any other error of the device, or a short read.
ReceiveFails ==
  /\ pc = "blocked" /\ MayFail("read") /\ ~PollsNothing
  /\ LeaveLoop

-----------------------------------------------------------------------------
(***************************************************************************)
(* The ways out: fuse_teardown_common, err_unmount of fuse_setup_common    *)
(* and the failure of fuse_mount_common all unmount with fuse_kern_unmount.*)
(***************************************************************************)

\* fuse_remove_signal_handlers. set_one_signal_handler replaces only the
\* default action, so what was installed stays.
RemoveSignalHandlers ==
  /\ pc = "teardown"
  /\ instance' = FALSE
  /\ handler' = SetHandlers(AllSignals, "default")
  /\ pc' = "clearfd"
  /\ UNCHANGED <<opt, fd, place, open, life, aux, wrong>>

ClearFdKeeps ==  \* mutant: the channel keeps its descriptor
  /\ pc = "clearfd"
  /\ IF opt.mountpoint
     THEN /\ fd' = chan.fd
          /\ wrong' = IF chan.life = "live" THEN wrong ELSE wrong \cup {"use"}
          /\ pc' = "poll"
     ELSE pc' = "destroy" /\ UNCHANGED <<fd, wrong>>
  /\ UNCHANGED <<opt, place, open, chan, sess, fuse, sigs, aux>>

\* fuse_unmount_common does nothing without a mount point; the channel gives
\* its descriptor to fuse_kern_unmount.
ClearFd ==
  /\ pc = "clearfd"
  /\ IF opt.mountpoint
     THEN /\ fd' = chan.fd
          /\ chan' = [chan EXCEPT !.fd = "none"]
          /\ wrong' = IF chan.life = "live" THEN wrong ELSE wrong \cup {"use"}
          /\ pc' = "poll"
     ELSE pc' = "destroy" /\ UNCHANGED <<fd, chan, wrong>>
  /\ UNCHANGED <<opt, place, open, sess, fuse, sigs, aux>>

PollerrNever(d) == FALSE  \* mutant: the state of the device is not asked

\* The device reports POLLERR once its file system is unmounted; what is not
\* open reports POLLNVAL, and -2 nothing.
Pollerr(d) == d = "dev" /\ d \in open /\ ~Mounted

\* fuse_kern_unmount: poll, then close in any case, then unmount unless that
\* has been done ("drop": called by fuse_mount_common without a channel).
Poll ==
  /\ pc \in {"poll", "drop"}
  /\ Close(fd)
  /\ raced' = FALSE
  /\ pc' = IF Pollerr(fd)
           THEN (IF pc = "drop" THEN "done" ELSE "freechan")
           ELSE (IF pc = "drop" THEN "dropped" ELSE "umount")
  /\ UNCHANGED <<opt, fd, place, life, sigs, served>>

\* umount2, /bin/umount or fusermount -u -z: the mount on top, whose ever.
Umount ==
  /\ pc \in {"umount", "dropped"}
  /\ \/ /\ mounts # <<>>
        /\ mounts' = Unmounted
     \/ /\ MayFail("umount") \/ mounts = <<>>
        /\ UNCHANGED mounts
  /\ pc' = IF pc = "umount" THEN "freechan" ELSE "done"
  /\ UNCHANGED <<opt, fd, helper, open, life, sigs, aux, wrong>>

\* fuse_chan_destroy: the session forgets the channel.
FreeChannel ==
  /\ pc = "freechan"
  /\ IF chan.life = "live"
     THEN DestroyChannel(chan.fd)
     ELSE wrong' = wrong \cup {"use"} /\ UNCHANGED <<open, chan>>
  /\ sess' = IF chan.se THEN [sess EXCEPT !.ch = FALSE] ELSE sess
  /\ pc' = "destroy"
  /\ UNCHANGED <<opt, fd, place, fuse, sigs, aux>>

\* fuse_destroy, when there is a struct fuse; fuse_session_destroy destroys
\* the channel only if the session still has it. Then main returns.
Destroy ==
  /\ pc = "destroy"
  /\ IF fuse = "live"
     THEN /\ fuse' = "freed"
          /\ sess' = [sess EXCEPT !.life = "freed"]
          /\ handler' = IF handler[Intr] = "intr"
                        THEN [handler EXCEPT ![Intr] = "default"] ELSE handler
          /\ IF sess.ch THEN DestroyChannel(chan.fd)
                        ELSE UNCHANGED <<open, wrong, chan>>
     ELSE UNCHANGED <<fuse, sess, handler, open, wrong, chan>>
  /\ pc' = "done"
  /\ UNCHANGED <<opt, fd, place, instance, aux>>

-----------------------------------------------------------------------------
(***************************************************************************)
(* Signals and other processes.                                            *)
(***************************************************************************)

\* exit_handler tells the session to exit. Any handler interrupts a read or
\* poll that waits; the default action ends the process.
Signal ==
  \E s \in AllSignals :
    /\ pc \notin Over /\ (s = Intr => handler[s] = "intr")
    /\ IF handler[s] = "default"
       THEN pc' = "killed" /\ UNCHANGED sess
       ELSE /\ handler[s] # "ignore"
            /\ sess' = IF handler[s] = "exit" /\ instance
                       THEN [sess EXCEPT !.exited = TRUE] ELSE sess
            /\ pc' = IF pc # "blocked" \/ ~Waits THEN pc
                     ELSE IF opt.remember THEN "broken" ELSE "loop"
    /\ UNCHANGED <<opt, fd, place, open, chan, fuse, sigs, aux, wrong>>

\* Another process unmounts what is on top.
OtherUnmounts ==
  /\ pc \notin Over /\ mounts # <<>>
  /\ mounts' = Unmounted
  /\ raced' = (raced \/ (Top = "own" /\ pc \in {"mtab", "undo", "umount", "dropped"}))
  /\ UNCHANGED <<opt, pc, fd, open, life, sigs, helper, served, wrong>>

\* Nobody mounts over our file system, but where it is not, or no longer.
OtherMounts ==
  /\ pc \notin Over /\ ~Mounted /\ Len(mounts) < MaxMounts
  /\ mounts' = Append(mounts, "other")
  /\ UNCHANGED <<opt, pc, fd, open, life, sigs, helper, aux, wrong>>

\* fusermount of auto_unmount: the process has ended, its socket is closed.
HelperUnmounts ==
  /\ pc \in Over /\ helper /\ Top = "own"
  /\ mounts' = Unmounted /\ helper' = FALSE
  /\ UNCHANGED <<opt, pc, fd, open, life, sigs, aux, wrong>>

-----------------------------------------------------------------------------

Main ==
  \/ MountRefused \/ MountHelp \/ OpenDevice \/ MountSys \/ MountSysFails
  \/ AddMount \/ UndoMount
  \/ Fusermount \/ FusermountFails \/ FusermountNotRun
  \/ NewChannel \/ NewFails \/ NewFailsLate \/ New \/ Daemonize
  \/ SetSignalHandlers \/ Start \/ CheckExited \/ EnterRead
  \/ PollInterrupted \/ ReceiveUnmounted \/ ReceiveFails
  \/ RemoveSignalHandlers \/ ClearFd \/ Poll \/ Umount \/ FreeChannel \/ Destroy

Next ==
  \/ Main \/ Receive \/ PollTimeout \/ Signal
  \/ OtherUnmounts \/ OtherMounts \/ HelperUnmounts

Spec == Init /\ [][Next]_vars

\* The main thread runs; requests, signals and the others need not come.
FairSpec == Spec /\ WF_vars(Main)

(***************************************************************************)
(* What the life of the process is to keep.                                *)
(***************************************************************************)

\* On every way out of fuse_main - refused, failed half-way in fuse_mount_sys,
\* fuse_new_common, fuse_daemonize or fuse_set_signal_handlers, or after the
\* loop - the mount has been taken away, unless the umount itself failed.
MountGone == pc = "done" /\ ~MayFail("umount") => ~Mounted

\* fuse_new_common failed after its session had adopted the channel:
\* err_unmount of fuse_setup_common uses the freed channel.
Late == fuse = "none" /\ sess.life = "freed"

\* The descriptor of /dev/fuse is closed once, by the one of
\* fuse_kern_unmount, fuse_chan_destroy and fuse_session_destroy that still
\* has it, no channel is used after it was freed, and nothing stays open. One
\* way out breaks this, the late failure of fuse_new_common.
ReleasedOnce ==
  /\ wrong # {} => Late
  /\ pc = "done" /\ ~opt.help => /\ "dev" \notin open
                                 /\ "live" \notin {chan.life, sess.life, fuse}

\* A process whose file system was already unmounted leaves alone what was
\* mounted in its place (the POLLERR of fuse_kern_unmount): it takes a mount
\* of others away only if its own vanished after the poll (or after its
\* mount). Two ways out break this, since what they poll is not the device:
\* the late failure, whose descriptor is closed, and the descriptor -2.
OthersStay ==
  [][(Main /\ Len(mounts') < Len(mounts)) =>
       (Top = "own" \/ raced \/ Late \/ fd = "invalid")]_vars

\* From the end of the set-up until main returns, through the teardown too, no
\* signal kills the process: exit_handler stays installed and finds no
\* fuse_instance, so the mount cannot be left behind by a second Ctrl-C.
ServingSurvives == ~(pc = "killed" /\ served)

\* When somebody else unmounts the file system the process ends. A process
\* with remember=T and the descriptor -2 has no file system and polls on.
UnmountEndsProcess == (pc \in Loop /\ ~Mounted /\ ~PollsNothing) ~> (pc \in Over)
=============================================================================
