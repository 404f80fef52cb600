---------------------------- MODULE Daemon_proofs ----------------------------
(* The life of the process of Daemon for all options, any set of failing    *)
(* calls and any number of mounts at the mount point: nothing that was      *)
(* acquired is left behind or given back twice, no mount of others is taken *)
(* away, and no signal kills the process between set-up and end.            *)
EXTENDS Daemon, SessionLoop, TLAPS, FiniteSetTheorems, SequenceTheorems

-----------------------------------------------------------------------------
(* What is mounted.                                                         *)

(* The mount of the process is on top of the others, if it is there.        *)
OwnOnTop == \A i \in DOMAIN mounts : mounts[i] = "own" => i = Len(mounts)

MountsOK == mounts \in Seq({"own", "other"}) /\ Len(mounts) <= MaxMounts

(* So the top tells whether the process is mounted.                         *)
LEMMA TopTells ==
  ASSUME MountsOK, OwnOnTop
  PROVE  Mounted <=> Top = "own"
<1>1. CASE mounts = <<>>
  BY <1>1 DEF Mounted, Top
<1>2. CASE mounts # <<>>
  <2>1. Len(mounts) \in DOMAIN mounts
    BY <1>2 DEF MountsOK
  <2>2. QED
    BY <1>2, <2>1 DEF Mounted, Top, OwnOnTop
<1>3. QED
  BY <1>1, <1>2

(* A mount on top of what is there.                                         *)
LEMMA MountsGrow ==
  ASSUME MountsOK, ~Mounted, Len(mounts) < MaxMounts,
         NEW m \in {"own", "other"}, mounts' = Append(mounts, m)
  PROVE  MountsOK' /\ OwnOnTop' /\ (Mounted' <=> m = "own") /\ Len(mounts') > Len(mounts)
<1>1. /\ mounts' \in Seq({"own", "other"})
      /\ Len(mounts') = Len(mounts) + 1
      /\ \A i \in 1 .. Len(mounts) : mounts'[i] = mounts[i]
      /\ mounts'[Len(mounts) + 1] = m
  BY AppendProperties DEF MountsOK
<1>2. MountsOK'
  BY <1>1, DaemonAssumption DEF MountsOK
<1>3. \A i \in 1 .. Len(mounts) : mounts[i] # "own"
  BY DEF Mounted, MountsOK
<1>4. DOMAIN mounts' = 1 .. Len(mounts) + 1
  BY <1>1
<1>5. \A i \in DOMAIN mounts' : mounts'[i] = "own" => i = Len(mounts) + 1
  BY <1>1, <1>3, <1>4 DEF MountsOK
<1>6. QED
  BY <1>1, <1>2, <1>4, <1>5 DEF OwnOnTop, Mounted, MountsOK

(* An umount takes what is on top.                                          *)
LEMMA MountsShrink ==
  ASSUME MountsOK, OwnOnTop, mounts # <<>>, mounts' = Unmounted
  PROVE  MountsOK' /\ OwnOnTop' /\ ~Mounted' /\ Len(mounts') < Len(mounts)
<1>1. Len(mounts) \in Nat /\ Len(mounts) >= 1
  BY DEF MountsOK
<1>2. /\ mounts' \in Seq({"own", "other"})
      /\ Len(mounts') = Len(mounts) - 1
      /\ \A i \in 1 .. Len(mounts) - 1 : mounts'[i] = mounts[i]
  <2>1. \A i \in 1 .. Len(mounts) - 1 : mounts[i] \in {"own", "other"}
    BY <1>1 DEF MountsOK
  <2>2. 1 \in Int /\ Len(mounts) - 1 \in Int
    BY <1>1
  <2>3. /\ SubSeq(mounts, 1, Len(mounts) - 1) \in Seq({"own", "other"})
        /\ Len(SubSeq(mounts, 1, Len(mounts) - 1)) =
             IF 1 <= Len(mounts) - 1 THEN Len(mounts) - 1 - 1 + 1 ELSE 0
        /\ \A i \in 1 .. Len(mounts) - 1 - 1 + 1 :
             SubSeq(mounts, 1, Len(mounts) - 1)[i] = mounts[1 + i - 1]
    BY <2>1, <2>2, SubSeqProperties
  <2>4. Len(mounts') = Len(mounts) - 1
    <3>1. CASE Len(mounts) = 1
      BY <1>1, <2>3, <3>1 DEF Unmounted
    <3>2. CASE Len(mounts) > 1
      BY <1>1, <2>3, <3>2 DEF Unmounted
    <3>3. Len(mounts) = 1 \/ Len(mounts) > 1
      <4>1. \A n \in Nat : n >= 1 => n = 1 \/ n > 1
        OBVIOUS
      <4>2. QED
        BY <1>1, <4>1
    <3>4. QED
      BY <3>1, <3>2, <3>3
  <2>5. ASSUME NEW i \in 1 .. Len(mounts) - 1 PROVE mounts'[i] = mounts[i]
    <3>1. i \in 1 .. Len(mounts) - 1 - 1 + 1 /\ 1 + i - 1 = i
      BY <1>1
    <3>2. SubSeq(mounts, 1, Len(mounts) - 1)[i] = mounts[1 + i - 1]
      BY <2>3, <3>1
    <3>3. QED
      BY <3>1, <3>2 DEF Unmounted
  <2>6. QED
    BY <2>3, <2>4, <2>5 DEF Unmounted
<1>3. MountsOK'
  BY <1>1, <1>2, DaemonAssumption DEF MountsOK
<1>4. \A i \in DOMAIN mounts' : mounts'[i] # "own"
  BY <1>1, <1>2 DEF OwnOnTop, MountsOK
<1>5. QED
  BY <1>1, <1>2, <1>3, <1>4 DEF OwnOnTop, Mounted

-----------------------------------------------------------------------------
(* Types.                                                                   *)

(* At the start the types are right.                                        *)
LEMMA TypeInit == Init => TypeOK
<1>1. SUFFICES ASSUME Init PROVE TypeOK
  OBVIOUS
<1>2. mounts \in Seq({"own", "other"}) /\ Len(mounts) <= MaxMounts
  <2>1. CASE mounts = <<>>
    BY <2>1, DaemonAssumption
  <2>2. CASE mounts = <<"other">>
    <3>1. <<"other">> \in Seq({"own", "other"}) /\ Len(<<"other">>) = 1
      OBVIOUS
    <3>2. QED
      BY <3>1, <2>2, DaemonAssumption
  <2>3. mounts \in {<<>>, <<"other">>}
    BY <1>1, Zenon DEF Init
  <2>4. QED
    BY <2>1, <2>2, <2>3
<1>3. handler \in [AllSignals -> {"default", "user", "exit", "ignore", "intr"}]
  <2>1. handler \in [AllSignals -> {"default", "user"}]
    BY <1>1, Zenon DEF Init
  <2>2. QED
    BY <2>1
<1>4. /\ helper \in BOOLEAN /\ raced \in BOOLEAN /\ served \in BOOLEAN
      /\ instance \in BOOLEAN
  BY <1>1, Zenon DEF Init
<1>5. /\ chan \in [life : Lives, fd : Descriptors, se : BOOLEAN]
      /\ sess \in [life : Lives, ch : BOOLEAN, exited : BOOLEAN]
  <2>1. /\ chan = [life |-> "none", fd |-> "none", se |-> FALSE]
        /\ sess = [life |-> "none", ch |-> FALSE, exited |-> FALSE]
    BY <1>1, Zenon DEF Init
  <2>2. QED
    BY <2>1 DEF Lives, Descriptors
<1>6. /\ opt \in Options /\ pc = "mount" /\ fd = "none" /\ open = {"stdin"}
      /\ fuse = "none" /\ wrong = {}
  BY <1>1, Zenon DEF Init
<1>7. QED
  BY <1>2, <1>3, <1>4, <1>5, <1>6 DEF TypeOK, Lives, Loop, Over, Descriptors

(* SetHandlers gives handlers.                                              *)
LEMMA SetHandlersType ==
  ASSUME handler \in [AllSignals -> {"default", "user", "exit", "ignore", "intr"}],
         NEW which, NEW action \in {"default", "user", "exit", "ignore", "intr"}
  PROVE  SetHandlers(which, action)
           \in [AllSignals -> {"default", "user", "exit", "ignore", "intr"}]
BY DEF SetHandlers

(* TypeOK without the mounts, whose own lemmas are above.                   *)
RestOK ==
  /\ opt \in Options
  /\ pc \in {"mount", "device", "mtab", "undo", "fusermount", "again", "chan",
             "drop", "dropped", "new", "daemonize", "signals", "start",
             "teardown", "clearfd", "poll", "umount", "freechan",
             "destroy"} \cup Loop \cup Over
  /\ fd \in Descriptors
  /\ helper \in BOOLEAN /\ raced \in BOOLEAN /\ served \in BOOLEAN
  /\ open \subseteq {"stdin", "dev"}
  /\ chan \in [life : Lives, fd : Descriptors, se : BOOLEAN]
  /\ sess \in [life : Lives, ch : BOOLEAN, exited : BOOLEAN]
  /\ fuse \in Lives
  /\ handler \in [AllSignals -> {"default", "user", "exit", "ignore", "intr"}]
  /\ instance \in BOOLEAN
  /\ wrong \subseteq {"use", "close"}

(* The type invariant is these two parts.                                   *)
LEMMA TypeParts == TypeOK <=> (MountsOK /\ RestOK)
BY DEF TypeOK, MountsOK, RestOK

(* Leaving the loop keeps the types.                                        *)
LEMMA LeaveLoopRest ==
  ASSUME RestOK, LeaveLoop
  PROVE  RestOK'
<1>1. sess \in [life : Lives, ch : BOOLEAN, exited : BOOLEAN]
  BY DEF RestOK
<1>2. sess' = [sess EXCEPT !.exited = FALSE]
  BY DEF LeaveLoop
<1>3. FALSE \in BOOLEAN
  BY Zenon
<1>4. sess' \in [life : Lives, ch : BOOLEAN, exited : BOOLEAN]
  BY <1>1, <1>2, <1>3
<1>5. pc' = "teardown"
  BY DEF LeaveLoop
<1>6. UNCHANGED <<opt, fd, place, open, chan, fuse, sigs, aux, wrong>>
  BY DEF LeaveLoop
<1>7. /\ pc' \in {"teardown"} /\ opt' = opt /\ fd' = fd /\ helper' = helper
      /\ raced' = raced /\ served' = served /\ open' = open /\ chan' = chan
      /\ fuse' = fuse /\ handler' = handler /\ instance' = instance
      /\ wrong' = wrong
  BY <1>5, <1>6 DEF place, sigs, aux
<1>8. QED
  BY <1>4, <1>7 DEF RestOK

(* Every step keeps the types of everything but the mounts.                 *)
LEMMA RestStep ==
  ASSUME RestOK, [Next]_vars
  PROVE  RestOK'
<1> USE DEF RestOK, Lives, Loop, Over, Descriptors
<1> opt.autoUnmount \in BOOLEAN
  BY DaemonAssumption
<1>1. CASE UNCHANGED vars
  BY <1>1 DEF vars
<1>2. CASE MountRefused
  BY <1>2 DEF MountRefused, life, sigs, aux, place
<1>3. CASE MountHelp
  BY <1>3 DEF MountHelp, life, sigs, aux, place
<1>4. CASE OpenDevice
  <2>1. /\ pc' \in {"fusermount", "device"} /\ fd' \in {fd, "dev"}
        /\ open' \in {open, open \cup {"dev"}}
    BY <1>4, Zenon DEF OpenDevice
  <2>2. UNCHANGED <<opt, place, life, sigs, aux, wrong>>
    BY <1>4, Zenon DEF OpenDevice
  <2>3. QED
    BY <2>1, <2>2 DEF life, sigs, aux, place
<1>5. CASE MountSys
  BY <1>5 DEF MountSys, life, sigs, aux
<1>6. CASE MountSysFails
  BY <1>6 DEF MountSysFails, Close, life, sigs, aux, place
<1>7. CASE AddMount
  BY <1>7 DEF AddMount, life, sigs, aux, place
<1>8. CASE UndoMount
  BY <1>8 DEF UndoMount, Close, life, sigs, aux
<1>9. CASE Fusermount
  BY <1>9 DEF Fusermount, life, sigs, aux
<1>10. CASE FusermountFails
  BY <1>10 DEF FusermountFails, life, sigs, aux, place
<1>11. CASE NewChannel
  <2>1. chan' \in [life : Lives, fd : Descriptors, se : BOOLEAN]
    <3>1. CASE chan' = [life |-> "live", fd |-> fd, se |-> FALSE]
      BY <3>1
    <3>2. CASE chan' = chan
      BY <3>2
    <3>3. QED
      BY <1>11, <3>1, <3>2 DEF NewChannel
  <2>2. pc' \in {"new", "drop", "done"}
    BY <1>11 DEF NewChannel
  <2>3. QED
    BY <1>11, <2>1, <2>2 DEF NewChannel, sigs, aux, place
<1>12. CASE NewFails
  BY <1>12 DEF NewFails, life, sigs, aux, place
<1>13. CASE NewFailsLate
  BY <1>13 DEF NewFailsLate, DestroyChannel, Close, life, sigs, aux, place
<1>14. CASE New
  BY <1>14 DEF New, life, aux, place
<1>15. CASE Daemonize
  BY <1>15 DEF Daemonize, life, sigs, aux, place
<1>16. CASE SetSignalHandlers
  <2>1. handler' \in [AllSignals -> {"default", "user", "exit", "ignore", "intr"}]
    <3>1. \A some : SetHandlers(some, "exit")
            \in [AllSignals -> {"default", "user", "exit", "ignore", "intr"}]
      BY SetHandlersType
    <3>2. Pipe \in AllSignals
      BY DEF AllSignals
    <3>3. CASE handler' = [SetHandlers(Signals, "exit") EXCEPT ![Pipe] =
                            IF handler[Pipe] = "default" THEN "ignore"
                                                         ELSE handler[Pipe]]
      BY <3>1, <3>2, <3>3
    <3>4. CASE \E some \in SUBSET Signals : handler' = SetHandlers(some, "exit")
      BY <3>1, <3>4
    <3>5. QED
      BY <1>16, <3>3, <3>4 DEF SetSignalHandlers
  <2>2. instance' \in BOOLEAN /\ served' \in BOOLEAN
    BY <1>16, Zenon DEF SetSignalHandlers
  <2>3. QED
    BY <1>16, <2>1, <2>2 DEF SetSignalHandlers, life, sigs, aux, place
<1>17. CASE Start
  BY <1>17 DEF Start, life, sigs, aux, place
<1>18. CASE CheckExited
  <2>1. CASE sess.exited
    BY <1>18, <2>1, LeaveLoopRest DEF CheckExited
  <2>2. CASE ~sess.exited
    BY <1>18, <2>2 DEF CheckExited, life, sigs, aux, place
  <2>3. QED
    BY <2>1, <2>2
<1>19. CASE EnterRead
  BY <1>19 DEF EnterRead, life, sigs, aux, place
<1>20. CASE PollInterrupted
  BY <1>20, LeaveLoopRest DEF PollInterrupted
<1>21. CASE ReceiveUnmounted
  BY <1>21, LeaveLoopRest DEF ReceiveUnmounted
<1>22. CASE ReceiveFails
  BY <1>22, LeaveLoopRest DEF ReceiveFails
<1>23. CASE RemoveSignalHandlers
  <2>1. instance' \in BOOLEAN
    BY <1>23, Zenon DEF RemoveSignalHandlers
  <2>2. handler' \in [AllSignals -> {"default", "user", "exit", "ignore", "intr"}]
    BY <1>23, SetHandlersType DEF RemoveSignalHandlers
  <2>3. QED
    BY <1>23, <2>1, <2>2 DEF RemoveSignalHandlers, life, sigs, aux, place
<1>24. CASE ClearFd
  BY <1>24 DEF ClearFd, life, sigs, aux, place
<1>25. CASE Poll
  <2>1. raced' \in BOOLEAN
    BY <1>25, Zenon DEF Poll
  <2>2. QED
    BY <1>25, <2>1 DEF Poll, Close, life, sigs, place
<1>26. CASE Umount
  BY <1>26 DEF Umount, life, sigs, aux
<1>27. CASE FreeChannel
  <2>1. chan' \in [life : Lives, fd : Descriptors, se : BOOLEAN]
    <3>1. chan' = chan \/ chan' = [life |-> "freed", fd |-> chan.fd, se |-> FALSE]
      BY <1>27, Zenon DEF FreeChannel, DestroyChannel
    <3>2. chan.fd \in Descriptors
      OBVIOUS
    <3>3. CASE chan' = [life |-> "freed", fd |-> chan.fd, se |-> FALSE]
      BY <3>2, <3>3
    <3>4. CASE chan' = chan
      BY <3>4
    <3>5. QED
      BY <3>1, <3>3, <3>4
  <2>2. sess' \in [life : Lives, ch : BOOLEAN, exited : BOOLEAN]
    BY <1>27 DEF FreeChannel
  <2>3. open' \subseteq {"stdin", "dev"} /\ wrong' \subseteq {"use", "close"}
    BY <1>27 DEF FreeChannel, DestroyChannel, Close
  <2>4. QED
    BY <1>27, <2>1, <2>2, <2>3 DEF FreeChannel, sigs, aux, place
<1>28. CASE Destroy
  <2>1. chan' \in [life : Lives, fd : Descriptors, se : BOOLEAN]
    <3>1. chan' = chan \/ chan' = [life |-> "freed", fd |-> chan.fd, se |-> FALSE]
      BY <1>28, Zenon DEF Destroy, DestroyChannel
    <3>2. chan.fd \in Descriptors
      OBVIOUS
    <3>3. CASE chan' = [life |-> "freed", fd |-> chan.fd, se |-> FALSE]
      BY <3>2, <3>3
    <3>4. CASE chan' = chan
      BY <3>4
    <3>5. QED
      BY <3>1, <3>3, <3>4
  <2>2. /\ sess' \in [life : Lives, ch : BOOLEAN, exited : BOOLEAN]
        /\ fuse' \in Lives
        /\ handler' \in [AllSignals -> {"default", "user", "exit", "ignore", "intr"}]
    BY <1>28 DEF Destroy
  <2>3. open' \subseteq {"stdin", "dev"} /\ wrong' \subseteq {"use", "close"}
    BY <1>28 DEF Destroy, DestroyChannel, Close
  <2>4. QED
    BY <1>28, <2>1, <2>2, <2>3 DEF Destroy, aux, place
<1>29. CASE Receive
  <2>1. CASE sess.exited
    BY <1>29, <2>1, LeaveLoopRest DEF Receive
  <2>2. CASE ~sess.exited
    BY <1>29, <2>2 DEF Receive, life, sigs, aux, place
  <2>3. QED
    BY <2>1, <2>2
<1>30. CASE PollTimeout
  BY <1>30 DEF PollTimeout, life, sigs, aux, place
<1>31. CASE Signal
  <2>1. sess' \in [life : Lives, ch : BOOLEAN, exited : BOOLEAN]
    <3>1. sess' = sess \/ sess' = [sess EXCEPT !.exited = TRUE]
      BY <1>31 DEF Signal
    <3>2. QED
      BY <3>1
  <2>2. pc' \in {pc, "killed", "broken", "loop"}
    BY <1>31 DEF Signal
  <2>3. UNCHANGED <<opt, fd, place, open, chan, fuse, sigs, aux, wrong>>
    BY <1>31 DEF Signal
  <2>4. QED
    BY <2>1, <2>2, <2>3 DEF sigs, aux, place
<1>32. CASE OtherUnmounts
  BY <1>32 DEF OtherUnmounts, life, sigs
<1>33. CASE OtherMounts
  BY <1>33 DEF OtherMounts, life, sigs, aux
<1>34. CASE HelperUnmounts
  <2>1. helper' \in BOOLEAN
    BY <1>34, Zenon DEF HelperUnmounts
  <2>2. QED
    BY <1>34, <2>1 DEF HelperUnmounts, life, sigs, aux
<1>35. CASE FusermountNotRun
  BY <1>35 DEF FusermountNotRun, life, sigs, aux, place
<1>36. QED
  BY <1>1, <1>2, <1>3, <1>4, <1>5, <1>6, <1>7, <1>8, <1>9, <1>10, <1>11,
     <1>12, <1>13, <1>14, <1>15, <1>16, <1>17, <1>18, <1>19, <1>20, <1>21,
     <1>22, <1>23, <1>24, <1>25, <1>26, <1>27, <1>28, <1>29, <1>30, <1>31,
     <1>32, <1>33, <1>34, <1>35 DEF Next, Main

(* Every step keeps the type of the mounts.                                 *)
LEMMA MountsStep ==
  ASSUME MountsOK, OwnOnTop, [Next]_vars,
         pc \in {"device", "fusermount", "again"} => ~Mounted
  PROVE  MountsOK' /\ OwnOnTop'
<1>1. CASE UNCHANGED mounts
  BY <1>1 DEF MountsOK, OwnOnTop
<1>2. CASE MountSys \/ Fusermount
  BY <1>2, MountsGrow DEF MountSys, Fusermount
<1>3. CASE OtherMounts
  BY <1>3, MountsGrow DEF OtherMounts
<1>4. CASE mounts # <<>> /\ mounts' = Unmounted
  BY <1>4, MountsShrink
<1>5. CASE HelperUnmounts
  <2>1. mounts # <<>> /\ mounts' = Unmounted
    BY <1>5 DEF HelperUnmounts, Top
  <2>2. QED
    BY <1>4, <2>1
<1>6. CASE UndoMount \/ Umount \/ OtherUnmounts
  BY <1>1, <1>4, <1>6 DEF UndoMount, Umount, OtherUnmounts
<1>7. CASE MountRefused \/ MountHelp \/ OpenDevice \/ MountSysFails
  BY <1>1, <1>7 DEF MountRefused, place, MountHelp, OpenDevice,
               MountSysFails, Close
<1>8. CASE AddMount \/ FusermountFails \/ FusermountNotRun \/ NewChannel \/ NewFails
  BY <1>1, <1>8 DEF AddMount, place, FusermountFails, FusermountNotRun, NewChannel,
               NewFails
<1>9. CASE NewFailsLate \/ New \/ Daemonize \/ SetSignalHandlers
  BY <1>1, <1>9 DEF NewFailsLate, DestroyChannel, Close, place, New,
               Daemonize, SetSignalHandlers
<1>10. CASE Start \/ CheckExited \/ EnterRead \/ PollInterrupted
  BY <1>1, <1>10 DEF Start, place, CheckExited, LeaveLoop, EnterRead,
               PollInterrupted
<1>11. CASE ReceiveUnmounted \/ ReceiveFails \/ RemoveSignalHandlers \/
           ClearFd
  BY <1>1, <1>11 DEF ReceiveUnmounted, LeaveLoop, place, ReceiveFails,
               RemoveSignalHandlers, ClearFd
<1>12. CASE Poll \/ FreeChannel \/ Destroy \/ Receive
  BY <1>1, <1>12 DEF Poll, Close, place, FreeChannel, DestroyChannel,
               Destroy, Receive, LeaveLoop
<1>13. CASE PollTimeout \/ Signal
  BY <1>1, <1>13 DEF PollTimeout, place, Signal
<1>14. CASE UNCHANGED vars
  BY <1>1, <1>14 DEF vars
<1>15. QED
  BY <1>2, <1>3, <1>4, <1>5, <1>6, <1>7, <1>8, <1>9, <1>10, <1>11, <1>12,
     <1>13, <1>14 DEF Next, Main

-----------------------------------------------------------------------------
(* Signals.                                                                 *)

(* From the end of the set-up on, no signal that may come has the default   *)
(* action, and who was killed had not got that far.                         *)
SignalsHandled ==
  /\ served /\ pc # "done" => \A s \in Signals \cup {Pipe} : handler[s] # "default"
  /\ pc = "killed" => ~served

(* Every step keeps that signals are handled.                               *)
LEMMA SignalsStep ==
  ASSUME RestOK, SignalsHandled, [Next]_vars
  PROVE  SignalsHandled'
<1>1. CASE /\ handler' = handler /\ served' = served
           /\ pc = "done" => pc' = "done"
           /\ pc' = "killed" => pc = "killed"
  BY <1>1 DEF SignalsHandled
<1>2. CASE New
  <2>1. /\ served' = served /\ pc = "new" /\ pc' = "daemonize"
        /\ handler' \in {handler, [handler EXCEPT ![Intr] = "intr"]}
    BY <1>2, Zenon DEF New, aux
  <2>2. \A s \in AllSignals : handler[s] # "default" => handler'[s] # "default"
    BY <2>1 DEF RestOK
  <2>3. QED
    BY <2>1, <2>2 DEF SignalsHandled, AllSignals
<1>3. CASE SetSignalHandlers
  <2>1. CASE pc' = "start"
    <3>1. /\ handler' = [SetHandlers(Signals, "exit") EXCEPT ![Pipe] =
                            IF handler[Pipe] = "default" THEN "ignore"
                                                         ELSE handler[Pipe]]
      BY <1>3, <2>1 DEF SetSignalHandlers
    <3>2. \A s \in Signals \cup {Pipe} : handler'[s] # "default"
      BY <3>1 DEF SetHandlers, AllSignals
    <3>3. QED
      BY <2>1, <3>2 DEF SignalsHandled
  <2>2. CASE pc' = "clearfd"
    <3>1. served' = served /\ pc = "signals"
      BY <1>3, <2>2 DEF SetSignalHandlers
    <3>2. PICK some : handler' = SetHandlers(some, "exit")
      BY <1>3, <2>2 DEF SetSignalHandlers
    <3>3. \A s \in AllSignals : handler[s] # "default" => handler'[s] # "default"
      BY <3>2 DEF SetHandlers
    <3>4. QED
      BY <2>2, <3>1, <3>3 DEF SignalsHandled, AllSignals
  <2>3. QED
    BY <1>3, <2>1, <2>2 DEF SetSignalHandlers
<1>4. CASE RemoveSignalHandlers
  <2>1. handler' = SetHandlers(AllSignals, "default") /\ served' = served
        /\ pc = "teardown" /\ pc' = "clearfd"
    BY <1>4, Zenon DEF RemoveSignalHandlers, aux
  <2>2. \A s \in AllSignals : handler[s] # "default" => handler'[s] # "default"
    BY <2>1 DEF SetHandlers
  <2>3. QED
    BY <2>1, <2>2 DEF SignalsHandled, AllSignals
<1>5. CASE Destroy
  BY <1>5 DEF Destroy, SignalsHandled
<1>6. CASE Signal
  <2>1. PICK s \in AllSignals :
          /\ s = Intr => handler[s] = "intr"
          /\ IF handler[s] = "default" THEN pc' = "killed"
             ELSE pc' \in {pc, "broken", "loop"}
    BY <1>6, Zenon DEF Signal
  <2>2. handler' = handler /\ served' = served /\ pc # "done"
    BY <1>6, Zenon DEF Signal, sigs, aux, Over
  <2>3. QED
    BY <2>1, <2>2 DEF SignalsHandled, AllSignals, Pipe, Intr
<1>7. CASE MountRefused \/ MountHelp \/ OpenDevice
  BY <1>1, <1>7 DEF MountRefused, sigs, aux, MountHelp, OpenDevice, Over
<1>8. CASE MountSys \/ MountSysFails \/ AddMount
  BY <1>1, <1>8 DEF MountSys, sigs, aux, MountSysFails, Close, AddMount,
               Over
<1>9. CASE UndoMount \/ Fusermount \/ FusermountFails \/ FusermountNotRun
  BY <1>1, <1>9 DEF UndoMount, Close, sigs, aux, Fusermount,
               FusermountFails, FusermountNotRun, Over
<1>10. CASE NewChannel \/ NewFails \/ NewFailsLate
  BY <1>1, <1>10 DEF NewChannel, sigs, aux, NewFails, NewFailsLate,
               DestroyChannel, Close, Over
<1>11. CASE Daemonize \/ Start \/ CheckExited
  BY <1>1, <1>11 DEF Daemonize, sigs, aux, Start, CheckExited, LeaveLoop,
               Over
<1>12. CASE EnterRead \/ PollInterrupted \/ ReceiveUnmounted
  BY <1>1, <1>12 DEF EnterRead, sigs, aux, PollInterrupted, LeaveLoop,
               ReceiveUnmounted, Over
<1>13. CASE ReceiveFails \/ ClearFd \/ Poll
  BY <1>1, <1>13 DEF ReceiveFails, LeaveLoop, sigs, aux, ClearFd, Poll,
               Close, Over
<1>14. CASE Umount \/ FreeChannel \/ Receive
  BY <1>1, <1>14 DEF Umount, sigs, aux, FreeChannel, DestroyChannel, Close,
               Receive, LeaveLoop, Over
<1>15. CASE PollTimeout \/ OtherUnmounts \/ OtherMounts
  BY <1>1, <1>15 DEF PollTimeout, sigs, aux, OtherUnmounts, OtherMounts,
               Over
<1>16. CASE HelperUnmounts
  BY <1>1, <1>16 DEF HelperUnmounts, sigs, aux, Over
<1>17. CASE UNCHANGED vars
  BY <1>1, <1>17 DEF vars
<1>18. QED
  BY <1>2, <1>3, <1>4, <1>5, <1>6, <1>7, <1>8, <1>9, <1>10, <1>11, <1>12,
     <1>13, <1>14, <1>15, <1>16, <1>17 DEF Next, Main

-----------------------------------------------------------------------------
(* The mount.                                                               *)

(* Only a process with a mount point mounts, it does so once, and it is     *)
(* past its umount before it frees the channel.                             *)
MountKnown ==
  /\ OwnOnTop
  /\ Mounted => opt.mountpoint
  /\ pc \in {"device", "fusermount", "again"} => opt.mountpoint
  /\ pc \in {"mount", "device", "fusermount", "again"} => ~Mounted
  /\ pc \in {"freechan", "destroy", "done"} => ~Mounted \/ MayFail("umount")

(* A step that leaves the mounts alone keeps it, if it leads to a place     *)
(* where less is known of them.                                             *)
LEMMA MountsAlone ==
  ASSUME MountKnown, UNCHANGED <<mounts, opt>>,
         pc' \in {"device", "fusermount", "again"} => opt.mountpoint,
         pc' \in {"mount", "device", "fusermount", "again"} => ~Mounted,
         pc' \in {"freechan", "destroy", "done"} => ~Mounted \/ MayFail("umount")
  PROVE  MountKnown'
BY DEF MountKnown, OwnOnTop, Mounted, MayFail

(* Every step keeps what is known of the mount.                             *)
LEMMA MountKnownStep ==
  ASSUME MountsOK, RestOK, MountKnown, [Next]_vars
  PROVE  MountKnown'
<1>0. /\ OwnOnTop
      /\ pc \in {"device", "fusermount", "again"} => ~Mounted
  BY DEF MountKnown
<1>1. OwnOnTop'
  BY <1>0, MountsStep
<1>2. CASE MountSys \/ Fusermount
  <2>1. opt' = opt /\ pc' \in {"mtab", "chan"} /\ opt.mountpoint
    BY <1>2 DEF MountSys, Fusermount, MountKnown
  <2>2. QED
    BY <1>1, <2>1 DEF MountKnown
<1>3. CASE OtherMounts
  <2>1. opt' = opt /\ pc' = pc /\ ~Mounted /\ ~Mounted'
    BY <1>0, <1>3, MountsGrow DEF OtherMounts
  <2>2. QED
    BY <1>1, <2>1 DEF MountKnown, MayFail
<1>4. CASE UndoMount \/ Umount \/ OtherUnmounts \/ HelperUnmounts
  <2>1. CASE mounts # <<>> /\ mounts' = Unmounted
    <3>1. ~Mounted'
      BY <1>0, <2>1, MountsShrink
    <3>2. opt' = opt /\ (pc' \in {"freechan", "done"} \/ pc' = pc)
      BY <1>4 DEF UndoMount, Umount, OtherUnmounts, HelperUnmounts
    <3>3. QED
      BY <1>1, <3>1, <3>2 DEF MountKnown, MayFail
  <2>2. CASE ~(mounts # <<>> /\ mounts' = Unmounted)
    <3>0. Top = "own" => mounts # <<>>
      BY DEF Top
    <3>1. /\ pc' \in {"freechan", "done"} /\ (MayFail("umount") \/ mounts = <<>>)
          /\ mounts' = mounts
      BY <1>4, <2>2, <3>0 DEF UndoMount, Umount, OtherUnmounts, HelperUnmounts
    <3>2. mounts = <<>> => ~Mounted
      BY DEF Mounted
    <3>3. opt' = opt
      BY <1>4 DEF UndoMount, Umount, OtherUnmounts, HelperUnmounts
    <3>4. QED
      BY <3>1, <3>2, <3>3, MountsAlone
  <2>3. QED
    BY <2>1, <2>2
<1>5. CASE MountSysFails \/ FusermountFails \/ MountRefused \/ OpenDevice
  BY <1>5, MountsAlone
     DEF MountSysFails, FusermountFails, MountRefused, OpenDevice, place, MountKnown
<1>6. CASE NewChannel
  <2>1. pc' = "done" => ~Mounted
    BY <1>6 DEF NewChannel, MountKnown
  <2>2. UNCHANGED <<mounts, opt>> /\ pc' \in {"new", "drop", "done"}
    BY <1>6 DEF NewChannel, place
  <2>3. QED
    BY <2>1, <2>2, MountsAlone
<1>7. CASE ClearFd
  <2>1. pc' = "destroy" => ~Mounted
    BY <1>7 DEF ClearFd, MountKnown
  <2>2. UNCHANGED <<mounts, opt>> /\ pc' \in {"poll", "destroy"}
    BY <1>7 DEF ClearFd, place
  <2>3. QED
    BY <2>1, <2>2, MountsAlone
<1>8. CASE Poll
  <2>1. pc' \in {"freechan", "done"} => ~Mounted
    BY <1>8 DEF Poll, Pollerr
  <2>2. UNCHANGED <<mounts, opt>> /\ pc' \in {"freechan", "done", "dropped", "umount"}
    BY <1>8 DEF Poll, place
  <2>3. QED
    BY <2>1, <2>2, MountsAlone
<1>9. CASE FreeChannel \/ Destroy
  <2>1. UNCHANGED <<mounts, opt>> /\ pc \in {"freechan", "destroy"}
        /\ pc' \in {"destroy", "done"}
    BY <1>9, Zenon DEF FreeChannel, Destroy, place
  <2>2. QED
    BY <2>1, MountsAlone DEF MountKnown
<1>10. CASE Signal
  <2>1. UNCHANGED <<mounts, opt>> /\ (pc' = pc \/ pc' \in {"killed", "broken", "loop"})
    BY <1>10, Zenon DEF Signal, place
  <2>2. QED
    BY <2>1, MountsAlone DEF MountKnown
<1>11. CASE MountHelp \/ AddMount \/ NewFails \/ FusermountNotRun
  BY <1>11, MountsAlone DEF MountHelp, place, AddMount, NewFails, FusermountNotRun
<1>12. CASE NewFailsLate \/ New \/ Daemonize
  BY <1>12, MountsAlone DEF NewFailsLate, DestroyChannel, Close, place, New,
               Daemonize
<1>13. CASE SetSignalHandlers \/ Start \/ CheckExited
  BY <1>13, MountsAlone DEF SetSignalHandlers, place, Start, CheckExited,
               LeaveLoop
<1>14. CASE EnterRead \/ PollInterrupted \/ ReceiveUnmounted
  BY <1>14, MountsAlone DEF EnterRead, place, PollInterrupted, LeaveLoop,
               ReceiveUnmounted
<1>15. CASE ReceiveFails \/ RemoveSignalHandlers \/ Receive
  BY <1>15, MountsAlone DEF ReceiveFails, LeaveLoop, place,
               RemoveSignalHandlers, Receive
<1>16. CASE PollTimeout
  BY <1>16, MountsAlone DEF PollTimeout, place
<1>17. CASE UNCHANGED vars
  BY <1>17, MountsAlone DEF vars, MountKnown
<1>18. QED
  BY <1>2, <1>3, <1>4, <1>5, <1>6, <1>7, <1>8, <1>9, <1>10, <1>11, <1>12,
     <1>13, <1>14, <1>15, <1>16, <1>17 DEF Next, Main

-----------------------------------------------------------------------------
(* What the process has.                                                    *)

(* Nobody asks for help and for a mount in one command line: the mount      *)
(* point of such a one is unmounted although nothing was mounted there.     *)
NoHelpMount == \A o \in Options : ~(o.help /\ o.mountpoint)

Setup == {"daemonize", "signals", "start", "teardown"} \cup Loop

Fresh == chan.life = "none" /\ sess.life = "none" /\ fuse = "none"
Whole == fuse = "live" /\ sess.life = "live" /\ sess.ch /\ chan.se
Bare == fuse = "none" /\ sess.life = "none" /\ ~chan.se
HasDevice == "dev" \in open

(* d is what fuse_kern_mount returned: the open device, or -2 and nothing.  *)
Returned(d) == (d = "dev" /\ HasDevice) \/ (d = "invalid" /\ ~HasDevice)

(* What the process has at each place on its way.                           *)
AtPlace ==
  /\ pc \in {"mount", "fusermount", "again", "dropped"} => Fresh /\ ~HasDevice
  /\ pc \in {"device", "mtab", "undo"} => Fresh /\ fd = "dev" /\ HasDevice
  /\ pc = "drop" => Fresh /\ Returned(fd)
  /\ pc = "chan" => Fresh /\ (opt.help \/ Returned(fd))
  /\ pc = "new" => /\ chan.life = "live" /\ Bare
                   /\ opt.help \/ Returned(chan.fd)
  /\ pc \in Setup => chan.life = "live" /\ Whole /\ Returned(chan.fd)
  /\ pc = "clearfd" =>
       Late \/ /\ chan.life = "live" /\ (Whole \/ Bare)
               /\ opt.help \/ Returned(chan.fd)
  /\ pc = "poll" =>
       Late \/ /\ chan.life = "live" /\ (Whole \/ Bare)
               /\ chan.fd = "none" /\ Returned(fd)
  /\ pc \in {"umount", "freechan"} =>
       Late \/ /\ chan.life = "live" /\ (Whole \/ Bare)
               /\ chan.fd = "none" /\ ~HasDevice
  /\ pc = "destroy" =>
       opt.help \/ /\ chan.life # "live" /\ ~HasDevice
                   /\ fuse = "live" => ~sess.ch
                   /\ fuse # "live" => sess.life # "live"
  /\ pc = "done" =>
       opt.help \/ /\ ~HasDevice
                   /\ chan.life # "live" /\ sess.life # "live" /\ fuse # "live"

Places ==
  /\ opt.help => /\ ~opt.mountpoint
                 /\ fuse = "none" /\ sess.life = "none" /\ wrong = {}
                 /\ pc \in {"mount", "chan", "new", "clearfd", "destroy", "done",
                            "killed"}
  /\ pc \notin {"mount", "done", "killed"} => opt.help \/ opt.mountpoint
  /\ Late => /\ chan.life = "freed" /\ ~HasDevice
             /\ pc \in {"clearfd", "poll", "umount", "freechan", "destroy", "done",
                        "killed"}
  /\ wrong # {} => Late

(* Every step keeps what the process has at its place.                      *)
LEMMA PlacesStep ==
  ASSUME NoHelpMount, RestOK, AtPlace, Places, [Next]_vars
  PROVE  AtPlace' /\ Places'
<1> ~(opt.help /\ opt.mountpoint)
  BY DEF NoHelpMount, RestOK
<1>1. CASE MountRefused
  BY <1>1 DEF MountRefused, life, sigs, aux, place, RestOK, Lives, AtPlace,
             Places, Late, Fresh, Whole, Bare, HasDevice, Returned, Setup, Loop
<1>2. CASE MountHelp
  BY <1>2 DEF MountHelp, life, sigs, aux, place, RestOK, Lives, AtPlace,
             Places, Late, Fresh, Whole, Bare, HasDevice, Returned, Setup, Loop
<1>3. CASE OpenDevice
  BY <1>3 DEF OpenDevice, life, sigs, aux, place, RestOK, Lives, AtPlace,
             Places, Late, Fresh, Whole, Bare, HasDevice, Returned, Setup, Loop
<1>4. CASE MountSys
  BY <1>4 DEF MountSys, life, sigs, aux, RestOK, Lives, AtPlace, Places,
             Late, Fresh, Whole, Bare, HasDevice, Returned, Setup, Loop
<1>5. CASE MountSysFails
  BY <1>5 DEF MountSysFails, Close, life, sigs, aux, place, RestOK, Lives,
             AtPlace, Places, Late, Fresh, Whole, Bare, HasDevice, Returned, Setup,
             Loop
<1>6. CASE AddMount
  BY <1>6 DEF AddMount, life, sigs, aux, place, RestOK, Lives, AtPlace,
             Places, Late, Fresh, Whole, Bare, HasDevice, Returned, Setup, Loop
<1>7. CASE UndoMount
  BY <1>7 DEF UndoMount, Close, life, sigs, aux, RestOK, Lives, AtPlace,
             Places, Late, Fresh, Whole, Bare, HasDevice, Returned, Setup, Loop
<1>8. CASE Fusermount
  BY <1>8 DEF Fusermount, life, sigs, aux, RestOK, Lives, AtPlace, Places,
             Late, Fresh, Whole, Bare, HasDevice, Returned, Setup, Loop
<1>9. CASE FusermountFails
  BY <1>9 DEF FusermountFails, life, sigs, aux, place, RestOK, Lives,
             AtPlace, Places, Late, Fresh, Whole, Bare, HasDevice, Returned, Setup,
             Loop
<1>10. CASE NewChannel
  BY <1>10 DEF NewChannel, life, sigs, aux, place, RestOK, Lives, AtPlace,
             Places, Late, Fresh, Whole, Bare, HasDevice, Returned, Setup, Loop
<1>11. CASE NewFails
  BY <1>11 DEF NewFails, life, sigs, aux, place, RestOK, Lives, AtPlace,
             Places, Late, Fresh, Whole, Bare, HasDevice, Returned, Setup, Loop
<1>12. CASE NewFailsLate
  BY <1>12 DEF NewFailsLate, DestroyChannel, Close, life, sigs, aux, place,
             RestOK, Lives, AtPlace, Places, Late, Fresh, Whole, Bare,
             HasDevice, Returned, Setup, Loop
<1>13. CASE New
  BY <1>13 DEF New, life, aux, place, RestOK, Lives, AtPlace, Places, Late,
             Fresh, Whole, Bare, HasDevice, Returned, Setup, Loop
<1>14. CASE Daemonize
  BY <1>14 DEF Daemonize, life, sigs, aux, place, RestOK, Lives, AtPlace,
             Places, Late, Fresh, Whole, Bare, HasDevice, Returned, Setup, Loop
<1>15. CASE SetSignalHandlers
  BY <1>15 DEF SetSignalHandlers, life, place, RestOK, Lives, AtPlace,
             Places, Late, Fresh, Whole, Bare, HasDevice, Returned, Setup, Loop
<1>16. CASE Start
  BY <1>16 DEF Start, life, sigs, aux, place, RestOK, Lives, AtPlace,
             Places, Late, Fresh, Whole, Bare, HasDevice, Returned, Setup, Loop
<1>17. CASE CheckExited
  BY <1>17 DEF CheckExited, LeaveLoop, life, sigs, aux, place, RestOK,
             Lives, AtPlace, Places, Late, Fresh, Whole, Bare, HasDevice,
             Returned, Setup, Loop
<1>18. CASE EnterRead
  BY <1>18 DEF EnterRead, life, sigs, aux, place, RestOK, Lives, AtPlace,
             Places, Late, Fresh, Whole, Bare, HasDevice, Returned, Setup, Loop
<1>19. CASE PollInterrupted
  BY <1>19 DEF PollInterrupted, LeaveLoop, sigs, aux, place, RestOK, Lives,
             AtPlace, Places, Late, Fresh, Whole, Bare, HasDevice, Returned, Setup,
             Loop
<1>20. CASE ReceiveUnmounted
  BY <1>20 DEF ReceiveUnmounted, LeaveLoop, sigs, aux, place, RestOK, Lives,
             AtPlace, Places, Late, Fresh, Whole, Bare, HasDevice, Returned, Setup,
             Loop
<1>21. CASE ReceiveFails
  BY <1>21 DEF ReceiveFails, LeaveLoop, sigs, aux, place, RestOK, Lives,
             AtPlace, Places, Late, Fresh, Whole, Bare, HasDevice, Returned, Setup,
             Loop
<1>22. CASE RemoveSignalHandlers
  BY <1>22 DEF RemoveSignalHandlers, life, aux, place, RestOK, Lives,
             AtPlace, Places, Late, Fresh, Whole, Bare, HasDevice, Returned, Setup,
             Loop
<1>23. CASE ClearFd
  BY <1>23 DEF ClearFd, life, sigs, aux, place, RestOK, Lives, AtPlace,
             Places, Late, Fresh, Whole, Bare, HasDevice, Returned, Setup, Loop
<1>24. CASE Poll
  BY <1>24 DEF Poll, Close, life, sigs, place, RestOK, Lives, AtPlace,
             Places, Late, Fresh, Whole, Bare, HasDevice, Returned, Setup, Loop
<1>25. CASE Umount
  BY <1>25 DEF Umount, life, sigs, aux, RestOK, Lives, AtPlace, Places,
             Late, Fresh, Whole, Bare, HasDevice, Returned, Setup, Loop
<1>26. CASE FreeChannel
  BY <1>26 DEF FreeChannel, DestroyChannel, Close, life, sigs, aux, place,
             RestOK, Lives, AtPlace, Places, Late, Fresh, Whole, Bare,
             HasDevice, Returned, Setup, Loop
<1>27. CASE Destroy
  BY <1>27 DEF Destroy, DestroyChannel, Close, life, aux, place, RestOK,
             Lives, AtPlace, Places, Late, Fresh, Whole, Bare, HasDevice,
             Returned, Setup, Loop
<1>28. CASE Receive
  BY <1>28 DEF Receive, LeaveLoop, life, sigs, aux, place, RestOK, Lives,
             AtPlace, Places, Late, Fresh, Whole, Bare, HasDevice, Returned, Setup,
             Loop
<1>29. CASE PollTimeout
  BY <1>29 DEF PollTimeout, life, sigs, aux, place, RestOK, Lives, AtPlace,
             Places, Late, Fresh, Whole, Bare, HasDevice, Returned, Setup, Loop
<1>30. CASE Signal
  BY <1>30 DEF Signal, sigs, aux, place, RestOK, Lives, AtPlace, Places,
             Late, Fresh, Whole, Bare, HasDevice, Returned, Setup, Loop
<1>31. CASE OtherUnmounts
  BY <1>31 DEF OtherUnmounts, life, sigs, RestOK, Lives, AtPlace, Places,
             Late, Fresh, Whole, Bare, HasDevice, Returned, Setup, Loop
<1>32. CASE OtherMounts
  BY <1>32 DEF OtherMounts, life, sigs, aux, RestOK, Lives, AtPlace, Places,
             Late, Fresh, Whole, Bare, HasDevice, Returned, Setup, Loop
<1>33. CASE HelperUnmounts
  BY <1>33 DEF HelperUnmounts, life, sigs, aux, RestOK, Lives, AtPlace,
             Places, Late, Fresh, Whole, Bare, HasDevice, Returned, Setup, Loop
<1>34. CASE UNCHANGED vars
  BY <1>34 DEF vars, AtPlace, Places, Late, Fresh, Whole, Bare, HasDevice,
             Returned
<1>35. CASE FusermountNotRun
  BY <1>35 DEF FusermountNotRun, life, sigs, aux, place, RestOK, Lives, AtPlace,
             Places, Late, Fresh, Whole, Bare, HasDevice, Returned, Setup, Loop
<1>36. QED
  BY <1>1, <1>2, <1>3, <1>4, <1>5, <1>6, <1>7, <1>8, <1>9, <1>10, <1>11,
     <1>12, <1>13, <1>14, <1>15, <1>16, <1>17, <1>18, <1>19, <1>20, <1>21,
     <1>22, <1>23, <1>24, <1>25, <1>26, <1>27, <1>28, <1>29, <1>30, <1>31,
     <1>32, <1>33, <1>34, <1>35 DEF Next, Main

-----------------------------------------------------------------------------
(* Whose mount is taken away.                                               *)

(* Where the process is about to unmount, its mount is there, or vanished   *)
(* after it looked, or it looked at what is not the device.                 *)
AboutToUnmount == {"mtab", "undo", "umount", "dropped"}
UnmountsOwn == pc \in AboutToUnmount => Mounted \/ raced \/ Late \/ fd = "invalid"

(* Every step keeps that the process unmounts its own.                      *)
LEMMA UnmountsOwnStep ==
  ASSUME MountsOK, RestOK, MountKnown, AtPlace, UnmountsOwn, [Next]_vars
  PROVE  UnmountsOwn'
<1> USE DEF AboutToUnmount
<1>0. OwnOnTop /\ (pc \in {"device", "fusermount", "again"} => ~Mounted)
  BY DEF MountKnown
<1>1. CASE pc' \notin AboutToUnmount
  BY <1>1 DEF UnmountsOwn
<1>2. CASE /\ mounts' = mounts /\ raced' = raced /\ fd' = fd
           /\ (Late => Late') /\ pc \in AboutToUnmount
  BY <1>2 DEF UnmountsOwn, Mounted
<1>3. CASE MountSys
  <2>1. Mounted'
    BY <1>0, <1>3, MountsGrow DEF MountSys
  <2>2. QED
    BY <2>1 DEF UnmountsOwn
<1>4. CASE Poll
  <2>1. /\ mounts' = mounts /\ fd' = fd /\ (Late => Late')
        /\ pc' \in {"umount", "dropped"} => Mounted \/ Late \/ fd = "invalid"
    BY <1>4 DEF Poll, Pollerr, place, life, AtPlace, Returned, HasDevice, Late
  <2>2. Mounted' <=> Mounted
    BY <2>1 DEF Mounted
  <2>3. pc' \in {"umount", "dropped", "freechan", "done"}
    BY <1>4 DEF Poll
  <2>4. QED
    BY <2>1, <2>2, <2>3 DEF UnmountsOwn
<1>5. CASE OtherUnmounts
  <2>1. pc \in AboutToUnmount /\ Mounted => raced'
    BY <1>0, <1>5, TopTells DEF OtherUnmounts
  <2>2. raced => raced'
    BY <1>5 DEF OtherUnmounts
  <2>3. pc' = pc /\ fd' = fd /\ (Late => Late')
    BY <1>5 DEF OtherUnmounts, life, Late
  <2>4. QED
    BY <2>1, <2>2, <2>3 DEF UnmountsOwn
<1>6. CASE OtherMounts
  BY <1>6 DEF OtherMounts, UnmountsOwn, aux, life, Late
<1>7. CASE HelperUnmounts
  BY <1>1, <1>7 DEF HelperUnmounts, Over
<1>8. CASE Signal
  <2>1. /\ pc' = pc \/ pc' \in {"killed", "broken", "loop"}
        /\ mounts' = mounts /\ raced' = raced /\ fd' = fd /\ fuse' = fuse
    BY <1>8, Zenon DEF Signal, place, aux
  <2>2. sess' = sess \/ sess' = [sess EXCEPT !.exited = TRUE]
    BY <1>8, Zenon DEF Signal
  <2>3. sess'.life = sess.life
    BY <2>2 DEF RestOK
  <2>4. QED
    BY <1>1, <1>2, <2>1, <2>3 DEF Late
<1>9. CASE AddMount
  BY <1>1, <1>2, <1>9 DEF AddMount, place, aux, life, Late
<1>10. CASE MountRefused \/ MountHelp \/ OpenDevice
  BY <1>1, <1>10 DEF MountRefused, MountHelp, OpenDevice
<1>11. CASE MountSysFails \/ UndoMount \/ Fusermount
  BY <1>1, <1>11 DEF MountSysFails, UndoMount, Fusermount
<1>12. CASE FusermountFails \/ FusermountNotRun \/ NewChannel \/ NewFails
  BY <1>1, <1>12 DEF FusermountFails, FusermountNotRun, NewChannel, NewFails
<1>13. CASE NewFailsLate \/ New \/ Daemonize
  BY <1>1, <1>13 DEF NewFailsLate, New, Daemonize
<1>14. CASE SetSignalHandlers \/ Start \/ CheckExited
  BY <1>1, <1>14 DEF SetSignalHandlers, Start, CheckExited, LeaveLoop
<1>15. CASE EnterRead \/ PollInterrupted \/ ReceiveUnmounted
  BY <1>1, <1>15 DEF EnterRead, PollInterrupted, LeaveLoop, ReceiveUnmounted
<1>16. CASE ReceiveFails \/ RemoveSignalHandlers \/ ClearFd
  BY <1>1, <1>16 DEF ReceiveFails, LeaveLoop, RemoveSignalHandlers, ClearFd
<1>17. CASE Umount \/ FreeChannel \/ Destroy
  BY <1>1, <1>17 DEF Umount, FreeChannel, Destroy
<1>18. CASE Receive \/ PollTimeout
  BY <1>1, <1>18 DEF Receive, LeaveLoop, PollTimeout
<1>19. CASE UNCHANGED vars
  BY <1>1, <1>2, <1>19 DEF vars, Late
<1>20. QED
  BY <1>3, <1>4, <1>5, <1>6, <1>7, <1>8, <1>9, <1>10, <1>11, <1>12, <1>13,
     <1>14, <1>15, <1>16, <1>17, <1>18, <1>19 DEF Next, Main

(* Only two steps of the main thread unmount.                               *)
LEMMA UnmountersKnown ==
  ASSUME MountsOK, RestOK, MountKnown, AtPlace, UnmountsOwn,
         Main, Len(mounts') < Len(mounts)
  PROVE  Top = "own" \/ raced \/ Late \/ fd = "invalid"
<1>0. OwnOnTop /\ (pc \in {"device", "fusermount", "again"} => ~Mounted)
  BY DEF MountKnown
<1>1. mounts' # mounts
  BY DEF MountsOK
<1>2. CASE MountSys \/ Fusermount
  BY <1>0, <1>2, MountsGrow DEF MountSys, Fusermount, MountsOK
<1>3. CASE UndoMount \/ Umount
  <2>1. pc \in AboutToUnmount
    BY <1>3 DEF UndoMount, Umount, AboutToUnmount
  <2>2. QED
    BY <1>0, <2>1, TopTells DEF UnmountsOwn
<1>4. CASE MountRefused \/ MountHelp \/ OpenDevice \/ MountSysFails
  BY <1>1, <1>4 DEF MountRefused, place, MountHelp, OpenDevice,
               MountSysFails, Close
<1>5. CASE AddMount \/ FusermountFails \/ FusermountNotRun \/ NewChannel \/ NewFails
  BY <1>1, <1>5 DEF AddMount, place, FusermountFails, FusermountNotRun, NewChannel,
               NewFails
<1>6. CASE NewFailsLate \/ New \/ Daemonize \/ SetSignalHandlers
  BY <1>1, <1>6 DEF NewFailsLate, DestroyChannel, Close, place, New,
               Daemonize, SetSignalHandlers
<1>7. CASE Start \/ CheckExited \/ EnterRead \/ PollInterrupted
  BY <1>1, <1>7 DEF Start, place, CheckExited, LeaveLoop, EnterRead,
               PollInterrupted
<1>8. CASE ReceiveUnmounted \/ ReceiveFails \/ RemoveSignalHandlers \/
            ClearFd
  BY <1>1, <1>8 DEF ReceiveUnmounted, LeaveLoop, place, ReceiveFails,
               RemoveSignalHandlers, ClearFd
<1>9. CASE Poll \/ FreeChannel \/ Destroy
  BY <1>1, <1>9 DEF Poll, Close, place, FreeChannel, DestroyChannel, Destroy
<1>10. QED
  BY <1>2, <1>3, <1>4, <1>5, <1>6, <1>7, <1>8, <1>9 DEF Main

-----------------------------------------------------------------------------
(* The inductive invariants and what follows from them.                     *)

LifeInv == TypeOK /\ SignalsHandled /\ MountKnown
HoldInv == LifeInv /\ AtPlace /\ Places /\ UnmountsOwn

(* At the start the first invariant holds.                                  *)
LEMMA LifeInit == Init => LifeInv
<1>1. SUFFICES ASSUME Init PROVE LifeInv
  OBVIOUS
<1>2. pc = "mount" /\ served = FALSE /\ mounts \in {<<>>, <<"other">>}
  BY <1>1, Zenon DEF Init
<1>3. ~Mounted /\ OwnOnTop
  <2>1. CASE mounts = <<>>
    BY <2>1 DEF Mounted, OwnOnTop
  <2>2. CASE mounts = <<"other">>
    BY <2>2 DEF Mounted, OwnOnTop
  <2>3. QED
    BY <1>2, <2>1, <2>2
<1>4. SignalsHandled
  BY <1>2 DEF SignalsHandled
<1>5. MountKnown
  BY <1>2, <1>3 DEF MountKnown
<1>6. QED
  BY <1>1, <1>4, <1>5, TypeInit DEF LifeInv

(* Every step keeps the first invariant.                                    *)
LEMMA LifeStep == LifeInv /\ [Next]_vars => LifeInv'
<1>1. SUFFICES ASSUME LifeInv, [Next]_vars PROVE LifeInv'
  OBVIOUS
<1>2. MountsOK /\ RestOK /\ SignalsHandled /\ MountKnown
  BY <1>1, TypeParts DEF LifeInv
<1>3. OwnOnTop /\ (pc \in {"device", "fusermount", "again"} => ~Mounted)
  BY <1>2 DEF MountKnown
<1>4. MountsOK'
  BY <1>1, <1>2, <1>3, MountsStep
<1>5. RestOK' /\ SignalsHandled' /\ MountKnown'
  BY <1>1, <1>2, RestStep, SignalsStep, MountKnownStep
<1>6. TypeOK'
  BY <1>4, <1>5 DEF TypeOK, MountsOK, RestOK
<1>7. QED
  BY <1>5, <1>6 DEF LifeInv

(* At the start the second invariant holds.                                 *)
LEMMA HoldInit ==
  ASSUME NoHelpMount
  PROVE  Init => HoldInv
<1>1. SUFFICES ASSUME Init PROVE HoldInv
  OBVIOUS
<1>2. /\ opt \in Options /\ pc = "mount" /\ open = {"stdin"}
      /\ chan = [life |-> "none", fd |-> "none", se |-> FALSE]
      /\ sess = [life |-> "none", ch |-> FALSE, exited |-> FALSE]
      /\ fuse = "none" /\ wrong = {}
  BY <1>1, Zenon DEF Init
<1>3. opt.help => ~opt.mountpoint
  BY <1>2 DEF NoHelpMount
<1>4. AtPlace
  BY <1>2 DEF AtPlace, Fresh, HasDevice, Setup, Loop
<1>5. Places
  BY <1>2, <1>3 DEF Places, Late
<1>6. UnmountsOwn
  BY <1>2 DEF UnmountsOwn, AboutToUnmount
<1>7. QED
  BY <1>1, <1>4, <1>5, <1>6, LifeInit DEF HoldInv

(* Every step keeps the second invariant.                                   *)
LEMMA HoldStep ==
  ASSUME NoHelpMount
  PROVE  HoldInv /\ [Next]_vars => HoldInv'
<1>1. SUFFICES ASSUME HoldInv, [Next]_vars PROVE HoldInv'
  OBVIOUS
<1>2. MountsOK /\ RestOK /\ MountKnown /\ AtPlace /\ Places /\ UnmountsOwn
  BY <1>1, TypeParts DEF HoldInv, LifeInv
<1>3. AtPlace' /\ Places'
  BY <1>1, <1>2, PlacesStep
<1>4. UnmountsOwn'
  BY <1>1, <1>2, UnmountsOwnStep
<1>5. QED
  BY <1>1, <1>3, <1>4, LifeStep DEF HoldInv

(* The inductive invariant, for any options: types, handlers that stay, and *)
(* what is known of the mount at each place.                                *)
THEOREM LifeInvariant == Spec => []LifeInv
<1>1. QED
  BY LifeInit, LifeStep, PTL DEF Spec

(* Type correctness.                                                        *)
THEOREM TypeCorrect == Spec => []TypeOK
<1>1. LifeInv => TypeOK
  BY DEF LifeInv
<1>2. QED
  BY <1>1, LifeInvariant, PTL

(* No signal kills a process that has been set up (set_one_signal_handler   *)
(* leaves the handlers installed until the process ends).                   *)
THEOREM SignalsDoNotKill == Spec => []ServingSurvives
<1>1. LifeInv => ServingSurvives
  BY DEF LifeInv, SignalsHandled, ServingSurvives
<1>2. QED
  BY <1>1, LifeInvariant, PTL

(* Every way out of fuse_main unmounts what was mounted, if umount works.   *)
THEOREM MountIsTakenAway == Spec => []MountGone
<1>1. LifeInv => MountGone
  BY DEF LifeInv, MountKnown, MountGone
<1>2. QED
  BY <1>1, LifeInvariant, PTL

(* What the process has at each place on its way, when no command line asks *)
(* for help and for a mount.                                                *)
THEOREM HoldInvariant ==
  ASSUME NoHelpMount
  PROVE  Spec => []HoldInv
<1>1. QED
  BY HoldInit, HoldStep, PTL DEF Spec

(* The device is closed once, nothing is used after it was freed but in the *)
(* late failure of fuse_new_common, and nothing is left in the end.         *)
THEOREM EverythingIsReleased ==
  ASSUME NoHelpMount
  PROVE  Spec => []ReleasedOnce
<1>1. HoldInv => ReleasedOnce
  BY DEF HoldInv, LifeInv, TypeOK, AtPlace, Places, Late, HasDevice, ReleasedOnce
<1>2. QED
  BY <1>1, HoldInvariant, PTL

(* The process takes a mount of others away only if its own vanished after  *)
(* it looked (the POLLERR of fuse_kern_unmount), if it looked at the        *)
(* descriptor a late failure of fuse_new_common had closed, or if its       *)
(* descriptor was the -2 of a fusermount that was not run.                  *)
THEOREM OtherMountsStay ==
  ASSUME NoHelpMount
  PROVE  Spec => OthersStay
<1>1. HoldInv /\ [Next]_vars =>
        [(Main /\ Len(mounts') < Len(mounts)) =>
           (Top = "own" \/ raced \/ Late \/ fd = "invalid")]_vars
  BY UnmountersKnown, TypeParts DEF HoldInv, LifeInv
<1>2. QED
  BY <1>1, HoldInvariant, PTL DEF Spec, OthersStay

-----------------------------------------------------------------------------
(* The worker pool of SessionLoop for any number of workers and any bound  *)
(* on the available ones, with pthread_cancel and with SIGUSR1: the counter *)
(* numavail is exact, the pool is bounded and frozen once it is stopped,    *)
(* and nothing is left of it when the loop returns.                         *)

-----------------------------------------------------------------------------
(* The inductive invariant.                                                 *)

(* The list holds exactly the threads that exist.                           *)
ListIsPool == list = {w \in Workers : wpc[w] # "free"}

(* Where the main thread is says whether mt->exit is set and the list empty.*)
MainProgress ==
  /\ mpc = "start" => list = {}
  /\ mpc \in {"start", "check", "semwait", "stop"} => ~exit
  /\ mpc \in {"join", "killed"} => exit
  /\ mpc \in {"teardown", "done"} => list = {}

(* While the loop serves, numavail is within its bounds, and it is 0 only   *)
(* when no thread could be created.                                         *)
AvailBounds ==
  mpc \in {"check", "semwait", "stop"} =>
    numavail <= MaxAvail /\ (numavail = 0 => list = Workers)

PoolInv == LoopTypeOK /\ ListIsPool /\ MainProgress /\ AvailCount /\ AvailBounds

-----------------------------------------------------------------------------
(* How the set of available workers changes.                                *)

(* The set is finite, so its cardinality is a number.                       *)
LEMMA AvailableFinite ==
  ASSUME LoopTypeOK
  PROVE  IsFiniteSet(Available) /\ Cardinality(Available) \in Nat
BY SessionLoopAssumption, FS_Subset, FS_CardinalityType DEF LoopTypeOK, Available

(* A step that neither lists nor unlists a worker, and makes none busy or   *)
(* idle, keeps the set.                                                     *)
LEMMA AvailableSame ==
  ASSUME list' = list, \A w \in list : Busy(w)' <=> Busy(w)
  PROVE  Available' = Available
BY DEF Available

(* fuse_loop_start_thread with no worker available: either it lists a new   *)
(* worker, which is available, or every thread is listed already.           *)
LEMMA StartsWorkerLemma ==
  ASSUME LoopTypeOK,
         NEW loc \in [Workers -> WorkerPCs],
         list = {w \in Workers : loc[w] # "free"},
         {w \in list : ~(loc[w] = "processing" /\ ~isforget[w])} = {},
         StartsWorker(loc, 0)
  PROVE  /\ ListIsPool' /\ numavail' = Cardinality(Available')
         /\ numavail' \in {0, 1} /\ (numavail' = 0 => list' = Workers)
         /\ wpc' \in [Workers -> WorkerPCs] /\ list' \subseteq Workers
         /\ isforget' \in [Workers -> BOOLEAN] /\ wake' \in [Workers -> BOOLEAN]
         /\ (list' = {} => list = {} /\ numavail' = 0)
<1>1. CASE /\ \A w \in Workers : loc[w] # "free"
           /\ wpc' = loc /\ numavail' = 0
           /\ UNCHANGED <<list, isforget, wake>>
  <2>1. Available' = {}
    BY <1>1 DEF Available, Busy
  <2> QED
    BY <1>1, <2>1, FS_EmptySet DEF LoopTypeOK, ListIsPool
<1>2. ASSUME NEW w \in Workers, loc[w] = "free",
             wpc' = [loc EXCEPT ![w] = "top"], list' = list \cup {w}, numavail' = 0 + 1,
             isforget' = [isforget EXCEPT ![w] = FALSE], wake' = [wake EXCEPT ![w] = FALSE]
      PROVE  /\ ListIsPool' /\ numavail' = Cardinality(Available')
             /\ numavail' \in {0, 1} /\ (numavail' = 0 => list' = Workers)
             /\ wpc' \in [Workers -> WorkerPCs] /\ list' \subseteq Workers
             /\ isforget' \in [Workers -> BOOLEAN] /\ wake' \in [Workers -> BOOLEAN]
             /\ (list' = {} => list = {} /\ numavail' = 0)
  <2>1. Available' = {w}
    BY <1>2 DEF Available, Busy, LoopTypeOK
  <2>2. Cardinality({w}) = 1
    BY FS_Singleton
  <2>3. /\ wpc' \in [Workers -> WorkerPCs] /\ list' \subseteq Workers
        /\ isforget' \in [Workers -> BOOLEAN] /\ wake' \in [Workers -> BOOLEAN]
    BY <1>2 DEF LoopTypeOK, WorkerPCs
  <2>4. ListIsPool'
    BY <1>2 DEF ListIsPool
  <2> QED
    BY <1>2, <2>1, <2>2, <2>3, <2>4
<1> QED
  BY <1>1, <1>2 DEF StartsWorker

-----------------------------------------------------------------------------
(* The invariant holds initially and every step keeps it.                   *)

LEMMA PoolInvInit == LoopInit => PoolInv
<1> SUFFICES ASSUME LoopInit PROVE PoolInv
  OBVIOUS
<1>1. LoopTypeOK
  BY DEF LoopInit, LoopTypeOK, WorkerPCs, MainPCs
<1>2. ListIsPool /\ MainProgress /\ AvailBounds
  BY DEF LoopInit, ListIsPool, MainProgress, AvailBounds
<1>3. AvailCount
  BY FS_EmptySet DEF LoopInit, AvailCount, Available
<1> QED
  BY <1>1, <1>2, <1>3 DEF PoolInv

(* A worker that moves on without mt->lock: it stays in the list and is not *)
(* busy before or after, and the main thread does not move.                 *)
LEMMA MovesOnInv ==
  ASSUME PoolInv, NEW w \in Workers,
         wpc[w] \notin {"free", "processing"},
         NEW p \in {"top", "reading", "got", "leaving", "ended"},
         wpc' = [wpc EXCEPT ![w] = p],
         isforget' \in [Workers -> BOOLEAN],
         \A u \in Workers \ {w} : isforget'[u] = isforget[u],
         exited' \in BOOLEAN, error' \in BOOLEAN, finish' \in Nat,
         UNCHANGED <<mounted, mpc, exit, numavail, list, wake>>
  PROVE  PoolInv'
<1> USE DEF PoolInv
<1>1. LoopTypeOK'
  BY DEF LoopTypeOK, WorkerPCs
<1>2. ListIsPool' /\ MainProgress' /\ AvailBounds'
  BY DEF LoopTypeOK, ListIsPool, MainProgress, AvailBounds
<1>3. Available' = Available
  BY AvailableSame DEF LoopTypeOK, Busy
<1> QED
  BY <1>1, <1>2, <1>3 DEF AvailCount

(* The first critical section: the worker was available, so numavail is at  *)
(* least 1, and if it was the only one the section starts another.          *)
LEMMA GotInv ==
  ASSUME PoolInv, NEW w \in Workers, Got(w)
  PROVE  PoolInv'
<1> USE DEF PoolInv
<1> DEFINE loc == [wpc EXCEPT ![w] = "processing"]
<1>1. /\ Alive /\ wpc[w] = "got" /\ w \in list /\ w \in Available
      /\ UNCHANGED <<mounted, exited, mpc, exit, error, finish>>
  BY DEF Got, TakeRequest, At, ListIsPool, Available, Busy
<1>2. CASE exit
  <2>1. wpc' = [wpc EXCEPT ![w] = "ended"] /\ UNCHANGED <<numavail, list, isforget, wake>>
    BY <1>2 DEF Got, TakeRequest
  <2> QED
    BY <1>1, <2>1, MovesOnInv DEF LoopTypeOK
<1>3. CASE ~exit
  <2>1. mpc \in {"check", "semwait", "stop"}
    BY <1>1, <1>3 DEF MainProgress, LoopTypeOK, MainPCs, Alive
  <2>2. /\ numavail = Cardinality(Available) /\ numavail \in Nat /\ numavail # 0
        /\ numavail <= MaxAvail
    BY <1>1, <2>1, AvailableFinite, FS_EmptySet DEF AvailCount, AvailBounds, LoopTypeOK
  <2>3. AvailDuring(w) \in Nat /\ AvailDuring(w) <= MaxAvail
    BY <2>2, SessionLoopAssumption DEF AvailDuring
  <2> DEFINE idle == {u \in list : ~(loc[u] = "processing" /\ ~isforget[u])}
  <2>4. Cardinality(idle) = AvailDuring(w) /\ IsFiniteSet(idle)
    <3>1. CASE isforget[w]
      <4>1. idle = Available
        BY <1>1, <3>1 DEF Available, Busy, LoopTypeOK
      <4> QED
        BY <2>2, <3>1, <4>1, AvailableFinite DEF AvailDuring
    <3>2. CASE ~isforget[w]
      <4>1. idle = Available \ {w}
        BY <1>1, <3>2 DEF Available, Busy, LoopTypeOK
      <4> QED
        BY <1>1, <2>2, <3>2, <4>1, AvailableFinite, FS_RemoveElement DEF AvailDuring
    <3> QED
      BY <3>1, <3>2
  <2>5. loc \in [Workers -> WorkerPCs] /\ list = {u \in Workers : loc[u] # "free"}
    BY <1>1 DEF LoopTypeOK, WorkerPCs, ListIsPool
  <2>6. CASE AvailDuring(w) = 0
    <3>1. idle = {}
      BY <2>4, <2>6, FS_EmptySet
    <3>2. StartsWorker(loc, 0)
      BY <1>3, <2>6 DEF Got, TakeRequest
    <3> HIDE DEF loc
    <3>3. /\ ListIsPool' /\ numavail' = Cardinality(Available')
          /\ numavail' \in {0, 1} /\ (numavail' = 0 => list' = Workers)
          /\ wpc' \in [Workers -> WorkerPCs] /\ list' \subseteq Workers
          /\ isforget' \in [Workers -> BOOLEAN] /\ wake' \in [Workers -> BOOLEAN]
      BY <2>5, <3>1, <3>2, StartsWorkerLemma
    <3>4. LoopTypeOK'
      BY <1>1, <3>3 DEF LoopTypeOK
    <3> QED
      BY <1>1, <1>3, <2>1, <3>3, <3>4, SessionLoopAssumption
         DEF MainProgress, AvailCount, AvailBounds
  <2>7. CASE AvailDuring(w) # 0
    <3>1. wpc' = loc /\ numavail' = AvailDuring(w) /\ UNCHANGED <<list, isforget, wake>>
      BY <1>3, <2>7 DEF Got, TakeRequest
    <3>2. Available' = idle
      BY <3>1 DEF Available, Busy
    <3>3. LoopTypeOK' /\ ListIsPool'
      BY <1>1, <2>3, <2>5, <3>1 DEF LoopTypeOK, ListIsPool
    <3> QED
      BY <1>1, <1>3, <2>1, <2>3, <2>4, <2>7, <3>1, <3>2, <3>3
         DEF MainProgress, AvailCount, AvailBounds
  <2> QED
    BY <2>6, <2>7
<1> QED
  BY <1>2, <1>3

(* The second critical section: a worker that was busy becomes available,   *)
(* and leaves the list when that makes one too many.                        *)
LEMMA FinishInv ==
  ASSUME PoolInv, NEW w \in Workers, Finish(w)
  PROVE  PoolInv'
<1> USE DEF PoolInv
<1> DEFINE n == AvailAfter(w)
<1>1. /\ Alive /\ wpc[w] = "processing" /\ w \in list
      /\ UNCHANGED <<mounted, exited, mpc, exit, error, finish, isforget, wake>>
  BY DEF Finish, Release, At, ListIsPool
<1>2. n \in Nat /\ MaxAvail \in Nat /\ MaxAvail > 0
  BY SessionLoopAssumption DEF LoopTypeOK, AvailAfter
<1>3. mpc \in {"check", "semwait", "stop"} \/ (mpc = "join" /\ exit)
  BY <1>1 DEF MainProgress, LoopTypeOK, MainPCs, Alive
(* w becomes available in a list that keeps it. *)
<1>4. ASSUME mpc # "join"
      PROVE  /\ Cardinality(Available \cup {w}) = n /\ numavail = Cardinality(Available)
             /\ (n = 0 => list = Workers)
  <2>1. numavail = Cardinality(Available) /\ numavail \in Nat
    BY <1>3, <1>4 DEF AvailCount, LoopTypeOK
  <2>2. CASE isforget[w]
    <3>1. Available \cup {w} = Available
      BY <1>1, <2>2 DEF Available, Busy
    <3> QED
      BY <1>3, <1>4, <2>1, <2>2, <3>1 DEF AvailAfter, AvailBounds
  <2>3. CASE ~isforget[w]
    <3>1. w \notin Available
      BY <1>1, <2>3 DEF Available, Busy
    <3>2. Cardinality(Available \cup {w}) = Cardinality(Available) + 1
      BY <3>1, AvailableFinite, FS_AddElement
    <3>3. n = numavail + 1
      BY <2>3 DEF AvailAfter
    <3> HIDE DEF n
    <3> QED
      BY <2>1, <3>2, <3>3
  <2> QED
    BY <2>2, <2>3
<1>5. ASSUME NEW p \in {"top", "ended"},
             wpc' = [wpc EXCEPT ![w] = p], numavail' = n, list' = list,
             p = "top" => n <= MaxAvail, p = "ended" => exit
      PROVE  PoolInv'
  <2>1. LoopTypeOK' /\ ListIsPool' /\ MainProgress'
    BY <1>1, <1>2, <1>5 DEF LoopTypeOK, WorkerPCs, ListIsPool, MainProgress
  <2>2. Available' = Available \cup {w}
    BY <1>1, <1>5 DEF Available, Busy, LoopTypeOK
  <2>3. mpc \in {"check", "semwait", "stop"} => p = "top"
    BY <1>5 DEF MainProgress
  <2> QED
    BY <1>1, <1>3, <1>4, <1>5, <2>1, <2>2, <2>3 DEF AvailCount, AvailBounds
<1>6. ASSUME ~exit, n > MaxAvail,
             wpc' = [wpc EXCEPT ![w] = "free"], numavail' = n - 1, list' = list \ {w}
      PROVE  PoolInv'
  <2>1. mpc \in {"check", "semwait", "stop"} /\ mpc # "join"
    BY <1>3, <1>6
  <2>2. numavail <= MaxAvail /\ numavail \in Nat /\ n = numavail + 1 /\ ~isforget[w]
    BY <1>2, <1>6, <2>1 DEF AvailBounds, AvailAfter, LoopTypeOK
  <2>3. n - 1 \in Nat /\ n - 1 = MaxAvail
    BY <1>2, <1>6, <2>2
  <2>4. Available' = Available
    BY <1>1, <1>6, <2>2 DEF Available, Busy, LoopTypeOK
  <2>5. LoopTypeOK' /\ ListIsPool' /\ MainProgress'
    BY <1>1, <1>6, <2>1, <2>3 DEF LoopTypeOK, WorkerPCs, ListIsPool, MainProgress
  <2> QED
    BY <1>1, <1>2, <1>4, <1>6, <2>1, <2>2, <2>3, <2>4, <2>5 DEF AvailCount, AvailBounds
<1>7. \/ n <= MaxAvail /\ wpc' = [wpc EXCEPT ![w] = "top"] /\ numavail' = n /\ UNCHANGED list
      \/ /\ n > MaxAvail /\ exit
         /\ wpc' = [wpc EXCEPT ![w] = "ended"] /\ numavail' = n /\ UNCHANGED list
      \/ /\ n > MaxAvail /\ ~exit
         /\ wpc' = [wpc EXCEPT ![w] = "free"] /\ numavail' = n - 1 /\ list' = list \ {w}
  <2> HIDE DEF n
  <2>1. Release(w, n, MaxAvail, ~exit)
    BY DEF Finish, n
  <2> QED
    BY <2>1 DEF Release
<1> HIDE DEF n
<1> QED
  BY <1>5, <1>6, <1>7

LEMMA WorkerStepInv ==
  ASSUME PoolInv, NEW w \in Workers, WorkerStep(w)
  PROVE  PoolInv'
<1>1. CASE LoopHead(w)
  BY <1>1, MovesOnInv DEF LoopHead, At, PoolInv, LoopTypeOK
<1>2. CASE ReadRequest(w)
  <2>1. CASE exited
    BY <1>2, <2>1, MovesOnInv DEF ReadRequest, At, PoolInv, LoopTypeOK
  <2>2. CASE ~exited
    <3>1. PICK f \in BOOLEAN : isforget' = [isforget EXCEPT ![w] = f]
      BY <1>2, <2>2 DEF ReadRequest
    <3>2. /\ isforget' \in [Workers -> BOOLEAN]
          /\ \A u \in Workers \ {w} : isforget'[u] = isforget[u]
      BY <3>1 DEF PoolInv, LoopTypeOK
    <3> QED
      BY <1>2, <2>2, <3>2, MovesOnInv DEF ReadRequest, At, PoolInv, LoopTypeOK
  <2> QED
    BY <2>1, <2>2
<1>3. CASE ReadInterrupted(w) \/ ReadNoDevice(w) \/ ReadFails(w) \/ ReadCancelled(w)
  BY <1>3, MovesOnInv DEF ReadInterrupted, ReadNoDevice, ReadFails, ReadCancelled, At, PoolInv, LoopTypeOK
<1>4. CASE Got(w)
  BY <1>4, GotInv
<1>5. CASE Finish(w)
  BY <1>5, FinishInv
<1>6. CASE Leave(w)
  <2>1. /\ wpc[w] = "leaving" /\ wpc' = [wpc EXCEPT ![w] = "ended"] /\ finish' \in Nat
        /\ UNCHANGED <<mounted, exited, mpc, exit, error, numavail, list, isforget, wake>>
    BY <1>6 DEF Leave, At, PoolInv, LoopTypeOK
  <2>2. exited' \in BOOLEAN /\ error' \in BOOLEAN /\ isforget' \in [Workers -> BOOLEAN]
    BY <2>1 DEF PoolInv, LoopTypeOK
  <2> QED
    BY <2>1, <2>2, MovesOnInv
<1> QED
  BY <1>1, <1>2, <1>3, <1>4, <1>5, <1>6 DEF WorkerStep

(* The first worker is the only one available when the loop starts.         *)
LEMMA StartLoopInv ==
  ASSUME PoolInv, StartLoop
  PROVE  PoolInv'
<1> USE DEF PoolInv
<1>1. /\ mpc = "start" /\ ~exit /\ list = {} /\ StartsWorker(wpc, numavail)
      /\ mpc' = IF list' = {} THEN "teardown" ELSE "check"
      /\ UNCHANGED <<mounted, exited, exit, error, finish>>
  BY DEF StartLoop, MainProgress
<1>2. Available = {} /\ numavail = 0
  BY <1>1, FS_EmptySet DEF Available, AvailCount
<1>3. /\ list = {w \in Workers : wpc[w] # "free"} /\ wpc \in [Workers -> WorkerPCs]
      /\ {w \in list : ~(wpc[w] = "processing" /\ ~isforget[w])} = {}
  BY <1>1 DEF ListIsPool, LoopTypeOK
<1>4. /\ ListIsPool' /\ numavail' = Cardinality(Available')
      /\ numavail' \in {0, 1} /\ (numavail' = 0 => list' = Workers)
      /\ wpc' \in [Workers -> WorkerPCs] /\ list' \subseteq Workers
      /\ isforget' \in [Workers -> BOOLEAN] /\ wake' \in [Workers -> BOOLEAN]
      /\ (list' = {} => list = {} /\ numavail' = 0)
  BY <1>1, <1>2, <1>3, StartsWorkerLemma
<1>5. LoopTypeOK'
  BY <1>1, <1>4 DEF LoopTypeOK, MainPCs
<1> QED
  BY <1>1, <1>4, <1>5, SessionLoopAssumption DEF MainProgress, AvailCount, AvailBounds

LEMMA MainStepInv ==
  ASSUME PoolInv, MainStep
  PROVE  PoolInv'
<1> USE DEF PoolInv
<1>1. CASE StartLoop
  BY <1>1, StartLoopInv
<1>2. CASE MainChecks \/ SemWait \/ LoopReturns \/ Teardown
  <2>1. LoopTypeOK' /\ ListIsPool'
    <3>1. CASE SemWait
      BY <3>1 DEF SemWait, LoopTypeOK, MainPCs, ListIsPool
    <3>2. CASE MainChecks \/ LoopReturns \/ Teardown
      BY <3>2 DEF MainChecks, LoopReturns, Teardown, LoopTypeOK, MainPCs, ListIsPool
    <3> QED
      BY <1>2, <3>1, <3>2
  <2>2. MainProgress' /\ AvailBounds'
    BY <1>2 DEF MainChecks, SemWait, LoopReturns, Teardown, MainProgress, AvailBounds
  <2>3. Available' = Available
    BY <1>2 DEF MainChecks, SemWait, LoopReturns, Teardown, Available, Busy
  <2> QED
    BY <1>2, <2>1, <2>2, <2>3 DEF MainChecks, SemWait, LoopReturns, Teardown, AvailCount
<1>3. CASE StopWorkers
  <2>1. LoopTypeOK'
    BY <1>3 DEF StopWorkers, LoopTypeOK, MainPCs
  <2>2. ListIsPool' /\ MainProgress' /\ AvailBounds'
    BY <1>3 DEF StopWorkers, ListIsPool, MainProgress, AvailBounds
  <2>3. Available' = Available
    BY <1>3 DEF StopWorkers, Available, Busy
  <2> QED
    BY <1>3, <2>1, <2>2, <2>3 DEF StopWorkers, AvailCount
<1>4. CASE JoinWorker
  <2>1. PICK w \in list : /\ wpc[w] = "ended"
                          /\ wpc' = [wpc EXCEPT ![w] = "free"]
                          /\ list' = list \ {w}
    BY <1>4 DEF JoinWorker
  <2>2. LoopTypeOK' /\ ListIsPool'
    BY <1>4, <2>1 DEF JoinWorker, LoopTypeOK, WorkerPCs, ListIsPool
  <2> QED
    BY <1>4, <2>2 DEF JoinWorker, MainProgress, AvailCount, AvailBounds
<1> QED
  BY <1>1, <1>2, <1>3, <1>4 DEF MainStep

LEMMA PoolInvNext ==
  ASSUME PoolInv, [LoopNext]_loopVars
  PROVE  PoolInv'
<1> USE DEF PoolInv
<1>1. CASE \E w \in Workers : WorkerStep(w)
  BY <1>1, WorkerStepInv
<1>2. CASE MainStep
  BY <1>2, MainStepInv
<1>3. CASE TermSignal \/ Unmount \/ UNCHANGED loopVars
  <2>1. LoopTypeOK' /\ ListIsPool'
    BY <1>3 DEF TermSignal, Unmount, loopVars, LoopTypeOK, MainPCs, ListIsPool
  <2>2. MainProgress' /\ AvailBounds'
    BY <1>3 DEF TermSignal, Unmount, loopVars, MainProgress, AvailBounds
  <2>3. Available' = Available
    BY <1>3 DEF TermSignal, Unmount, loopVars, Available, Busy
  <2> QED
    BY <1>3, <2>1, <2>2, <2>3 DEF TermSignal, Unmount, loopVars, AvailCount
<1> QED
  BY <1>1, <1>2, <1>3 DEF LoopNext

-----------------------------------------------------------------------------
(* The results.                                                             *)

THEOREM PoolInvariant == LoopSpec => []PoolInv
<1>1. PoolInv /\ [LoopNext]_loopVars => PoolInv'
  BY PoolInvNext
<1> QED
  BY PoolInvInit, <1>1, PTL DEF LoopSpec

(* Every variable of the loop keeps its type; numavail is never negative.   *)
THEOREM LoopTypeCorrect == LoopSpec => []LoopTypeOK
<1>1. PoolInv => LoopTypeOK
  BY DEF PoolInv
<1> QED
  BY PoolInvariant, <1>1, PTL

(* numavail counts the workers that are not busy with a request that is not *)
(* a FORGET.                                                                *)
THEOREM CounterExact == LoopSpec => []AvailCount
<1>1. PoolInv => AvailCount
  BY DEF PoolInv
<1> QED
  BY PoolInvariant, <1>1, PTL

(* While the loop serves, a worker is left to read the next request, unless *)
(* the process can create no more threads.                                  *)
THEOREM SomeoneReads == LoopSpec => []ReaderLeft
<1>1. PoolInv => ReaderLeft
  BY FS_EmptySet DEF PoolInv, ReaderLeft, AvailCount, AvailBounds
<1> QED
  BY PoolInvariant, <1>1, PTL

(* The pool keeps at most MaxAvail available workers.                       *)
THEOREM PoolStaysSmall == LoopSpec => []PoolBounded
<1>1. PoolInv => PoolBounded
  <2> SUFFICES ASSUME PoolInv, ~exit PROVE Cardinality(Available) <= MaxAvail
    BY DEF PoolBounded
  <2>1. CASE mpc \in {"start", "teardown", "done"}
    BY <2>1, FS_EmptySet, SessionLoopAssumption DEF PoolInv, MainProgress, Available
  <2>2. CASE mpc \in {"check", "semwait", "stop"}
    BY <2>2 DEF PoolInv, AvailCount, AvailBounds
  <2> QED
    BY <2>1, <2>2 DEF PoolInv, MainProgress, LoopTypeOK, MainPCs
<1> QED
  BY PoolInvariant, <1>1, PTL

(* When fuse_session_loop_mt returns, and mt with its stack frame goes, no  *)
(* worker is left that could touch it.                                      *)
THEOREM AllWorkersGone == LoopSpec => []NoWorkerAtReturn
<1>1. PoolInv => NoWorkerAtReturn
  BY DEF PoolInv, NoWorkerAtReturn, MainProgress, ListIsPool
<1> QED
  BY PoolInvariant, <1>1, PTL

(* Once the main thread has set mt->exit the list only loses workers that   *)
(* have ended, to its own joins.                                            *)
THEOREM PoolFrozen == LoopSpec => ExitFreezesPool
<1>1. PoolInv /\ [LoopNext]_loopVars
        => [exit => list' \subseteq list /\ \A w \in list \ list' : wpc[w] = "ended"]_loopVars
  <2> SUFFICES ASSUME PoolInv, LoopNext, exit
               PROVE  list' \subseteq list /\ \A w \in list \ list' : wpc[w] = "ended"
    OBVIOUS
  <2>1. ASSUME NEW w \in Workers, WorkerStep(w)
        PROVE  list' = list
    <3>1. CASE Got(w)
      BY <3>1 DEF Got, TakeRequest
    <3>2. CASE Finish(w)
      BY <3>2 DEF Finish, Release
    <3> QED
      BY <2>1, <3>1, <3>2
         DEF WorkerStep, LoopHead, ReadRequest, ReadInterrupted, ReadNoDevice, ReadFails,
             ReadCancelled, Leave
  <2>2. CASE MainStep
    <3>1. ~StartLoop
      BY DEF StartLoop, PoolInv, MainProgress
    <3> QED
      BY <2>2, <3>1 DEF MainStep, MainChecks, SemWait, StopWorkers, JoinWorker, LoopReturns, Teardown
  <2>3. CASE TermSignal \/ Unmount
    BY <2>3 DEF TermSignal, Unmount
  <2> QED
    BY <2>1, <2>2, <2>3 DEF LoopNext
<1> QED
  BY PoolInvariant, <1>1, PTL DEF LoopSpec, ExitFreezesPool
=============================================================================
