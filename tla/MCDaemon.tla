------------------------------ MODULE MCDaemon ------------------------------
(* Command lines: every combination that matters, -h without a mount point.  *)
EXTENDS Daemon

CommandLines ==
  {o \in [help : BOOLEAN, mountpoint : BOOLEAN, root : BOOLEAN,
          autoUnmount : BOOLEAN, subtype : BOOLEAN, mtab : BOOLEAN, remember : BOOLEAN,
          intr : {"off", "on", "bad"}] :
     /\ o.help => ~o.mountpoint /\ ~o.root /\ ~o.autoUnmount
     /\ o.mtab => o.root
     /\ ~o.mountpoint => ~o.subtype /\ ~o.remember /\ o.intr = "off"}
=============================================================================
