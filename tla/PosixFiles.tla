----------------------------- MODULE PosixFiles -----------------------------
(***************************************************************************)
(* What the users of one directory are promised, with the daemon left out: *)
(* names for files, handles for open files, and a file that is stored for  *)
(* as long as it has a name or a handle.                                   *)
(***************************************************************************)
CONSTANTS Names, Files, Handles, NoFile

VARIABLES
  entry,     (* [Names -> Files and NoFile]: the directory                 *)
  opened,    (* [Handles -> Files and NoFile]: what each handle is open on *)
  stored     (* the files that have not been deleted                       *)

vars == <<entry, opened, stored>>

Named(e) == {e[nm] : nm \in Names} \ {NoFile}
Held(o) == {o[h] : h \in Handles} \ {NoFile}

Init ==
  /\ entry \in [Names -> Files \cup {NoFile}]
  /\ \A n1, n2 \in Names : entry[n1] = entry[n2] => n1 = n2 \/ entry[n1] = NoFile
  /\ opened = [h \in Handles |-> NoFile]
  /\ stored = Named(entry)

(* A deleted file stays deleted until its identity is used for a new one;  *)
(* one that nothing refers to any more may be deleted at any time.         *)
Keeps(new) ==
  /\ Named(entry') \cup Held(opened') \subseteq stored'
  /\ stored' \subseteq stored \cup new

Make(nm, f) ==
  /\ entry[nm] = NoFile /\ f \notin stored
  /\ entry' = [entry EXCEPT ![nm] = f]
  /\ UNCHANGED opened
  /\ Keeps({f})

Remove(nm) ==
  /\ entry[nm] # NoFile
  /\ entry' = [entry EXCEPT ![nm] = NoFile]
  /\ UNCHANGED opened
  /\ Keeps({})

Move(nm, to) ==
  /\ entry[nm] # NoFile
  /\ entry' = [entry EXCEPT ![to] = entry[nm], ![nm] = NoFile]
  /\ UNCHANGED opened
  /\ Keeps({})

(* The name may be gone again when the caller gets the handle.             *)
Open(h, f) ==
  /\ opened[h] = NoFile /\ f \in stored
  /\ opened' = [opened EXCEPT ![h] = f]
  /\ UNCHANGED entry
  /\ Keeps({})

Close(h) ==
  /\ opened' = [opened EXCEPT ![h] = NoFile]
  /\ UNCHANGED entry
  /\ Keeps({})

Delete == UNCHANGED <<entry, opened>> /\ Keeps({})

(* The file system is unmounted: no handle works any more.                 *)
Unmount ==
  /\ opened' = [h \in Handles |-> NoFile]
  /\ UNCHANGED entry
  /\ Keeps({})

Next ==
  \/ \E nm \in Names, f \in Files : Make(nm, f)
  \/ \E nm \in Names : Remove(nm)
  \/ \E nm, to \in Names : nm # to /\ Move(nm, to)
  \/ \E h \in Handles, f \in Files : Open(h, f)
  \/ \E h \in Handles : Close(h)
  \/ Delete
  \/ Unmount

Spec == Init /\ [][Next]_vars
=============================================================================
