----------------------------- MODULE MCFsStack ------------------------------
(* Instances of FsStack for TLC.                                           *)
EXTENDS FsStack

(* A file system with every operation; one with the older forms, for which *)
(* paths are optional; one without anything.                               *)
Full == [ops |-> Requests \cup LifeOps, nullpath |-> FALSE, nopath |-> FALSE]
Old == [ops |-> {"getattr", "truncate", "read", "write", "utime", "getdir", "readlink", "destroy"},
        nullpath |-> TRUE, nopath |-> FALSE]
Empty == [ops |-> {}, nullpath |-> FALSE, nopath |-> TRUE]
Systems == {Full, Old, Empty}

Subdir(base, abs, rellinks) == [kind |-> "subdir", abs |-> abs, base |-> base, rellinks |-> rellinks]
Iconv == [kind |-> "iconv", abs |-> FALSE, base |-> <<>>, rellinks |-> FALSE]

ModuleStacks ==
  {<<>>, <<Iconv>>, <<Subdir(<<>>, TRUE, TRUE)>>, <<Subdir(<<"b">>, FALSE, TRUE)>>,
   <<Subdir(<<"b">>, TRUE, FALSE)>>, <<Subdir(<<"b", "a">>, TRUE, TRUE)>>,
   <<Subdir(<<"b">>, TRUE, TRUE), Iconv>>, <<Iconv, Subdir(<<"a">>, TRUE, TRUE)>>,
   <<Subdir(<<"a">>, TRUE, TRUE), Subdir(<<"b">>, TRUE, TRUE)>>}

(* "odd" has no name on the file system, "alien" none for users.           *)
Codes == [a |-> "A", b |-> "b"]
AllNames == {"a", "b", "A", "odd", "alien"}
Directory == {"A", "b", "alien"}
UserPaths == {<<n>> : n \in {"a", "b", "odd"}} \cup {<<m, n>> : m, n \in {"a", "b"}}

(* Two names below "..", and three of the longer names of users, do not    *)
(* fit.                                                                    *)
Link(abs, up, names) == [abs |-> abs, up |-> up, names |-> names]
Long == {Link(FALSE, 1, <<m, n>>) : m, n \in {"a", "b"}} \cup {Link(TRUE, 0, <<"a", "a", "a">>)}
Targets ==
  ({Link(TRUE, 0, t) : t \in SeqOf({"a", "A", "b"}, 3)}
     \cup {Link(TRUE, 0, <<"b", "alien">>), Link(FALSE, 0, <<"b">>)}) \ Long
=============================================================================
