------------------------------- MODULE FsStack -------------------------------
(***************************************************************************)
(* The stack of file systems of lib/fuse.c: a file system at the bottom,   *)
(* modules (modules/subdir.c, modules/iconv.c) pushed on top of it, and    *)
(* the calls fuse_fs_* that carry one request of a thread from the top to  *)
(* the bottom and its answer back.  A path is the sequence of its names;   *)
(* a symbolic link is [abs, up, names].                                    *)
(***************************************************************************)
EXTENDS Integers, SequencesExt

CONSTANTS
  Bottoms,     (* file systems: [ops, nullpath, nopath], the flags say that*)
               (* it accepts calls without a path                          *)
  Stacks,      (* sequences of modules to push, the lowest first:          *)
               (* [kind, abs, base, rellinks]                              *)
  Options,     (* subset of BOOLEAN: whether -o nopath is given            *)
  Paths,       (* paths of requests                                        *)
  Links,       (* targets of the symbolic links at the bottom              *)
  TooLong,     (* links that do not fit the buffer readlink is given       *)
  Entries,     (* names in the directories at the bottom                   *)
  Encoding,    (* a name for users -> the name on the file system          *)
  Names,       (* names of files, of users and of the file system          *)
  Null         (* no path                                                  *)

ASSUME StackAssumption ==
  /\ \A bottom \in Bottoms : bottom.nullpath \in BOOLEAN /\ bottom.nopath \in BOOLEAN
  /\ Stacks \subseteq Seq([kind : {"subdir", "iconv"}, abs : BOOLEAN, base : Seq(Names),
                          rellinks : BOOLEAN])
  /\ Options \subseteq BOOLEAN
  /\ Paths \subseteq Seq(Names) /\ Null \notin Seq(Names)
  /\ Links \subseteq [abs : BOOLEAN, up : {0}, names : Seq(Names)]
  /\ TooLong \subseteq [abs : BOOLEAN, up : Nat, names : Seq(Names)] /\ Links \cap TooLong = {}
  /\ Null \notin [abs : BOOLEAN, up : Int, names : Seq(Names)]
  /\ Entries \subseteq Names
  /\ DOMAIN Encoding \subseteq Names /\ Encoding \in [DOMAIN Encoding -> Names]
  /\ IsInjective(Encoding)

VARIABLES
  phase,       (* "new", "up" after fuse_lib_init, "gone" after destroy    *)
  todo,        (* modules still to be pushed                               *)
  layers,      (* layers[1] is the file system, the last one is f->fs      *)
  lib,         (* [nullpath, nopath] of struct fuse                        *)
  option,      (* -o nopath                                                *)
  want,        (* conn->want                                               *)
  users,       (* kind of module -> m->ctr                                 *)
  private,     (* private_data of the thread's context                     *)
  call         (* the call under way: [op, stage, at, args, answer,        *)
               (* reached, confused]                                       *)

vars == <<phase, todo, layers, lib, option, want, users, private, call>>

Kinds == {"subdir", "iconv"}

(* The operations, as the wrappers fuse_fs_* are laid out.                 *)
NameOps == {"rename", "unlink", "rmdir", "symlink", "link", "mknod", "mkdir"}
OpenOps == {"release", "opendir", "open", "releasedir"}
BufferOps == {"read_buf", "write_buf"}
HandleOps == {"fsync", "fsyncdir", "flush", "readdir", "create", "lock", "flock"}
AttributeOps == {"getattr", "fgetattr", "statfs", "chown", "chmod", "truncate", "ftruncate",
                 "utimens", "access", "readlink"}
XattrOps == {"setxattr", "getxattr", "listxattr", "removexattr"}
DeviceOps == {"bmap", "ioctl", "poll", "fallocate"}
LifeOps == {"init", "destroy"}

Requests == NameOps \cup OpenOps \cup BufferOps \cup HandleOps \cup AttributeOps \cup XattrOps
              \cup DeviceOps

(* subdir_oper and iconv_oper: every function converts its paths and calls *)
(* the wrapper of the same name for the next layer.                        *)
SubdirTree == {"getattr", "fgetattr", "access", "readlink", "opendir", "readdir", "releasedir"}
                \cup NameOps
SubdirFiles == {"chmod", "chown", "truncate", "ftruncate", "utimens", "create", "open",
                "read_buf", "write_buf", "statfs", "flush", "release"}
SubdirHandles == {"fsync", "fsyncdir", "lock", "flock", "bmap"} \cup XattrOps \cup LifeOps
IconvTree == {"getattr", "fgetattr", "access", "readlink", "opendir", "readdir", "releasedir"}
               \cup NameOps
IconvFiles == {"chmod", "chown", "truncate", "ftruncate", "utimens", "create", "open",
               "read_buf", "write_buf", "statfs", "flush", "release"}
IconvHandles == {"fsync", "fsyncdir", "lock", "flock", "bmap"} \cup XattrOps \cup LifeOps
ModuleOps == [subdir |-> SubdirTree \cup SubdirFiles \cup SubdirHandles,
              iconv  |-> IconvTree \cup IconvFiles \cup IconvHandles]

(* What a wrapper calls when the operation is missing.                     *)
Substitute == [fgetattr |-> "getattr", ftruncate |-> "truncate", read_buf |-> "read",
               write_buf |-> "write", utimens |-> "utime", readdir |-> "getdir"]
NeedPath == {"getattr", "truncate"}

(* Requests on an open file, for which get_path_nullok may give no path.   *)
NullOps == {"fgetattr", "ftruncate", "read_buf", "write_buf", "flush", "release", "fsync",
            "readdir", "releasedir", "fsyncdir", "lock", "flock", "ioctl", "poll", "fallocate"}

TwoPaths == {"rename", "link", "symlink"}

(* The private data of layer i, as the wrapper puts it into the context.   *)
Layer(kind, ops, data, module) == [kind |-> kind, ops |-> ops, data |-> data, module |-> module]

(* subdir_new and iconv_new.                                               *)
SubdirNew(module) == Layer("subdir", ModuleOps.subdir, "subdir", module)
IconvNew(module) == Layer("iconv", ModuleOps.iconv, "iconv", module)

(* An answer is short when iconv left out a name for lack of memory, or    *)
(* cut a link that did not fit.                                            *)
NoAnswer == [error |-> "none", link |-> Null, names |-> {}, short |-> FALSE]
NoCall == [op |-> "none", stage |-> "none", at |-> 0, args |-> <<>>, answer |-> NoAnswer,
           reached |-> <<>>, confused |-> FALSE]

(* fuse_fs_new and the flags fuse_new_common takes from the file system.   *)
Init ==
  /\ \E bottom \in Bottoms :
       /\ layers = <<Layer("fs", bottom.ops, "given", bottom)>>
       /\ option \in Options
       /\ lib = [nullpath |-> bottom.nullpath, nopath |-> bottom.nopath \/ option]
  /\ phase = "new"
  /\ todo \in Stacks
  /\ want \in {{}, {"SPLICE_READ", "POSIX_LOCKS", "FLOCK_LOCKS"}}
  /\ users = [k \in Kinds |-> 0]
  /\ private = "none"
  /\ call = NoCall

Top == Len(layers)
Idle == call.stage = "none"

-----------------------------------------------------------------------------
(* Setting up and tearing down.                                            *)

NarrowsNullOnly(nullpath, nopath) == [nullpath |-> nullpath /\ lib.nullpath, nopath |-> nopath]

(* The library passes no path only if every layer accepts that.            *)
Narrows(nullpath, nopath) ==
  [nullpath |-> nullpath /\ lib.nullpath, nopath |-> nopath /\ lib.nopath]

(* fuse_push_module: the factory of the module may fail.                   *)
Push ==
  /\ phase = "new" /\ todo # <<>> /\ Idle
  /\ todo' = Tail(todo)
  /\ layers' = Append(layers, IF Head(todo).kind = "subdir" THEN SubdirNew(Head(todo)) ELSE IconvNew(Head(todo)))
  /\ users' = [users EXCEPT ![Head(todo).kind] = @ + 1]
  /\ lib' = Narrows(TRUE, TRUE)
  /\ UNCHANGED <<phase, option, want, private, call>>

Begin(op, args) ==
  call' = [NoCall EXCEPT !.op = op, !.stage = "enter", !.at = Top,
                         !.args = [i \in 1..Top |-> IF i = Top THEN args ELSE <<>>]]

(* The failing module is given back; fuse_new_common then destroys the     *)
(* stack, and keeps the file system's own destroy from being called.       *)
PushFails ==
  /\ phase = "new" /\ todo # <<>> /\ Idle
  /\ todo' = <<>>
  /\ phase' = "gone"
  /\ layers' = [layers EXCEPT ![1].ops = @ \ {"destroy"}]
  /\ Begin("destroy", <<>>)
  /\ UNCHANGED <<lib, option, want, users, private>>

(* fuse_lib_init, once, and fuse_lib_destroy.                              *)
Start ==
  /\ phase = "new" /\ todo = <<>> /\ Idle
  /\ phase' = "up"
  /\ Begin("init", <<>>)
  /\ UNCHANGED <<todo, layers, lib, option, want, users, private>>

Stop ==
  /\ phase = "up" /\ Idle
  /\ phase' = "gone"
  /\ Begin("destroy", <<>>)
  /\ UNCHANGED <<todo, layers, lib, option, want, users, private>>

(* A request, with the path its handler found: with nopath none is looked  *)
(* up, and with nullpath_ok none is needed when the file was removed.      *)
Request ==
  /\ phase = "up" /\ Idle
  /\ \E op \in Requests :
       \/ op \in TwoPaths /\ \E p, q \in Paths : Begin(op, <<p, q>>)
       \/ op \notin TwoPaths /\ \E p \in Paths : Begin(op, <<p>>)
       \/ op \in NullOps /\ (lib.nullpath \/ lib.nopath) /\ Begin(op, <<Null>>)
  /\ UNCHANGED <<phase, todo, layers, lib, option, want, users, private>>

-----------------------------------------------------------------------------
(* The wrappers fuse_fs_*, at layer call.at.                               *)

Here == layers[call.at]
Args == call.args[call.at]

(* The operation the wrapper calls, "none" if there is none.               *)
Chosen(ops, op, args) ==
  IF op \in ops THEN op ELSE
  IF op \in DOMAIN Substitute /\ Substitute[op] \in ops
       /\ (Substitute[op] \in NeedPath => args # <<Null>>)
  THEN Substitute[op] ELSE "none"

Default(op) == IF op \in OpenOps \cup {"statfs"} \cup LifeOps THEN "0" ELSE "ENOSYS"

(* fuse_fs_init: what a layer cannot do is not asked for.                  *)
CanWant(ops) ==
  (IF "write_buf" \in ops THEN {} ELSE {"SPLICE_READ"})
    \cup (IF "lock" \in ops THEN {} ELSE {"POSIX_LOCKS"})
    \cup (IF "flock" \in ops THEN {} ELSE {"FLOCK_LOCKS"})

Enter ==
  LET chosen == Chosen(Here.ops, call.op, Args)
  IN  /\ call.stage = "enter"
      /\ private' = Here.data
      /\ want' = IF call.op = "init" THEN want \ CanWant(Here.ops) ELSE want
      /\ call' = IF chosen # "none"
                 THEN [call EXCEPT !.stage = IF call.at = 1 THEN "bottom" ELSE "body"]
                 ELSE [call EXCEPT !.stage = "back",
                                   !.answer = [NoAnswer EXCEPT !.error = Default(call.op)]]
      /\ UNCHANGED <<phase, todo, layers, lib, option, users>>

(* The file system at the bottom finds its data in the context; op.init    *)
(* returns what it is to find there from then on.                          *)
Bottom ==
  LET op == Chosen(Here.ops, call.op, Args)
  IN  /\ call.stage = "bottom"
      /\ \E error \in (IF op \in LifeOps THEN {"0"} ELSE {"0", "EIO"}),
            link \in (IF op = "readlink" THEN Links ELSE {Null}) :
           call' = [call EXCEPT !.stage = "back", !.reached = <<op, Args, link>>,
                                !.confused = @ \/ private # Here.data,
                                !.answer = [error |-> error, link |-> link, short |-> FALSE,
                                            names |-> IF op \in {"readdir", "getdir"} THEN Entries ELSE {}]]
      /\ layers' = IF op = "init" THEN [layers EXCEPT ![1].data = "own"] ELSE layers
      /\ UNCHANGED <<phase, todo, lib, option, want, users, private>>

-----------------------------------------------------------------------------
(* The modules on the way down.                                            *)

(* subdir_addpath.                                                         *)
AddPath(module, path) == IF path = Null THEN Null ELSE module.base \o path

(* iconv_convpath towards the file system.                                 *)
ConvertPath(path) == IF path = Null THEN Null ELSE [i \in DOMAIN path |-> Encoding[path[i]]]
Converts(path) == path = Null \/ ToSet(path) \subseteq DOMAIN Encoding

MappedAll(layer, op, args) ==
  [j \in DOMAIN args |->
     IF layer.kind = "iconv" THEN ConvertPath(args[j]) ELSE AddPath(layer.module, args[j])]

(* subdir leaves the target of a new link as it is.                        *)
Mapped(layer, op, args) ==
  [j \in DOMAIN args |->
     IF layer.kind = "iconv" THEN ConvertPath(args[j]) ELSE
     IF op = "symlink" /\ j = 1 THEN args[j] ELSE AddPath(layer.module, args[j])]

Refuses(layer, args) == layer.kind = "iconv" /\ \E j \in DOMAIN args : ~Converts(args[j])

(* The module takes its data from the context, and calls the wrapper of    *)
(* the next layer, or returns for lack of memory or of a name.             *)
Body ==
  /\ call.stage = "body"
  /\ \/ /\ ~Refuses(Here, Args)
        /\ call' = [call EXCEPT !.stage = "enter", !.at = @ - 1,
                                !.args[call.at - 1] = Mapped(Here, call.op, Args),
                                !.confused = @ \/ private # Here.data]
     \/ /\ call.op \notin LifeOps
        /\ \E error \in {"ENOMEM"} \cup (IF Refuses(Here, Args) THEN {"EILSEQ"} ELSE {}) :
             call' = [call EXCEPT !.stage = "back", !.answer = [NoAnswer EXCEPT !.error = error]]
  /\ UNCHANGED <<phase, todo, layers, lib, option, want, users, private>>

-----------------------------------------------------------------------------
(* The modules on the way back.                                            *)

(* strip_common: the names of both in common; when they are equal all but  *)
(* the last.                                                               *)
Common(l, path) ==
  LET n == CHOOSE i \in 0..Len(l) :
             /\ IsPrefix(SubSeq(l, 1, i), path)
             /\ ~(i < Len(l) /\ IsPrefix(SubSeq(l, 1, i + 1), path))
  IN  IF l = path /\ n > 0 THEN n - 1 ELSE n

(* The rest of link after n names in common with path, seen from there.    *)
Relative(path, link, n) ==
  [abs |-> FALSE, up |-> Len(path) - n - 1, names |-> SubSeq(link.names, n + 1, Len(link.names))]

TransformNoDots(module, path, link) ==
  LET n == Common(link.names, path)
  IN  IF \/ ~link.abs \/ ~module.abs \/ n < Len(module.base)
         \/ n = Len(path) \/ Relative(path, link, n) \in TooLong
      THEN link
      ELSE [Relative(path, link, n) EXCEPT !.up = @ + 1]

(* transform_symlink; path is where the link is on the file system.  A     *)
(* link to the base itself lacks the base's trailing slash, and one whose  *)
(* relative form does not fit the buffer stays as it is.                   *)
Transform(module, path, link) ==
  LET n == Common(link.names, path)
  IN  IF \/ ~link.abs \/ ~module.abs
         \/ n < Len(module.base) \/ (link.names = module.base /\ module.base # <<>>)
         \/ n = Len(path) \/ Relative(path, link, n) \in TooLong
      THEN link
      ELSE Relative(path, link, n)

(* iconv_convpath towards the users.                                       *)
Decoded(name) == CHOOSE n \in DOMAIN Encoding : Encoding[n] = name
Decodes(name) == name \in Range(Encoding)

(* subdir_readlink and iconv_readlink: what may become of a link.  The     *)
(* conversion fails for a name without one and for lack of memory, and     *)
(* what does not fit is cut off.                                           *)
DecodedLink(link) == [link EXCEPT !.names = [i \in DOMAIN @ |-> Decoded(@[i])]]

LinkBack(layer, answer) ==
  LET link == DecodedLink(answer.link)
  IN  IF layer.kind = "subdir"
      THEN {[answer EXCEPT !.link = IF layer.module.rellinks
                                    THEN Transform(layer.module, Mapped(layer, "readlink", Args)[1], @)
                                    ELSE @]}
      ELSE {[NoAnswer EXCEPT !.error = "ENOMEM"]} \cup
           IF \E i \in DOMAIN answer.link.names : ~Decodes(answer.link.names[i])
           THEN {[NoAnswer EXCEPT !.error = "EILSEQ"]} ELSE
           IF link \notin TooLong THEN {[answer EXCEPT !.link = link]}
           ELSE {[answer EXCEPT !.link = [link EXCEPT !.names = SubSeq(@, 1, i)], !.short = TRUE]
                   : i \in 0..(Len(link.names) - 1)}

(* iconv_dir_fill leaves out a name without a conversion, and one that     *)
(* there is no memory for.                                                 *)
NamesBack(layer, answer) ==
  LET known == {Decoded(n) : n \in {m \in answer.names : Decodes(m)}}
  IN  IF layer.kind = "subdir" THEN {answer}
      ELSE {[answer EXCEPT !.names = names, !.short = @ \/ names # known] : names \in SUBSET known}

Passed(layer, answer) ==
  IF layer.kind = "fs" \/ answer.error # "0" THEN {answer} ELSE
  IF answer.link # Null THEN LinkBack(layer, answer) ELSE NamesBack(layer, answer)

GivenBackNever(i) == users

(* fuse_put_module.                                                        *)
GivenBack(i) == IF i = 1 THEN users ELSE [users EXCEPT ![layers[i].kind] = @ - 1]

(* A wrapper returns to the module above it or, from the top, to the       *)
(* handler.  fuse_fs_destroy gives the module back and frees the layer.    *)
Back ==
  LET i == call.at
  IN  /\ call.stage = "back"
      /\ \E answer \in Passed(Here, call.answer) :
           call' = [call EXCEPT !.answer = answer, !.at = i + 1,
                                !.stage = IF i = Len(call.args) THEN "done" ELSE "back"]
      /\ IF call.op = "destroy"
         THEN /\ layers' = [layers EXCEPT ![i].kind = "freed"]
              /\ users' = GivenBack(i)
         ELSE UNCHANGED <<layers, users>>
      /\ UNCHANGED <<phase, todo, lib, option, want, private>>

Finish ==
  /\ call.stage = "done"
  /\ call' = NoCall
  /\ UNCHANGED <<phase, todo, layers, lib, option, want, users, private>>

Next == Push \/ PushFails \/ Start \/ Stop \/ Request \/ Enter \/ Bottom \/ Body \/ Back \/ Finish

Spec == Init /\ [][Next]_vars

-----------------------------------------------------------------------------
(* Properties.                                                             *)

Outcomes == {"none", "0", "EIO", "ENOMEM", "EILSEQ", "ENOSYS"}
Stages == {"none", "enter", "body", "bottom", "back", "done"}

TypeOK ==
  /\ phase \in {"new", "up", "gone"}
  /\ lib \in [nullpath : BOOLEAN, nopath : BOOLEAN] /\ option \in BOOLEAN
  /\ users \in [Kinds -> Nat]
  /\ private \in Kinds \cup {"none", "given", "own"}
  /\ call.op \in Requests \cup LifeOps \cup {"none"} /\ call.stage \in Stages
  /\ call.answer.error \in Outcomes /\ call.at \in 0..(Top + 1)

System == layers[1].module
Answered == call.stage = "done" /\ call.op \in Requests
Asked == call.args[Top]

(* Where a path of the mount is on the file system below i modules: under  *)
(* the bases of all subdir modules, in the encoding of the iconv module    *)
(* underneath.                                                             *)
Code(i, path) ==
  IF \E j \in 2..i : layers[j].kind = "iconv" THEN [k \in DOMAIN path |-> Encoding[path[k]]] ELSE path
Base == FlattenSeq([i \in 1..(Top - 1) |->
          IF layers[i + 1].kind = "subdir" THEN Code(i, layers[i + 1].module.base) ELSE <<>>])
Below(path) == IF path = Null THEN Null ELSE Base \o Code(Top, path)
BelowAll(op, args) ==
  [j \in DOMAIN args |-> IF op = "symlink" /\ j = 1 THEN Code(Top, args[j]) ELSE Below(args[j])]

(* A request reaches the file system as one call of its operation, or of   *)
(* the one that stands in for it, with every path moved below the bases    *)
(* and converted, and each layer finds its own data in the context.  It    *)
(* does not only for lack of memory, for a name without a conversion, in   *)
(* the path or a base, or where the file system has no such operation or a *)
(* module hides it.                                                        *)
Hidden == \E i \in 2..Top : call.op \notin layers[i].ops
BaseFails == \E i \in 2..Top : layers[i].kind = "subdir" /\ ~Converts(layers[i].module.base)
CallsArrive ==
  /\ ~call.confused
  /\ Answered =>
       LET chosen == Chosen(System.ops, call.op, Asked)
           error == call.answer.error
       IN  IF call.reached # <<>>
           THEN call.reached[1] = chosen /\ call.reached[2] = BelowAll(call.op, Asked)
           ELSE \/ error = "ENOMEM"
                \/ error = "EILSEQ" /\ (BaseFails \/ \E j \in DOMAIN Asked : ~Converts(Asked[j]))
                \/ error = Default(call.op) /\ (chosen = "none" \/ Hidden)

(* A link made relative by rellinks leads, in the mount, to the very file  *)
(* its target names on the file system, unless iconv cut it; every         *)
(* absolute target below the base is made relative, but for one that is    *)
(* below the link itself and one whose relative form does not fit.  A      *)
(* directory lists every entry that has a name for users, each of them     *)
(* unless memory for its name ran out.                                     *)
Resolve(path, link) == SubSeq(path, 1, Len(path) - 1 - link.up) \o link.names
LeadsTo(path, link, target) ==
  link.up < Len(path) /\ Below(Resolve(path, link)) = target.names
AnswersComeBack ==
  Answered /\ call.answer.error = "0" =>
    /\ call.op = "readlink" =>
         LET target == call.reached[3]
             link == call.answer.link
             path == Asked[1]
         IN  /\ target.abs /\ ~link.abs /\ IsPrefix(Base, target.names) /\ ~call.answer.short =>
                  LeadsTo(path, link, target)
             /\ link.abs /\ target.abs /\ Top = 2 /\ layers[2].kind = "subdir" =>
                  \/ ~layers[2].module.abs \/ ~layers[2].module.rellinks
                  \/ ~IsStrictPrefix(Base, target.names)
                  \/ IsStrictPrefix(Below(path), target.names)
                  \/ \E long \in TooLong : ~long.abs /\ LeadsTo(path, long, target)
    /\ call.op = "readdir" =>
         LET visible == IF \E i \in 2..Top : layers[i].kind = "iconv"
                        THEN {n \in DOMAIN Encoding : Encoding[n] \in Entries} ELSE Entries
         IN  /\ call.answer.names \subseteq visible
             /\ call.answer.names = visible \/ call.answer.short
             /\ call.answer.short => \E i \in 2..Top : layers[i].kind = "iconv"

(* Through any stack, the file system is asked for no more than it can do: *)
(* it is called without a path only if it or the user said so, and the     *)
(* kernel hears of locks and of splice only if it has the operations.      *)
WithinAbilities ==
  /\ call.reached # <<>> /\ call.reached[2] = <<Null>> =>
       System.nullpath \/ System.nopath \/ option
  /\ phase = "up" /\ Idle => want \cap CanWant(System.ops) = {}

(* A module stays loaded exactly as long as a layer uses it, and so also   *)
(* when one pushed later fails.                                            *)
ModulesCounted ==
  Idle => \A k \in Kinds : users[k] = Cardinality({i \in 1..Top : layers[i].kind = k})
=============================================================================
