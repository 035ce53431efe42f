------------------------------- MODULE Files --------------------------------
(***************************************************************************)
(* The file commands of the executor: make_dir, remove, move_path and      *)
(* write_file, one system call per step, on a tree that jobs and users     *)
(* change at the same time. The agent handles one command at a time and    *)
(* may die in the middle. Links, contents and the allowed roots are left   *)
(* out: every path here is a canonical one under a root.                   *)
(***************************************************************************)
EXTENDS Integers, Sequences, FiniteSets, SequencesExt

CONSTANTS
  Paths,       \* paths below the root, as sequences of names
  MaxOps,      \* bound: commands
  MaxOthers    \* bound: steps of other processes

ASSUME PathsAssumption ==
  /\ \A p \in Paths :
       p \in Seq(STRING) \ {<<>>} /\ (Len(p) > 1 => Front(p) \in Paths)
  /\ MaxOps \in Nat /\ MaxOthers \in Nat

VARIABLES
  tree,     \* tree[p] is "dir" or "file", for the paths that exist
  op,       \* the command being handled, where it is, what is left to create
  answer,   \* the last answer: "none", "ok" or "error"
  ops, others

filesVars == <<tree, op, answer, ops, others>>

Idle == [kind |-> "idle", path |-> <<>>, to |-> <<>>, flag |-> FALSE,
         at |-> "start", todo |-> <<>>]

FilesInit ==
  /\ tree = <<>> /\ op = Idle /\ answer = "none" /\ ops = 0 /\ others = 0

--------------------------------------------------------------------------
(* The file system.                                                        *)

Exists(p) == p = <<>> \/ p \in DOMAIN tree
IsDir(p) == p = <<>> \/ (p \in DOMAIN tree /\ tree[p] = "dir")
IsFile(p) == p \in DOMAIN tree /\ tree[p] = "file"
Subtree(p) == {q \in DOMAIN tree : IsPrefix(p, q)}
Childless(p) == Subtree(p) = {p}

With(p, kind) == [q \in DOMAIN tree \cup {p} |-> IF q = p THEN kind ELSE tree[q]]
Without(S) == [q \in DOMAIN tree \ S |-> tree[q]]

CanCreate(p) == ~Exists(p) /\ IsDir(Front(p))

\* What rename puts where; `p` stands for the subtree below it.
Moved(p, to) ==
  LET dest(q) == to \o SubSeq(q, Len(p) + 1, Len(q))
      gone == Subtree(p) \cup Subtree(to)
  IN  [q \in (DOMAIN tree \ gone) \cup {dest(r) : r \in Subtree(p)} |->
         IF q \in DOMAIN tree \ gone THEN tree[q]
         ELSE tree[p \o SubSeq(q, Len(to) + 1, Len(q))]]

\* rename(2): not into itself, a file over a file, a directory over an empty one.
CanRename(p, to) ==
  /\ Exists(p) /\ IsDir(Front(to)) /\ ~(IsPrefix(p, to) /\ p # to)
  /\ Exists(to) /\ p # to => tree[p] = tree[to] /\ Childless(to)

--------------------------------------------------------------------------
(* Other processes of the machine.                                         *)

Other ==
  /\ others < MaxOthers /\ others' = others + 1
  /\ \E p \in Paths :
       \/ CanCreate(p) /\ \E kind \in {"dir", "file"} : tree' = With(p, kind)
       \/ Exists(p) /\ Childless(p) /\ tree' = Without({p})
  /\ UNCHANGED <<op, answer, ops>>

--------------------------------------------------------------------------
(* Commands.                                                               *)

BeginCommand(kind, p, to, flag) ==
  /\ op = Idle /\ ops < MaxOps /\ ops' = ops + 1
  /\ op' = [kind |-> kind, path |-> p, to |-> to, flag |-> flag,
            at |-> "start", todo |-> <<>>]
  /\ answer' = "none"
  /\ UNCHANGED <<tree, others>>

Answers(v) == answer' = v /\ op' = Idle
GoesTo(where) == op' = [op EXCEPT !.at = where] /\ UNCHANGED answer

\* Any system call may fail; the command is answered with the error, and what
\* was done stays.
CommandFails ==
  /\ op # Idle /\ Answers("error")
  /\ UNCHANGED <<tree, ops, others>>

\* The agent dies: no answer.
AgentDiesIn ==
  /\ op # Idle /\ op' = Idle
  /\ UNCHANGED <<tree, answer, ops, others>>

\* Ancestors of p that prepare_write_path will create, outermost first.
Missing(p) ==
  SelectSeq([i \in 1..(Len(p) - 1) |-> SubSeq(p, 1, i)], LAMBDA q : ~Exists(q))

\* The path prepare_write_path is called for.
Target == IF op.kind = "move" THEN op.to ELSE op.path

\* make_dir: an existing directory is success, an existing file is not.
\* move_path: the source must exist.
Check ==
  /\ op.kind \in {"make_dir", "move"} /\ op.at = "start"
  /\ IF op.kind = "make_dir" /\ Exists(op.path)
       THEN Answers(IF IsDir(op.path) THEN "ok" ELSE "error")
       ELSE IF op.kind = "move" /\ ~Exists(op.path) THEN Answers("error")
       ELSE GoesTo("prepare")
  /\ UNCHANGED <<tree, ops, others>>

\* prepare_write_path: nothing to do if the path exists.
Prepare ==
  /\ op.at = "prepare"
  /\ op' = [op EXCEPT !.at = "create",
                      !.todo = IF Exists(Target) THEN <<>> ELSE Missing(Target)]
  /\ UNCHANGED <<tree, answer, ops, others>>

\* create_dir_all, one directory at a time; one that is there by now will do.
CreateParent ==
  /\ op.at = "create" /\ op.todo # <<>>
  /\ LET q == Head(op.todo) IN
       \/ CanCreate(q) /\ tree' = With(q, "dir")
       \/ IsDir(q) /\ UNCHANGED tree
  /\ op' = [op EXCEPT !.todo = Tail(@)]
  /\ UNCHANGED <<answer, ops, others>>

Ready(kind) == op.kind = kind /\ op.at = "create" /\ op.todo = <<>>

\* create_dir_all succeeds if the directory exists, create_dir does not.
AlreadyThere(p) == op.flag /\ IsDir(p)

CreateDir ==
  /\ Ready("make_dir")
  /\ \/ CanCreate(op.path) /\ tree' = With(op.path, "dir") /\ Answers("ok")
     \/ AlreadyThere(op.path) /\ Answers("ok") /\ UNCHANGED tree
  /\ UNCHANGED <<ops, others>>

\* create_dir_all creates the parents again if they have vanished.
RecreateParents ==
  /\ Ready("make_dir") /\ op.flag /\ Missing(op.path) # <<>>
  /\ op' = [op EXCEPT !.todo = Missing(op.path)]
  /\ UNCHANGED <<tree, answer, ops, others>>

Rename ==
  /\ Ready("move") /\ CanRename(op.path, op.to)
  /\ DOMAIN Moved(op.path, op.to) \subseteq Paths
  /\ tree' = Moved(op.path, op.to) /\ Answers("ok")
  /\ UNCHANGED <<ops, others>>

\* remove looks at what the path is ...
CheckRemove ==
  /\ op.kind = "remove" /\ op.at = "start" /\ Exists(op.path)
  /\ GoesTo(IF ~IsDir(op.path) THEN "unlink" ELSE IF op.flag THEN "tree" ELSE "rmdir")
  /\ UNCHANGED <<tree, ops, others>>

\* ... and deletes it: remove_file,
Unlink ==
  /\ op.at = "unlink" /\ IsFile(op.path)
  /\ tree' = Without({op.path}) /\ Answers("ok")
  /\ UNCHANGED <<ops, others>>

\* Mutant: remove_dir_all, since the directory was empty when it was looked at.
EmptyBefore(p) == TRUE

\* remove_dir "Refuses when non-empty".
Empty(p) == Childless(p)

RmDir ==
  /\ op.at = "rmdir" /\ IsDir(op.path) /\ Empty(op.path)
  /\ tree' = Without(Subtree(op.path)) /\ Answers("ok")
  /\ UNCHANGED <<ops, others>>

\* or remove_dir_all, one entry at a time.
RemoveEntry ==
  /\ op.at = "tree"
  /\ \E q \in Subtree(op.path) :
       /\ Childless(q) /\ tree' = Without({q})
       /\ IF q = op.path THEN Answers("ok") ELSE UNCHANGED <<op, answer>>
  /\ UNCHANGED <<ops, others>>

\* write_file: check_write_path insists on the parent, open creates the file.
WriteFile ==
  /\ op.kind = "write" /\ op.at = "start"
  /\ \/ IsFile(op.path) /\ UNCHANGED tree
     \/ CanCreate(op.path) /\ tree' = With(op.path, "file")
  /\ Answers("ok")
  /\ UNCHANGED <<ops, others>>

--------------------------------------------------------------------------
FilesNext ==
  \/ \E p \in Paths, flag \in BOOLEAN :
       \/ BeginCommand("make_dir", p, p, flag) \/ BeginCommand("remove", p, p, flag)
       \/ BeginCommand("write", p, p, flag)
  \/ \E p, to \in Paths : BeginCommand("move", p, to, FALSE)
  \/ Check \/ Prepare \/ CreateParent \/ CreateDir \/ RecreateParents \/ Rename
  \/ CheckRemove \/ Unlink \/ RmDir \/ RemoveEntry \/ WriteFile
  \/ CommandFails \/ AgentDiesIn \/ Other

FilesSpec == FilesInit /\ [][FilesNext]_filesVars

--------------------------------------------------------------------------
(* Properties.                                                             *)

\* An "ok" describes the tree at the moment it is given, whatever others did
\* since the command was checked: what was made is a directory, what was removed
\* is gone, what was moved is there and as it was. And CommandKind::Remove says of
\* `recursive`: "Required to delete a non-empty directory, so a mistyped path
\* cannot take a tree with it by accident". Without it nothing else goes, not
\* even a file that has appeared between the check and the deletion.
OkIsTrue ==
  [][op # Idle /\ answer # "ok" /\ answer' = "ok" =>
       CASE op.kind = "make_dir" -> op.path \in DOMAIN tree' /\ tree'[op.path] = "dir"
         [] op.kind = "remove" -> /\ op.path \notin DOMAIN tree'
                                  /\ op.flag \/ DOMAIN tree \ DOMAIN tree' = {op.path}
         [] op.kind = "move" -> op.to \in DOMAIN tree' /\ tree'[op.to] = tree[op.path]
         [] op.kind = "write" -> op.path \in DOMAIN tree' /\ tree'[op.path] = "file"]_filesVars
=============================================================================
