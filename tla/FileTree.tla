------------------------------ MODULE FileTree -----------------------------
(***************************************************************************)
(* What one who runs the commands of fatcli, fatcli/src/main.c, may expect *)
(* of an image: a tree of files and directories, each command doing all of *)
(* its work and leaving exit code 0, or reporting that it did not.  Nothing*)
(* is said of sectors and clusters, only that there may be no room.        *)
(***************************************************************************)
EXTENDS Integers, Sequences, FiniteSets

CONSTANTS
  Commands,   \* what is run
  AliasOf(_)  \* the 8.3 names that a name may also go by

VARIABLES
  tree,   \* from the path of every file and directory to what is there
  cmd,    \* the last command
  exit,   \* its exit code
  out,    \* what it read or listed
  hurt    \* has a command been stopped or met a disk error?

Parent(p) == SubSeq(p, 1, Len(p) - 1)
Name(p) == p[Len(p)]
IsDir(p) == p = <<>> \/ (p \in DOMAIN tree /\ tree[p].isDir)
Children(p) == {q \in DOMAIN tree : Parent(q) = p}

FileWith(d, n) == [isDir |-> FALSE, ro |-> FALSE, size |-> n, data |-> IF n = 0 THEN {} ELSE {d}]
Directory == [isDir |-> TRUE, ro |-> FALSE, size |-> 0, data |-> {}]
Nothing == [size |-> 0, data |-> {}, names |-> {}]

Put(p, node) == [q \in DOMAIN tree \cup {p} |-> IF q = p THEN node ELSE tree[q]]
Removed(p) == [q \in DOMAIN tree \ {p} |-> tree[q]]

Writable(p) == IsDir(Parent(p)) /\ (p \in DOMAIN tree => ~(tree[p].isDir \/ tree[p].ro))
Removable(p) == p \in DOMAIN tree /\ Children(p) = {}
Unlocked(p) == IF p \in DOMAIN tree THEN Put(p, [tree[p] EXCEPT !.ro = FALSE]) ELSE tree
Creatable(p) == IsDir(Parent(p)) /\ p \notin DOMAIN tree

----------------------------------------------------------------------------
Succeeds == exit' = 0 /\ out' = Nothing
Refuses == exit' = 1 /\ out' = Nothing

\* What did not fit is cut off, or nothing could be made.
Write(c) ==
  \/ Writable(c.path) /\ c.found /\ Succeeds /\ tree' = Put(c.path, FileWith(c.data, c.size))
  \/ Writable(c.path) /\ Refuses
     /\ tree' \in {tree} \cup {Put(c.path, FileWith(c.data, n)) :
                                 n \in IF c.found THEN 0..c.size ELSE {0}}
  \/ ~Writable(c.path) /\ Refuses /\ UNCHANGED tree

Rm(c) ==
  \/ Removable(c.path) /\ Succeeds /\ tree' = Removed(c.path)
  \/ ~Removable(c.path) /\ Refuses /\ tree' = Unlocked(c.path)

Mkdir(c) ==
  \/ Creatable(c.path) /\ Succeeds /\ tree' = Put(c.path, Directory)
  \/ Refuses /\ UNCHANGED tree

Read(c) ==
  LET isFile == c.path \in DOMAIN tree /\ ~tree[c.path].isDir
  IN  /\ exit' = IF isFile THEN 0 ELSE 1
      /\ out' = IF isFile THEN [Nothing EXCEPT !.size = tree[c.path].size,
                                               !.data = tree[c.path].data] ELSE Nothing
      /\ UNCHANGED tree

Ls(c) ==
  /\ exit' = IF IsDir(c.path) THEN 0 ELSE 1
  /\ out' = IF IsDir(c.path) THEN [Nothing EXCEPT !.names = {Name(q) : q \in Children(c.path)}]
            ELSE Nothing
  /\ UNCHANGED tree

----------------------------------------------------------------------------
(* What a command that is stopped or meets a disk error, or a later one,   *)
(* leaves: its own file as it was, or new, or cut off, or gone; one that   *)
(* was being removed perhaps by its 8.3 name.  Nothing else has changed.   *)

Renamed(p) ==
  {[q \in (DOMAIN tree \ {p}) \cup {Append(Parent(p), a)} |->
      IF q \in DOMAIN tree THEN tree[q] ELSE Unlocked(p)[p]] :
     a \in {b \in AliasOf(Name(p)) : Append(Parent(p), b) \notin DOMAIN tree}}

Leftovers(c) ==
  CASE c.op = "write" ->
         IF Writable(c.path)
         THEN {tree} \cup {Put(c.path, FileWith(c.data, n)) : n \in 0..c.size} ELSE {tree}
    [] c.op = "rm" ->
         {tree, Unlocked(c.path)}
         \cup (IF Removable(c.path) THEN {Removed(c.path)} \cup Renamed(c.path) ELSE {})
    [] c.op = "mkdir" ->
         {tree} \cup (IF Creatable(c.path) THEN {Put(c.path, Directory)} ELSE {})
    [] OTHER -> {tree}

Interrupted(c) ==
  /\ hurt'
  /\ tree' \in Leftovers(c)
  /\ exit' \in {0, 1}
  /\ c.op = "read" /\ exit' = 0 => Read(c)
  /\ c.op = "ls" => out'.names \subseteq {Name(q) : q \in Children(c.path)}

Do(c) ==
  \/ c.op = "write" /\ Write(c)
  \/ c.op = "rm" /\ Rm(c)
  \/ c.op = "mkdir" /\ Mkdir(c)
  \/ c.op = "read" /\ Read(c)
  \/ c.op = "ls" /\ Ls(c)
  \/ Interrupted(c)

Start == [op |-> "none"]
Init == cmd = Start /\ exit = 0 /\ out = Nothing /\ ~hurt
Next == (hurt => hurt') /\ \E c \in Commands : cmd' = c /\ Do(c)

Spec == Init /\ [][Next]_<<tree, cmd, exit, out, hurt>>
=============================================================================
