------------------------------ MODULE OpenFiles -----------------------------
(***************************************************************************)
(* What the user of the FatFs library, fatcli/src/ff.c, may expect of the  *)
(* calls on open files and on paths: a file is a sequence of units, an     *)
(* open file a position in it, and a call changes what it is about and     *)
(* nothing else.  Clusters, sectors and buffers are not seen, only that    *)
(* there may be no room.                                                   *)
(***************************************************************************)
EXTENDS Integers, Sequences, FiniteSets

CONSTANTS
  Calls,    \* what is called
  Objects,  \* the file objects
  NotOpen,  \* an object that is not open
  NoName    \* of a volume without a label

VARIABLES
  tree,   \* from the path of every file and directory to what is there
  label,  \* of the volume
  open,   \* from every object to the path and the position, or NotOpen
  call,   \* the last call
  res,    \* its result
  did,    \* what it read, or how many units it wrote
  hurt,   \* has a call been stopped or met a disk error?
  loose   \* has a sector been written behind the back of its owner?

Parent(p) == SubSeq(p, 1, Len(p) - 1)
IsDir(p) == p = <<>> \/ (p \in DOMAIN tree /\ tree[p].isDir)
IsFile(p) == p \in DOMAIN tree /\ ~tree[p].isDir
Below(p, q) == Len(q) >= Len(p) /\ SubSeq(q, 1, Len(p)) = p
Children(p) == {q \in DOMAIN tree : Parent(q) = p}

FileOf(body) == [isDir |-> FALSE, ro |-> FALSE, body |-> body]
Directory == [isDir |-> TRUE, ro |-> FALSE, body |-> <<>>]

Put(p, node) == [q \in DOMAIN tree \cup {p} |-> IF q = p THEN node ELSE tree[q]]
Without(p) == [q \in {r \in DOMAIN tree : ~Below(p, r)} |-> tree[q]]

\* The calls leave open files alone that are not theirs: who opens, renames or
\* removes a file that is open must know what he does (_FS_LOCK is 0).
Unused(p) == \A o \in Objects : open[o] # NotOpen => ~Below(p, open[o].path)

Does(c) == res' = "FR_OK" /\ UNCHANGED label
Refuses == res' # "FR_OK" /\ UNCHANGED <<tree, label, open>>

----------------------------------------------------------------------------
(* Calls on paths.                                                         *)

Opens(c) == open' = [open EXCEPT ![c.o] = [path |-> c.path, pos |-> 0, mode |-> c.mode]]
Creating(c) == c.mode \cap {"FA_CREATE_ALWAYS", "FA_OPEN_ALWAYS"} # {}
Changing(c) == Creating(c) \/ "FA_WRITE" \in c.mode
Open(c) ==
  \/ IsFile(c.path) /\ (tree[c.path].ro => ~Changing(c)) /\ Does(c) /\ Opens(c)
     /\ tree' = IF "FA_CREATE_ALWAYS" \in c.mode THEN Put(c.path, FileOf(<<>>)) ELSE tree
  \/ c.path \notin DOMAIN tree /\ IsDir(Parent(c.path)) /\ Creating(c)
     /\ \/ Does(c) /\ Opens(c) /\ tree' = Put(c.path, FileOf(<<>>))
        \/ Refuses
  \/ ~(IsFile(c.path) /\ (tree[c.path].ro => ~Changing(c)))
     /\ ~(c.path \notin DOMAIN tree /\ IsDir(Parent(c.path)) /\ Creating(c))
     /\ Refuses

\* What is moved below itself is gone.
Moved(from, to) ==
  [q \in DOMAIN Without(from) \cup {to \o SubSeq(r, Len(from) + 1, Len(r)) :
                                      r \in {p \in DOMAIN tree : Below(from, p)}} |->
     IF Below(to, q) THEN tree[from \o SubSeq(q, Len(to) + 1, Len(q))] ELSE tree[q]]
Rename(c) ==
  LET may == c.path \in DOMAIN tree /\ c.to \notin DOMAIN tree /\ IsDir(Parent(c.to))
  IN  \/ may /\ Does(c) /\ UNCHANGED open
         /\ tree' = IF Below(c.path, c.to) THEN Without(c.path) ELSE Moved(c.path, c.to)
      \/ Refuses  \* there may be no room for the entry

Unlink(c) ==
  IF c.path \in DOMAIN tree /\ ~tree[c.path].ro /\ Children(c.path) = {}
  THEN Does(c) /\ UNCHANGED open /\ tree' = Without(c.path)
  ELSE Refuses

Mkdir(c) ==
  \/ IsDir(Parent(c.path)) /\ c.path \notin DOMAIN tree
     /\ Does(c) /\ UNCHANGED open /\ tree' = Put(c.path, Directory)
  \/ Refuses

\* The size of a file that is open is not known before f_sync.
Stat(c) ==
  IF c.path \in DOMAIN tree
  THEN /\ Does(c) /\ UNCHANGED <<tree, open>>
       /\ did'.isDir = tree[c.path].isDir /\ did'.ro = tree[c.path].ro
       /\ Unused(c.path) => did'.size = Len(tree[c.path].body)
  ELSE Refuses
Utime(c) == IF c.path \in DOMAIN tree THEN Does(c) /\ UNCHANGED <<tree, open>> ELSE Refuses

Setlabel(c) ==
  \/ res' = "FR_OK" /\ label' = c.label /\ UNCHANGED <<tree, open>>
  \/ Refuses
Getlabel(c) == Does(c) /\ did' = label /\ UNCHANGED <<tree, open>>

----------------------------------------------------------------------------
(* Calls on an open file.                                                  *)

At(c) == open[c.o]
Body(c) == tree[At(c).path].body
Writes(c) == "FA_WRITE" \in At(c).mode
Smaller(a, b) == IF a < b THEN a ELSE b

Stays(c, pos, body) ==
  /\ Does(c)
  /\ open' = [open EXCEPT ![c.o].pos = pos]
  /\ tree' = [tree EXCEPT ![At(c).path].body = body]

\* A file is stretched to the position, with no matter what, as far as there is room.
Stretched(c, body) ==
  /\ Len(body) \in Len(Body(c))..c.to
  /\ SubSeq(body, 1, Len(Body(c))) = Body(c)
  /\ Stays(c, Len(body), body)
Lseek(c) ==
  Does(c) /\
  IF c.to > Len(Body(c)) /\ Writes(c) THEN Stretched(c, tree'[At(c).path].body)
  ELSE Stays(c, Smaller(c.to, Len(Body(c))), Body(c))

Over(body, pos, d, n) ==
  [i \in 1..(IF pos + n > Len(body) THEN pos + n ELSE Len(body)) |->
     IF i \in (pos + 1)..(pos + n) THEN d ELSE body[i]]
Write(c) ==
  IF Writes(c)
  THEN \E n \in 0..c.size :
         Stays(c, At(c).pos + n, Over(Body(c), At(c).pos, c.data, n)) /\ did' = n
  ELSE Refuses

Read(c) ==
  IF "FA_READ" \in At(c).mode
  THEN /\ Stays(c, Smaller(At(c).pos + c.size, Len(Body(c))), Body(c))
       /\ did' = SubSeq(Body(c), At(c).pos + 1, Smaller(At(c).pos + c.size, Len(Body(c))))
  ELSE Refuses

Truncate(c) ==
  IF Writes(c) THEN Stays(c, At(c).pos, SubSeq(Body(c), 1, At(c).pos)) ELSE Refuses

Sync(c) == Does(c) /\ UNCHANGED <<tree, open>>
Close(c) == Does(c) /\ open' = [open EXCEPT ![c.o] = NotOpen] /\ UNCHANGED tree

----------------------------------------------------------------------------
(* A call that is stopped or meets a disk error, or a later one, leaves    *)
(* files alone that are not open and not its own.                          *)

Own(c) ==
  {open[o].path : o \in {q \in Objects : open[q] # NotOpen}}
  \cup (IF c.op \in {"open", "rename", "unlink", "mkdir", "utime"} THEN {c.path} ELSE {})
  \cup (IF c.op = "rename" THEN {c.to} ELSE {})
Others(t, c) == {p \in DOMAIN t : \A q \in Own(c) : ~Below(q, p)}
Interrupted(c) ==
  /\ hurt'
  /\ Others(tree', c) = Others(tree, c)
  /\ \A p \in Others(tree, c) : tree'[p] = tree[p]
  /\ label' = label \/ c.op = "setlabel"

Called(c) ==
  \/ c.op = "open" /\ Open(c)
  \/ c.op = "lseek" /\ Lseek(c)
  \/ c.op = "write" /\ Write(c)
  \/ c.op = "read" /\ Read(c)
  \/ c.op = "truncate" /\ Truncate(c)
  \/ c.op = "sync" /\ Sync(c)
  \/ c.op = "close" /\ Close(c)
  \/ c.op = "rename" /\ Rename(c)
  \/ c.op = "unlink" /\ Unlink(c)
  \/ c.op = "mkdir" /\ Mkdir(c)
  \/ c.op = "stat" /\ Stat(c)
  \/ c.op = "utime" /\ Utime(c)
  \/ c.op = "setlabel" /\ Setlabel(c)
  \/ c.op = "getlabel" /\ Getlabel(c)

Start == [op |-> "none"]
Init == call = Start /\ open = [o \in Objects |-> NotOpen] /\ ~hurt /\ ~loose
Next ==
  /\ hurt => hurt'
  /\ loose => loose'
  /\ \E c \in Calls : call' = c /\ (Called(c) \/ Interrupted(c) \/ loose)

Spec == Init /\ [][Next]_<<tree, label, open, call, res, did, hurt, loose>>
=============================================================================
