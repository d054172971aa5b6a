------------------------------- MODULE FatCli ------------------------------
(***************************************************************************)
(* The program fatcli, fatcli/src/main.c: each run mounts the image, does  *)
(* one command through the calls of FatFiles and ends.  What the library   *)
(* holds in memory is lost at the end, whether it was written or not.      *)
(* While a command runs one disk access may fail, or the program may be    *)
(* stopped.                                                                *)
(***************************************************************************)
EXTENDS FatImage

CONSTANTS
  Commands,     \* the commands that are run
  BufferSize,   \* BUFFER_SIZE, in units
  FirstImages,  \* images there are before the first command
  MaxCommands,  \* bound: commands in a behaviour
  MaxFaults,    \* bound: faults in a behaviour
  MaxAccess,    \* bound: accesses of a command before the one that fails
  FaultKinds    \* of "read", "write", "crash"

ASSUME CommandAssumption ==
  \A c \in Commands :
    /\ c.op \in {"write", "read", "rm", "mkdir", "ls"}
    /\ c.op = "write" => c.data \in Data /\ c.size \in Nat /\ c.found \in BOOLEAN
    /\ c.op # "ls" => c.path # <<>>
ASSUME CliBoundsAssumption ==
  /\ {MaxCommands, MaxFaults, MaxAccess, BufferSize} \subseteq Nat /\ BufferSize > 0
  /\ FaultKinds \subseteq {"read", "write", "crash"}

VARIABLES
  disk,    \* the image
  tree,    \* what its directories lead to
  cmd,     \* the last command
  exit,    \* its exit code
  out,     \* what it wrote to a file outside the image or printed
  count,   \* commands so far
  faults   \* faults so far

vars == <<disk, tree, cmd, exit, out, count, faults>>

Nothing == [size |-> 0, data |-> {}, names |-> {}]
End(v, code, result) == [v |-> v, code |-> code, out |-> result]
Exit(v, code) == End(v, code, Nothing)

----------------------------------------------------------------------------
(* runCommand.                                                             *)

RECURSIVE CopyIn(_, _, _, _)

\* w is what f_write did with the chunk. The result of f_close is not looked at.
Copied(w, chunk, d, left) ==
  CASE w.res # "FR_OK" \/ w.did # chunk -> Exit(FClose(w.v, w.fp).v, 1)
    [] w.res = "FR_OK" /\ w.did = chunk /\ chunk = BufferSize ->
         CopyIn(w.v, w.fp, d, left - chunk)
    [] OTHER -> Exit(FClose(w.v, w.fp).v, 0)
CopyIn(v, fp, d, left) ==
  Copied(FWrite(v, fp, d, Least(left, BufferSize)), Least(left, BufferSize), d, left)

\* The file in the image is emptied before it is known that the other one exists.
WriteTo(r, c) ==
  CASE r.res # "FR_OK" -> Exit(r.v, 1)
    [] r.res = "FR_OK" /\ ~c.found -> Exit(FClose(r.v, r.fp).v, 1)
    [] OTHER -> CopyIn(r.v, r.fp, c.data, c.size)
Write(v, c) == WriteTo(FOpen(v, c.path, {"FA_WRITE", "FA_CREATE_ALWAYS"}), c)

RECURSIVE CopyOut(_, _, _)

Got(got, from, r) ==
  [got EXCEPT !.size = @ + r.fp.fptr - from, !.data = @ \cup {r.did[i] : i \in DOMAIN r.did}]

CopiedOut(r, from, got) ==
  CASE r.res # "FR_OK" -> Exit(FClose(r.v, r.fp).v, 1)
    [] r.res = "FR_OK" /\ r.fp.fptr - from = BufferSize ->
         CopyOut(r.v, r.fp, Got(got, from, r))
    [] OTHER -> End(FClose(r.v, r.fp).v, 0, Got(got, from, r))
CopyOut(v, fp, got) == CopiedOut(FRead(v, fp, BufferSize), fp.fptr, got)

ReadFile(r) == IF r.res = "FR_OK" THEN CopyOut(r.v, r.fp, Nothing) ELSE Exit(r.v, 1)
Read(v, c) == ReadFile(FOpen(v, c.path, {"FA_READ"}))

CodeOf(r) == Exit(r.v, IF r.res = "FR_OK" THEN 0 ELSE 1)

Rm(v, c) == CodeOf(FUnlink(FChmod(v, c.path).v, c.path))
Mkdir(v, c) == CodeOf(FMkdir(v, c.path))

\* An error of f_readdir ends the list.
Names(r) == End(r.v, 0, [Nothing EXCEPT !.names = {r.did[i] : i \in DOMAIN r.did}])
ListDir(r) == IF r.res = "FR_OK" THEN Names(List(r.v, r.dj)) ELSE Exit(r.v, 1)
Ls(v, c) == ListDir(FOpendir(v, c.path))

RunCommand(v, c) ==
  CASE c.op = "write" -> Write(v, c)
    [] c.op = "read"  -> Read(v, c)
    [] c.op = "rm"    -> Rm(v, c)
    [] c.op = "mkdir" -> Mkdir(v, c)
    [] c.op = "ls"    -> Ls(v, c)

----------------------------------------------------------------------------
NodeOf(d, e) ==
  LET body == IF e.isDir THEN <<>> ELSE BodyOf(d, e.clust, e.size)
  IN  [isDir |-> e.isDir, ro |-> e.ro, size |-> e.size, data |-> {body[i] : i \in DOMAIN body}]
TreeOf(d) ==
  LET all == AllEntries(d)
  IN  [p \in {x.path : x \in all} |-> NodeOf(d, (CHOOSE x \in all : x.path = p).e)]

----------------------------------------------------------------------------
FaultsAhead ==
  {NoFault} \cup (IF faults < MaxFaults
                  THEN {Fault(k, n) : k \in FaultKinds, n \in 0..MaxAccess} ELSE {})
Start(f) == [Mounted(disk) EXCEPT !.fault = f]
Hit(f, v) == f # NoFault /\ v.fault.kind # f.kind

\* main: when the command is done the window is not written.
Finish(f, r) ==
  /\ f = NoFault \/ Hit(f, r.v)
  /\ faults' = IF f = NoFault THEN faults ELSE faults + 1
  /\ disk' = Image(r.v)
  /\ tree' = TreeOf(disk')
  /\ exit' = IF Stopped(r.v) THEN 1 ELSE r.code
  /\ out' = IF Stopped(r.v) THEN Nothing ELSE r.out
  /\ count' = count + 1

Run(c) ==
  /\ count < MaxCommands
  /\ cmd' = c
  /\ \E f \in FaultsAhead : Finish(f, RunCommand(Start(f), c))

Init == /\ disk \in FirstImages
        /\ tree = TreeOf(disk)
        /\ cmd = [op |-> "none"] /\ exit = 0 /\ out = Nothing /\ count = 0 /\ faults = 0

Next == \E c \in Commands : Run(c)

Spec == Init /\ [][Next]_vars
----------------------------------------------------------------------------
(* Properties.                                                             *)

\* Whatever failed or stopped, the entries of an image have chains that end, in
\* which no cluster is free and none belongs to two of them, and no two entries
\* of a directory have one name: the order in which f_open, f_write, f_unlink and
\* f_mkdir bring entries, tables and FAT sectors to the disk through one window.
NoCrossLink == Uncrossed(disk)

\* Parts of long names stand only before the entry they belong to, and the 8.3 names
\* of a directory differ, also those of long names that begin alike and whose numbers
\* dir_register has to find.
Parted(t) ==
  \A i \in {j \in DOMAIN t : t[j] # Deleted /\ IsLfn(t[j])} :
    \E k \in DOMAIN t : k > i /\ t[k] # Deleted /\ ~IsLfn(t[k]) /\ HasLong(t, k, t[i].lfn)
Differing(t) == \A i, j \in ObjectsIn(t) : i # j => t[i].sfn # t[j].sfn
Tables(d) == {EntriesAt(d, 0)} \cup {EntriesAt(d, z.e.clust) : z \in {u \in Used(d) : u.e.isDir}}
NamesWhole == \A t \in Tables(disk) : Differing(t) /\ (faults = 0 => Parted(t))

\* Without faults no cluster is lost.  Expected to be violated: f_mkdir removes the chain of a
\* directory that it could not register (ff.c:3391), but does not write the window after it.
NeverLost == faults = 0 => Lost(disk) = {}

\* Without faults clusters are lost only by a command that is refused and changes
\* nothing else (f_mkdir when there is no room for the entry: NeverLost).
LostOnlyWhenRefused ==
  [][faults' = 0 => Lost(disk') \subseteq Lost(disk) \/ (exit' = 1 /\ tree' = tree)]_vars

\* The commands work as FileTree says: without faults they do all of their work or
\* report that they did not; with them nothing but the file of the command changes.
Aliases(n) == {<<Base[m], k>> : m \in {n} \cap LongNames, k \in 1..3}
Files == INSTANCE FileTree WITH hurt <- faults > 0, AliasOf <- Aliases
ImplementsFileTree == Files!Spec
=============================================================================
