----------------------------- MODULE FatSession -----------------------------
(***************************************************************************)
(* A program that keeps a volume mounted and files open while it makes one *)
(* call of the FatFs library, fatcli/src/ff.c, after another: file objects *)
(* with their buffers and positions, and the one window of the volume, are *)
(* what the calls hand on to each other in memory.  While a call runs the  *)
(* machine may stop, or one disk access may fail; then the program is only *)
(* seen to close what it has open.                                         *)
(***************************************************************************)
EXTENDS FatImage, FatCalls

CONSTANTS
  Calls,        \* the calls that are made
  FirstCalls,   \* bound: those of them that a behaviour begins with
  Objects,      \* file objects
  NotOpen,      \* an object that is not open
  FirstImages,  \* images there are before the first call
  MaxCalls,     \* bound: calls in a behaviour
  MaxAccess,    \* bound: accesses of a call before the one that fails
  FaultKinds    \* of "read", "write"

\* No path has a segment "." or ".." (_FS_RPATH is 0, create_name refuses them), and f_unlink
\* is not called with an empty one.
OnFile(c) == c.op \in {"open", "lseek", "write", "read", "truncate", "sync", "close"}
CallOps ==
  {"open", "lseek", "write", "read", "truncate", "sync", "close",
   "rename", "unlink", "mkdir", "stat", "utime", "setlabel", "getlabel"}
IsPath(path) == path \in Seq({path[i] : i \in DOMAIN path} \ {Dot, DotDot})
Modes == {"FA_READ", "FA_WRITE", "FA_CREATE_NEW", "FA_CREATE_ALWAYS", "FA_OPEN_ALWAYS"}
ASSUME CallAssumption == FirstCalls \subseteq Calls /\
  \A c \in Calls :
    /\ c.op \in CallOps /\ (OnFile(c) => c.o \in Objects)
    /\ c.op \in {"open", "rename", "unlink", "mkdir", "stat", "utime"} => IsPath(c.path)
    /\ c.op = "rename" => IsPath(c.to)
    /\ c.op = "unlink" => c.path # <<>>
    /\ c.op = "open" => c.mode \subseteq Modes
    /\ c.op = "lseek" => c.to \in Nat
    /\ c.op \in {"write", "read"} => c.size \in Nat
OpenPaths == {c.path : c \in {b \in Calls : b.op = "open"}}
Openings == [path : OpenPaths, pos : Nat, mode : SUBSET Modes]
ASSUME NotOpenAssumption == NotOpen \notin Openings
ASSUME ImageAssumption == \A d \in FirstImages : WellFormed(d)
ASSUME SessionBoundsAssumption ==
  {MaxCalls, MaxAccess} \subseteq Nat /\ FaultKinds \subseteq {"read", "write"}

VARIABLES
  vol,    \* the volume: its image, and the window and counts in memory
  fil,    \* the file objects
  open,   \* from every object to the path and the position, or NotOpen
  tree,   \* what the calls show of the image, what is still in memory included
  label,  \* of the volume
  call, res, did,  \* the last call, its result, and what it read or wrote
  kept,   \* what the program knows to be on the disk of the files it writes
  count,  \* calls so far
  hurt,   \* has a call been stopped or met a disk error?
  loose   \* was a buffer left behind when its sector was cut off?

seen == <<open, tree, label, call, res, did>>
vars == <<vol, fil, seen, kept, count, hurt, loose>>

----------------------------------------------------------------------------
(* What the calls show.                                                    *)

ShownDisk(v) == IF v.dirty THEN [v.disk EXCEPT ![v.sect] = v.win] ELSE v.disk
WithBuffer(d, fp) == IF "FA__DIRTY" \in fp.flag THEN [d EXCEPT ![fp.dsect] = fp.buf] ELSE d

\* The object that has path open.
Holders(op, path) == {o \in Objects : op[o] # NotOpen /\ op[o].path = path}
NodeOf(d, w, files, op) ==
  [isDir |-> w.e.isDir, ro |-> w.e.ro,
   body |-> CASE w.e.isDir -> <<>>
              [] ~w.e.isDir /\ Holders(op, w.path) # {} ->
                   LET fp == files[CHOOSE o \in Holders(op, w.path) : TRUE]
                   IN  BodyOf(WithBuffer(d, fp), fp.sclust, fp.fsize)
              [] OTHER -> BodyOf(d, w.e.clust, w.e.size)]
TreeOf(d, files, op) ==
  LET all == AllEntries(d)
  IN  [p \in {w.path : w \in all} |-> NodeOf(d, CHOOSE w \in all : w.path = p, files, op)]

LabelsOf(t) == {t[i].label : i \in {j \in DOMAIN t : t[j] # Deleted /\ IsLabel(t[j])}}
LabelOf(d) ==
  LET all == LabelsOf(EntriesAt(d, 0)) IN IF all = {} THEN NoName ELSE CHOOSE n \in all : TRUE

----------------------------------------------------------------------------
(* The calls.                                                              *)

\* The rule of the program that makes the calls, no code of the library: it does not open,
\* rename or remove what it has open. _FS_LOCK is 0, the library leaves this to it. It is the
\* entry that tells files apart, for a file has more than one path.
Unused(p) ==
  \A o \in Objects :
    open[o] # NotOpen => ~(Len(open[o].path) >= Len(p) /\ SubSeq(open[o].path, 1, Len(p)) = p)
Traced == [vol EXCEPT !.fault = Tracing]
Place(fp) == <<fp.dirSect, fp.slot>>
HeldPlaces == {Place(fil[o]) : o \in {q \in Objects : open[q] # NotOpen}}
\* The places of the object that path leads to, and of those in it.
PlacesAt(r) ==
  {<<r.dj.sect, Slot(r.dj)>>}
    \cup (IF Entry(r.v, r.dj).isDir
          THEN {DataSector(c) : c \in ClustersFrom(ShownDisk(r.v), Entry(r.v, r.dj).clust)}
               \X (1..PerTable)
          ELSE {})
Free(p) ==
  LET r == FollowPath(Traced, p)
  IN  Unused(p) /\ (r.res = "FR_OK" /\ ~r.dj.root => PlacesAt(r) \cap HeldPlaces = {})
Possible(c) ==
  /\ OnFile(c) => (c.op = "open" <=> open[c.o] = NotOpen)
  /\ c.op \in {"open", "rename", "unlink"} => Free(c.path)

Result(v, c) ==
  CASE c.op = "open"     -> FOpen(v, c.path, c.mode)
    [] c.op = "lseek"    -> FLseek(v, fil[c.o], c.to)
    [] c.op = "write"    -> FWrite(v, fil[c.o], c.data, c.size)
    [] c.op = "read"     -> FRead(v, fil[c.o], c.size)
    [] c.op = "truncate" -> FTruncate(v, fil[c.o])
    [] c.op = "sync"     -> FSync(v, fil[c.o])
    [] c.op = "close"    -> FClose(v, fil[c.o])
    [] c.op = "rename"   -> FRename(v, c.path, c.to)
    [] c.op = "unlink"   -> FUnlink(v, c.path)
    [] c.op = "mkdir"    -> FMkdir(v, c.path)
    [] c.op = "stat"     -> FStat(v, c.path)
    [] c.op = "utime"    -> FUtime(v, c.path)
    [] c.op = "setlabel" -> FSetlabel(v, c.label)
    [] c.op = "getlabel" -> FGetlabel(v)

\* f_close gives the object up only when it could store all of it.
FileAfter(c, r) == IF c.op = "close" /\ r.res = "FR_OK" THEN NoFile ELSE r.fp
FilesAfter(c, r) == IF OnFile(c) THEN [fil EXCEPT ![c.o] = FileAfter(c, r)] ELSE fil
OpenAfter(c, r) ==
  CASE c.op = "open" /\ r.res = "FR_OK" ->
         [open EXCEPT ![c.o] = [path |-> c.path, pos |-> 0, mode |-> c.mode]]
    [] c.op = "close" /\ r.res = "FR_OK" -> [open EXCEPT ![c.o] = NotOpen]
    [] c.op \notin {"open", "close"} /\ OnFile(c) -> [open EXCEPT ![c.o].pos = r.fp.fptr]
    [] OTHER -> open

----------------------------------------------------------------------------
(* What the program knows to be on the disk: that there is a file, what    *)
(* f_sync stored last, of that the units safe from what was done since,    *)
(* and whether some were cut off.                                          *)

Nothing == [there |-> FALSE, body |-> <<>>, safe |-> 0, cut |-> FALSE]
Stored(body) == [there |-> TRUE, body |-> body, safe |-> Len(body), cut |-> FALSE]
Overwrites(c) == c.op = "open" /\ "FA_CREATE_ALWAYS" \in c.mode

Touched(k, pos, cuts) == [k EXCEPT !.safe = Least(@, pos), !.cut = @ \/ cuts]
KeptDuring(c) ==
  CASE c.op = "open" ->
         IF c.path \in DOMAIN tree /\ ~tree[c.path].isDir
         THEN Touched(Stored(tree[c.path].body),
                      IF Overwrites(c) THEN 0 ELSE Len(tree[c.path].body), Overwrites(c))
         ELSE Nothing
    [] c.op = "write"    -> Touched(kept[c.o], open[c.o].pos, FALSE)
    [] c.op = "truncate" ->
         Touched(kept[c.o], open[c.o].pos, open[c.o].pos < Len(tree[open[c.o].path].body))
    [] OTHER -> kept[c.o]
KeptAfter(c, r) ==
  CASE c.op = "sync" /\ r.res = "FR_OK" ->
         [kept EXCEPT ![c.o] = Stored(tree[open[c.o].path].body)]
    [] OnFile(c) /\ (c.op = "close" \/ (c.op = "open" /\ r.res # "FR_OK")) ->
         [kept EXCEPT ![c.o] = Nothing]
    [] OTHER -> IF OnFile(c) THEN [kept EXCEPT ![c.o] = KeptDuring(c)] ELSE kept

----------------------------------------------------------------------------
\* The buffer of a file that has been cut is still to be written, to a sector that
\* is no longer the file's.
LeftBehind(v, fp) ==
  /\ "FA__DIRTY" \in fp.flag
  /\ fp.dsect \notin {DataSector(c) : c \in ClustersFrom(ShownDisk(v), fp.sclust)}

Show(v, files, op) ==
  /\ vol' = [v EXCEPT !.fault = NoFault]
  /\ fil' = files
  /\ open' = op
  /\ tree' = TreeOf(ShownDisk(v), files, op)
  /\ label' = LabelOf(ShownDisk(v))

Did(r) == IF "did" \in DOMAIN r THEN r.did ELSE 0
Return(c, r) ==
  /\ Show(r.v, FilesAfter(c, r), OpenAfter(c, r))
  /\ res' = r.res /\ did' = Did(r)
  /\ kept' = KeptAfter(c, r)
  /\ loose' = (loose \/ (c.op = "truncate" /\ LeftBehind(r.v, r.fp)))

Ends(c, r) == Return(c, r) /\ UNCHANGED hurt

\* The machine stops during a call, before or after it wrote a sector.
Stops(c, r) ==
  /\ ~hurt /\ hurt' = TRUE
  /\ \E image \in r.v.fault.images \cup {r.v.disk} :
       Show(Mounted(image), [o \in Objects |-> NoFile], [o \in Objects |-> NotOpen])
  /\ res' = "stopped" /\ did' = 0
  /\ kept' = IF OnFile(c) THEN [kept EXCEPT ![c.o] = KeptDuring(c)] ELSE kept
  /\ UNCHANGED loose

\* A disk access of the call fails.
Errs(c, r, f) == ~hurt /\ hurt' = TRUE /\ r.v.fault.kind # f.kind /\ Return(c, r)

Finish(c, r, f) ==
  \/ f = Tracing /\ (Ends(c, r) \/ Stops(c, r))
  \/ f # Tracing /\ Errs(c, r, f)

Faults == {Tracing} \cup {Fault(k, n) : k \in FaultKinds, n \in 0..MaxAccess}

Call(c) ==
  /\ count < MaxCalls /\ count' = count + 1
  /\ count = 0 => c \in FirstCalls
  /\ Possible(c)
  /\ hurt => c.op = "close"
  /\ call' = c
  /\ \E f \in Faults : Finish(c, Result([vol EXCEPT !.fault = f], c), f)

Init ==
  /\ vol \in {Mounted(d) : d \in FirstImages}
  /\ fil = [o \in Objects |-> NoFile] /\ open = [o \in Objects |-> NotOpen]
  /\ tree = TreeOf(vol.disk, fil, open) /\ label = LabelOf(vol.disk)
  /\ call = [op |-> "none"] /\ res = "FR_OK" /\ did = 0
  /\ kept = [o \in Objects |-> Nothing] /\ count = 0
  /\ hurt = FALSE /\ loose = FALSE

Next == \E c \in Calls : Call(c)

Spec == Init /\ [][Next]_vars

----------------------------------------------------------------------------
(* Properties.                                                             *)

Sound == ~hurt /\ ~loose
OpenObjects == {o \in Objects : open[o] # NotOpen}

\* What an open file remembers of its position is true: clust is the cluster in which
\* the unit before the file pointer lies, and in the middle of a sector the buffer is
\* of that sector (f_lseek, f_read and f_write all go on from clust and dsect without
\* a look at the chain).
ClusterBefore(fp, ch) ==
  ClusterOf(fp.fptr) + 1 \in DOMAIN ch /\ fp.clust = ch[ClusterOf(fp.fptr) + 1]
PositionCached ==
  Sound =>
    \A o \in OpenObjects :
      LET fp == fil[o]
      IN  fp.fptr > 0 =>
            /\ ClusterBefore(fp, Chain(ShownDisk(vol), fp.sclust))
            /\ ~AtBoundary(fp) => fp.dsect = DataSector(fp.clust)

\* Every file has as many clusters as its size needs and begins nowhere when it is
\* empty, for an open file by what its object says (f_lseek stretches the chain and
\* the size, f_truncate cuts both).
ChainFitsSize ==
  Sound =>
    /\ \A o \in OpenObjects : Fits(ShownDisk(vol), fil[o].sclust, fil[o].fsize)
    /\ \A w \in AllEntries(ShownDisk(vol)) :
         ~w.e.isDir /\ w.place \notin HeldPlaces => Fits(ShownDisk(vol), w.e.clust, w.e.size)

\* Every cluster that is taken belongs to an entry or to an open file, but for those of
\* a call that is refused (f_mkdir) and those below a directory moved below itself
\* (f_rename does not look where the new name is).
ChainsOf(d, files, op) ==
  {ClustersFrom(d, w.e.clust) : w \in {u \in Used(d) : Holders(op, u.path) = {}}}
  \cup {ClustersFrom(d, files[o].sclust) : o \in {q \in Objects : op[q] # NotOpen}}
LostIn(d, files, op) ==
  {c \in Clusters : d[FatSector(0, c)][c] # 0}
    \ (RootClusters(d) \cup UNION ChainsOf(d, files, op))
BelowItself(c) ==
  c.op = "rename" /\ Len(c.to) > Len(c.path) /\ SubSeq(c.to, 1, Len(c.path)) = c.path
NothingLost ==
  [][Sound' /\ res' = "FR_OK" /\ ~BelowItself(call') =>
       LostIn(ShownDisk(vol'), fil', open') \subseteq LostIn(ShownDisk(vol), fil, open)]_vars

\* A file gets less room than it asks for only on a full disk (f_write and f_lseek stop
\* where create_chain finds no cluster).
Short(c) ==
  \/ c.op = "write" /\ res' = "FR_OK" /\ did' < c.size
  \/ c.op = "lseek" /\ res' = "FR_OK" /\ CanWrite(fil[c.o]) /\ open'[c.o].pos < c.to
FullDisk(d) == \A c \in Clusters : d[FatSector(0, c)][c] # 0
ShortOnlyWhenFull == [][Sound' /\ Short(call') => FullDisk(ShownDisk(vol'))]_vars

\* When the machine stops, a file that the program had open for writing is there with
\* the size that f_sync stored last, and with what it held then up to the first unit
\* overwritten since; it is shorter only when f_truncate or f_open cut it. And no two
\* entries share a cluster and none leads to a free one, unless a file had been cut since
\* it was stored (f_truncate frees clusters that the entry still leads to) or was being
\* moved (f_rename makes the new entry before the old one goes).
PathOf(o) == IF call'.op = "open" /\ call'.o = o THEN call'.path ELSE open[o].path
Survives(k, now, b) ==
  /\ k.safe <= Len(b) /\ SubSeq(b, 1, k.safe) = SubSeq(k.body, 1, k.safe)
  /\ Len(b) \in {Len(k.body)} \cup now \/ (k.cut /\ Len(b) < Len(k.body))
Storing(o) ==
  IF call'.op \in {"sync", "close"} /\ call'.o = o THEN {Len(tree[open[o].path].body)} ELSE {}
StopKeepsSynced ==
  [][res' = "stopped" /\ ~loose =>
       /\ \A o \in Objects : kept'[o].there =>
            /\ PathOf(o) \in DOMAIN tree'
            /\ Survives(kept'[o], Storing(o), tree'[PathOf(o)].body)
       /\ Uncrossed(vol'.disk) \/ call'.op = "rename" \/ \E o \in Objects : kept'[o].cut]_vars

\* The calls work as OpenFiles says: a file is a sequence of units, whatever buffer,
\* window, cluster or directory sector is in between, and when a call is stopped or
\* fails the files that are not open and not its own stay as they were.
Files == INSTANCE OpenFiles
ImplementsOpenFiles == Files!Spec

\* ff.h:123 calls dsect the "Current data sector of fpter". Then a call on an open file
\* changes no other file.
OthersKept ==
  [][~hurt' /\ OnFile(call') /\ call'.op # "open" =>
       \A p \in DOMAIN tree \ {open[call'.o].path} : p \in DOMAIN tree' /\ tree'[p] = tree[p]]_vars
=============================================================================
