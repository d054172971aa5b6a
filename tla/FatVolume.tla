----------------------------- MODULE FatVolume -----------------------------
(***************************************************************************)
(* The lowest layer of the FatFs library, fatcli/src/ff.c: the one-sector  *)
(* window through which directory and FAT sectors reach the disk, and the  *)
(* functions that read, write, extend and free chains in the FAT.  The     *)
(* library is sequential; what can happen between two of its steps is that *)
(* a disk access fails or that the machine stops.  Each function is an     *)
(* operator from the state of a volume to a record with the state          *)
(* afterwards, the result code or value, and every disk access in the      *)
(* order the code makes it.                                                *)
(*                                                                         *)
(* A volume is a record: the disk by sectors; win, sect and dirty are      *)
(* win[], winsect and wflag; last, free and info are last_clust,           *)
(* free_clust and fsi_flag; and fault says what will go wrong.             *)
(***************************************************************************)
EXTENDS Integers, Sequences, FiniteSets

CONSTANTS
  NFatEnt,     \* n_fatent: clusters are 2..NFatEnt - 1
  PerSector,   \* FAT entries in a sector
  NFats,       \* n_fats, the number of copies of the FAT
  Fat32,       \* is there an FSInfo sector?
  NoSector     \* winsect = 0, which is no sector of the FAT or a directory

Clusters == 2..(NFatEnt - 1)

\* 0x0FFFFFFF, the end of a chain, and for 0xFFFFFFFF, a disk error or an unknown count,
\* the number behind it: in the code both are beyond every cluster.
LastLink == 268435455
Max32 == LastLink + 1

\* Sectors of the FAT area by copy, and the sector FSInfo.
FatSector(copy, c) == <<"fat", copy, c \div PerSector>>
EntriesOf(k) == {c \in 0..(NFatEnt - 1) : c \div PerSector = k}
FatSectors == {FatSector(f, c) : f \in 0..(NFats - 1), c \in 0..(NFatEnt - 1)}
FsInfo == <<"info">>

ASSUME GeometryAssumption ==
  NFatEnt \in 3..LastLink /\ PerSector \in Nat \ {0} /\ NFats \in {1, 2}
ASSUME Fat32Assumption == Fat32 \in BOOLEAN
ASSUME NoSectorAssumption == NoSector \notin FatSectors \cup {FsInfo}

\* What can go wrong with one disk access: after so many more accesses of its
\* kind, a read fails, a write fails, or the machine stops. What a function would
\* have done after that is not seen: the image is the disk as it was. Tracing keeps
\* all the images at which the machine could stop.
Fault(kind, left) == [kind |-> kind, left |-> left]
NoFault == Fault("none", 0)
Tracing == [kind |-> "trace", left |-> 0, images |-> {}]
StoppedWith(image) == [kind |-> "stopped", left |-> 0, image |-> image]
Stopped(v) == v.fault.kind = "stopped"
Image(v) == IF Stopped(v) THEN v.fault.image ELSE v.disk

----------------------------------------------------------------------------
(* What a function leaves: the volume with a result code, or with a value. *)

Ok(v) == [v |-> v, res |-> "FR_OK"]
Failed(v, res) == [v |-> v, res |-> res]
Value(v, val) == [v |-> v, val |-> val]

\* A loop of at most n rounds; once it is over a round changes nothing.
Iterate(Round(_), start, n) ==
  LET after[k \in 0..n] == IF k = 0 THEN start ELSE Round(after[k - 1]) IN after[n]

\* The rest of a function after a call that must succeed.
Then(r, Rest(_)) == IF r.res = "FR_OK" THEN Rest(r.v) ELSE r

----------------------------------------------------------------------------
(* disk_write and disk_read for one sector.                                *)

\* An access of this kind less until the fault.
Closer(v, kinds) == IF v.fault.kind \in kinds THEN [v EXCEPT !.fault.left = @ - 1] ELSE v

DiskWrite(v, s, content) ==
  CASE v.fault = Fault("write", 0) -> Failed([v EXCEPT !.fault = NoFault], "FR_DISK_ERR")
    [] v.fault = Fault("crash", 0) ->
         Ok([v EXCEPT !.fault = StoppedWith(v.disk), !.disk[s] = content])
    [] v.fault.kind = "trace" ->
         Ok([v EXCEPT !.fault.images = @ \cup {v.disk}, !.disk[s] = content])
    [] OTHER -> Ok(Closer([v EXCEPT !.disk[s] = content], {"write", "crash"}))

\* A read that fails has read nothing.
DiskRead(v, s) ==
  CASE v.fault = Fault("read", 0) -> Failed([v EXCEPT !.fault = NoFault], "FR_DISK_ERR")
    [] OTHER -> Ok(Closer([v EXCEPT !.win = v.disk[s]], {"read"}))

----------------------------------------------------------------------------
(* The window.                                                             *)

\* Errors of the copies of the FAT are ignored.
WriteCopy(v) ==
  IF v.sect \in FatSectors /\ NFats = 2
  THEN DiskWrite(v, <<"fat", 1, v.sect[3]>>, v.win).v ELSE v

\* Mutant of SyncWindow: the copies of the FAT are forgotten.
SyncWindowFirstCopy(v) ==
  IF ~v.dirty THEN Ok(v)
  ELSE Then(DiskWrite(v, v.sect, v.win), LAMBDA w : Ok([w EXCEPT !.dirty = FALSE]))

\* r is what writing the sector left.
WrittenOut(r) == IF r.res = "FR_OK" THEN Ok(WriteCopy([r.v EXCEPT !.dirty = FALSE])) ELSE r
SyncWindow(v) == IF ~v.dirty THEN Ok(v) ELSE WrittenOut(DiskWrite(v, v.sect, v.win))

\* r is what reading the sector left, and before it what writing the old one left.
ReadIn(r, s) == IF r.res = "FR_OK" THEN Ok([r.v EXCEPT !.sect = s]) ELSE r
ReadAfter(r, s) == IF r.res = "FR_OK" THEN ReadIn(DiskRead(r.v, s), s) ELSE r

\* Mutant of MoveWindow: the result of sync_window is not checked.
MoveWindowUnchecked(v, s) ==
  IF s = v.sect THEN Ok(v) ELSE ReadIn(DiskRead(SyncWindow(v).v, s), s)

MoveWindow(v, s) == IF s = v.sect THEN Ok(v) ELSE ReadAfter(SyncWindow(v), s)

InfoOf(v) == [free |-> v.free, last |-> v.last]

\* FSInfo is built in the window, which then holds no sector.
WriteInfo(v) ==
  [DiskWrite([v EXCEPT !.sect = NoSector, !.win = InfoOf(v)], FsInfo, InfoOf(v)).v
     EXCEPT !.info = FALSE]

SyncFs(v) ==
  Then(SyncWindow(v), LAMBDA w : Ok(IF Fat32 /\ w.info THEN WriteInfo(w) ELSE w))

\* chk_mounted on a volume that is not mounted: the window is invalid, and what
\* FSInfo says of free clusters is believed.
Mounted(disk) ==
  [disk |-> disk, win |-> NoSector, sect |-> NoSector, dirty |-> FALSE,
   last |-> IF Fat32 THEN disk[FsInfo].last ELSE 0,
   free |-> IF Fat32 THEN disk[FsInfo].free ELSE Max32,
   info |-> FALSE, fault |-> NoFault]

----------------------------------------------------------------------------
(* get_fat and put_fat.                                                    *)

EntryIn(w, c) == Value(w.v, IF w.res = "FR_OK" THEN w.v.win[c] ELSE Max32)

GetFat(v, c) ==
  IF c \in Clusters THEN EntryIn(MoveWindow(v, FatSector(0, c)), c) ELSE Value(v, 1)

\* wflag is set even when the sector could not be brought into the window.
Dirtied(r) == [r EXCEPT !.v.dirty = TRUE]

EntryTo(r, c, val) == IF r.res = "FR_OK" THEN Ok([r.v EXCEPT !.win[c] = val]) ELSE r
PutFat(v, c, val) ==
  IF c \in Clusters THEN Dirtied(EntryTo(MoveWindow(v, FatSector(0, c)), c, val))
  ELSE Failed(v, "FR_INT_ERR")

----------------------------------------------------------------------------
(* remove_chain.                                                           *)

CountFreed(v) ==
  IF v.free = Max32 THEN v ELSE [v EXCEPT !.free = @ + 1, !.info = TRUE]

\* The loop at cluster c, and behind its end.
Removing(v, c) == [v |-> v, res |-> "FR_OK", clst |-> c, on |-> c < NFatEnt]
RemoveEnds(v, res) == [v |-> v, res |-> res, clst |-> 0, on |-> FALSE]

\* p is what clearing the entry left, next what was in it.
Cleared(p, next) ==
  IF p.res = "FR_OK" THEN Removing(CountFreed(p.v), next) ELSE RemoveEnds(p.v, p.res)

\* g is the entry of c.
RemoveNext(g, c) ==
  CASE g.val = 0     -> RemoveEnds(g.v, "FR_OK")
    [] g.val = 1     -> RemoveEnds(g.v, "FR_INT_ERR")
    [] g.val = Max32 -> RemoveEnds(g.v, "FR_DISK_ERR")
    [] OTHER         -> Cleared(PutFat(g.v, c, 0), g.val)

RemoveRound(l) == IF l.on THEN RemoveNext(GetFat(l.v, l.clst), l.clst) ELSE l

\* Every round but the last clears an entry that was not 0.
RemoveFrom(v, c) ==
  LET end == Iterate(RemoveRound, Removing(v, c), NFatEnt) IN Failed(end.v, end.res)

RemoveChain(v, c) ==
  IF c \in Clusters THEN RemoveFrom(v, c) ELSE Failed(v, "FR_INT_ERR")

----------------------------------------------------------------------------
(* create_chain: the value is 0 when the disk is full, 1 or Max32 on an    *)
(* error, else the cluster.                                                *)

\* The search behind cluster n, and when it has a value.
Searching(v, n) == [v |-> v, n |-> n, val |-> 0, on |-> TRUE]
SearchEnds(v, val) == [v |-> v, n |-> 0, val |-> val, on |-> FALSE]

\* g is the entry of n.
FoundAt(g, scl, n) ==
  CASE g.val = 0            -> SearchEnds(g.v, n)
    [] g.val \in {1, Max32} -> SearchEnds(g.v, g.val)
    [] g.val \notin {0, 1, Max32} /\ n = scl -> SearchEnds(g.v, 0)
    [] OTHER                -> Searching(g.v, n)

\* Mutant of LookFrom: the search does not wrap round.
LookFromNoWrap(v, scl, c) ==
  IF c + 1 >= NFatEnt THEN SearchEnds(v, 0) ELSE FoundAt(GetFat(v, c + 1), scl, c + 1)

ClusterAfter(c) == IF c + 1 < NFatEnt THEN c + 1 ELSE 2
LookFrom(v, scl, c) ==
  IF c + 1 >= NFatEnt /\ scl < 2 THEN SearchEnds(v, 0)
  ELSE FoundAt(GetFat(v, ClusterAfter(c)), scl, ClusterAfter(c))

SearchRound(l, scl) == IF l.on THEN LookFrom(l.v, scl, l.n) ELSE l

\* The search from cluster scl round to itself.
FindFree(v, scl) ==
  LET end == Iterate(LAMBDA l : SearchRound(l, scl), Searching(v, scl), NFatEnt)
  IN  Value(end.v, end.val)

\* The count wraps like the unsigned number it is.
CountTaken(v, c) ==
  IF v.free = Max32 THEN [v EXCEPT !.last = c]
  ELSE [v EXCEPT !.last = c, !.info = TRUE, !.free = IF @ = 0 THEN Max32 ELSE @ - 1]

Taken(l, n) ==
  CASE l.res = "FR_OK"       -> Value(CountTaken(l.v, n), n)
    [] l.res = "FR_DISK_ERR" -> Value(l.v, Max32)
    [] OTHER                 -> Value(l.v, 1)

\* Mutant of TakeCluster: the new cluster is linked before it is marked.
TakeClusterLinksFirst(v, c, n) ==
  Taken(Then(IF c = 0 THEN Ok(v) ELSE PutFat(v, c, n), LAMBDA l : PutFat(l, n, LastLink)), n)

\* The new cluster is marked as the end before the old end is linked to it.
LinkTo(p, c, n) == IF p.res = "FR_OK" /\ c # 0 THEN PutFat(p.v, c, n) ELSE p
TakeCluster(v, c, n) == Taken(LinkTo(PutFat(v, n, LastLink), c, n), n)

TakeFound(f, c) == IF f.val \in Clusters THEN TakeCluster(f.v, c, f.val) ELSE f
Allocate(v, c, scl) == TakeFound(FindFree(v, scl), c)

Suggested(v) == IF v.last \in 1..(NFatEnt - 1) THEN v.last ELSE 1

\* Where the search is to start, or a value without one. g is the entry of c. It is not
\* compared with a disk error: Max32 counts as a last link.
StretchFrom(g, c) ==
  CASE g.val < 2        -> SearchEnds(g.v, 1)
    [] g.val \in Clusters -> SearchEnds(g.v, g.val)
    [] OTHER            -> Searching(g.v, c)
ChainStart(v, c) ==
  IF c = 0 THEN Searching(v, Suggested(v)) ELSE StretchFrom(GetFat(v, c), c)

AllocateFrom(l, c) == IF l.on THEN Allocate(l.v, c, l.n) ELSE Value(l.v, l.val)
CreateChain(v, c) == AllocateFrom(ChainStart(v, c), c)

----------------------------------------------------------------------------
(* f_getfree on FAT16 and FAT32: a count that is not plausible is made     *)
(* anew, sector by sector; what was counted before an error is kept too.   *)

FreeIn(content) == Cardinality({c \in DOMAIN content : content[c] = 0})
LastSector == (NFatEnt - 1) \div PerSector

Counting(v, n) == [v |-> v, n |-> n, on |-> TRUE]

CountIn(w, n) ==
  IF w.res = "FR_OK" THEN Counting(w.v, n + FreeIn(w.v.win)) ELSE [v |-> w.v, n |-> n, on |-> FALSE]

CountRound(l, k) == IF l.on THEN CountIn(MoveWindow(l.v, <<"fat", 0, k>>), l.n) ELSE l

\* Mutant of CountFree: the last sector is left out.
CountFreeButLast(v) ==
  LET after[k \in 0..LastSector] ==
        IF k = 0 THEN Counting(v, 0) ELSE CountRound(after[k - 1], k - 1)
      end == after[LastSector]
  IN  Value(end.v, end.n)

CountFree(v) ==
  LET after[k \in 0..(LastSector + 1)] ==
        IF k = 0 THEN Counting(v, 0) ELSE CountRound(after[k - 1], k - 1)
      end == after[LastSector + 1]
  IN  Value(end.v, end.n)

CountKept(r) == [r EXCEPT !.v.free = r.val, !.v.info = (@ \/ Fat32)]
GetFree(v) ==
  IF v.free <= NFatEnt - 2 THEN Value(v, v.free) ELSE CountKept(CountFree(v))

----------------------------------------------------------------------------
(* What the program sees of the FAT: the window in place of the sector it  *)
(* holds.                                                                  *)

Seen(v, s) == IF s = v.sect THEN v.win ELSE v.disk[s]
FatEntry(v, c) == Seen(v, FatSector(0, c))[c]
=============================================================================
