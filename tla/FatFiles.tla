------------------------------ MODULE FatFiles -----------------------------
(***************************************************************************)
(* The calls of the FatFs library, fatcli/src/ff.c, that its user makes    *)
(* with a path or a file object: f_open, f_read, f_write, f_sync, f_close, *)
(* f_opendir and f_readdir, f_unlink, f_mkdir, f_chmod.                    *)
(*                                                                         *)
(* A file object (FIL) is a record: flag, fptr, fsize, sclust, clust,      *)
(* dsect and buf as in ff.h, and dirSect and slot for dir_sect and dir_ptr.*)
(* Sizes count units, UnitsPerSector to a sector; a call of f_write stores *)
(* one value in all of its units.                                          *)
(***************************************************************************)
EXTENDS FatDirs

CONSTANTS
  UnitsPerSector,
  Data,           \* what a unit of a file can hold
  Leftover        \* what is in one that nobody has written
ASSUME UnitAssumption == UnitsPerSector \in Nat /\ UnitsPerSector > 1

\* A sector full of d, and what a table shows to one who takes it for a file's.
Full(d) == [i \in 0..(UnitsPerSector - 1) |-> d]
AsUnits(content) ==
  IF DOMAIN content = 0..(UnitsPerSector - 1) THEN content ELSE Full(Leftover)

\* f_open does not touch buf.
NoFile == [flag |-> {}, fptr |-> 0, fsize |-> 0, sclust |-> 0, clust |-> 0,
           dsect |-> NoSector, buf |-> Full(Leftover), dirSect |-> NoSector, slot |-> 1]

\* What a call on a file object leaves: the volume, the object, a result, and what
\* was read or how much was written.
File(r, fp, did) == [v |-> r.v, fp |-> fp, res |-> r.res, did |-> did]
ThenFile(r, Rest(_, _)) == IF r.res = "FR_OK" THEN Rest(r.v, r.fp) ELSE r

\* ABORT
Abort(v, fp, res, did) == File(Failed(v, res), [fp EXCEPT !.flag = @ \cup {"FA__ERROR"}], did)

----------------------------------------------------------------------------
(* f_open.                                                                 *)

Creates(mode) == mode \cap {"FA_CREATE_ALWAYS", "FA_OPEN_ALWAYS", "FA_CREATE_NEW"} # {}

\* The entry becomes that of an empty file, then the chain is removed; its hole is
\* used first.
RemoveOld(v, dj, cl) ==
  ThenAt(With(RemoveChain(v, cl), dj), LAMBDA w, d :
         With(MoveWindow([w EXCEPT !.last = cl - 1], dj.sect), d))

Emptied(v, dj, e) ==
  IF e.clust = 0 THEN Done(Store(v, dj, Sfn(e.sfn, FALSE, FALSE, 0, 0)), dj)
  ELSE RemoveOld(Store(v, dj, Sfn(e.sfn, FALSE, FALSE, 0, 0)), dj, e.clust)

OpenExisting(v, dj, e, mode) ==
  CASE Creates(mode) /\ (e.isDir \/ e.ro) -> Fails(v, dj, "FR_DENIED")
    [] Creates(mode) /\ ~(e.isDir \/ e.ro) ->
         IF "FA_CREATE_NEW" \in mode THEN Fails(v, dj, "FR_EXIST")
         ELSE IF "FA_CREATE_ALWAYS" \in mode THEN Emptied(v, dj, e) ELSE Done(v, dj)
    [] ~Creates(mode) /\ e.isDir -> Fails(v, dj, "FR_NO_FILE")
    [] OTHER -> IF "FA_WRITE" \in mode /\ e.ro THEN Fails(v, dj, "FR_DENIED") ELSE Done(v, dj)

\* The entry of a new file is written once more, like that of one to overwrite.
OpenNew(v, dj) ==
  ThenAt(DirRegister(v, dj), LAMBDA w, d : Emptied(w, d, Entry(w, d)))

Found(r, mode) ==
  CASE r.res = "FR_OK" ->
         IF r.dj.root THEN Fails(r.v, r.dj, "FR_INVALID_NAME")
         ELSE OpenExisting(r.v, r.dj, Entry(r.v, r.dj), mode)
    [] r.res = "FR_NO_FILE" /\ Creates(mode) -> OpenNew(r.v, r.dj)
    [] OTHER -> r

\* A new file counts as one to overwrite.
FlagOf(mode, isNew) ==
  mode \cup (IF "FA_CREATE_ALWAYS" \in mode \/ (Creates(mode) /\ isNew)
             THEN {"FA_CREATE_ALWAYS", "FA__WRITTEN"} ELSE {})

Opened(r, flag) ==
  IF r.res # "FR_OK" THEN File(r, NoFile, 0)
  ELSE File(r, [NoFile EXCEPT !.flag = flag,
                              !.dirSect = r.v.sect, !.slot = Slot(r.dj),
                              !.sclust = Entry(r.v, r.dj).clust,
                              !.fsize = Entry(r.v, r.dj).size], 0)

OpenFollowed(r, mode) == Opened(Found(r, mode), FlagOf(mode, r.res = "FR_NO_FILE"))
FOpen(v, path, mode) == OpenFollowed(FollowPath(v, path), mode)

----------------------------------------------------------------------------
(* The buffer of a file.                                                   *)

WriteBack(v, fp) ==
  IF "FA__DIRTY" \notin fp.flag THEN File(Ok(v), fp, 0)
  ELSE ThenFile(File(DiskWrite(v, fp.dsect, fp.buf), fp, 0), LAMBDA w, f :
                File(Ok(w), [f EXCEPT !.flag = @ \ {"FA__DIRTY"}], 0))

\* disk_read into the buffer, not into the window.
Fill(v, fp, s) ==
  LET r == DiskRead(v, s)
  IN  File([r EXCEPT !.v.win = v.win],
           IF r.res = "FR_OK" THEN [fp EXCEPT !.buf = AsUnits(r.v.win)] ELSE fp, 0)

AbortOn(r, did) == Abort(r.v, r.fp, r.res, did)
AtBoundary(fp) == fp.fptr % UnitsPerSector = 0
Least(a, b) == IF a < b THEN a ELSE b
InSector(fp, left) == Least(UnitsPerSector - (fp.fptr % UnitsPerSector), left)

----------------------------------------------------------------------------
(* f_read: did is the units that were read.                                *)

\* A loop over the sectors of a file: what is left to do, in units, and what has been done.
Left(r, did, left) ==
  [v |-> r.v, fp |-> r.fp, res |-> IF left = 0 THEN r.res ELSE "more", did |-> did, left |-> left]
Over(r) == [v |-> r.v, fp |-> r.fp, res |-> r.res, did |-> r.did, left |-> 0]
Returned(l) == File(l, l.fp, l.did)

\* n units of a sector, from the file pointer on.
UnitsAt(content, from, n) == [i \in 1..n |-> content[from + i - 1]]
ReadUnits(v, fp, n, content, left, got) ==
  Left(File(Ok(v), [fp EXCEPT !.fptr = @ + n], 0),
       got \o UnitsAt(content, fp.fptr % UnitsPerSector, n), left - n)

ReadBuffered(r, left, got) ==
  IF r.res = "FR_OK" THEN ReadUnits(r.v, r.fp, InSector(r.fp, left), r.fp.buf, left, got)
  ELSE Over(AbortOn(r, got))

\* A whole sector goes to the caller, unless the buffer has a newer one.
ReadWhole(r, s, fp, left, got) ==
  IF r.res # "FR_OK" THEN Over(AbortOn([r EXCEPT !.fp = fp], got))
  ELSE ReadUnits(r.v, fp, UnitsPerSector,
                 IF "FA__DIRTY" \in fp.flag /\ fp.dsect = s THEN fp.buf ELSE r.fp.buf, left, got)

\* Mutant of LoadSector: what is in the buffer is not written first.
LoadSectorDrops(v, fp, s) == IF fp.dsect = s THEN File(Ok(v), fp, 0) ELSE Fill(v, fp, s)

LoadSector(v, fp, s) ==
  IF fp.dsect = s THEN File(Ok(v), fp, 0)
  ELSE ThenFile(WriteBack(v, fp), LAMBDA w, f : Fill(w, f, s))
Placed(r, s) == IF r.res = "FR_OK" THEN [r EXCEPT !.fp.dsect = s] ELSE r

\* The cluster of the file pointer is g.val.
ReadCluster(g, fp, left, got) ==
  CASE g.val < 2           -> Over(Abort(g.v, fp, "FR_INT_ERR", got))
    [] g.val = Max32       -> Over(Abort(g.v, fp, "FR_DISK_ERR", got))
    [] g.val \in Clusters  ->
         IF left >= UnitsPerSector
         THEN ReadWhole(Fill(g.v, fp, DataSector(g.val)), DataSector(g.val),
                        [fp EXCEPT !.clust = g.val], left, got)
         ELSE ReadBuffered(Placed(LoadSector(g.v, [fp EXCEPT !.clust = g.val], DataSector(g.val)),
                                  DataSector(g.val)), left, got)
    [] OTHER -> Over(Abort(g.v, [fp EXCEPT !.clust = g.val], "FR_INT_ERR", got))

ReadNext(v, fp, left, got) ==
  IF AtBoundary(fp)
  THEN ReadCluster(IF fp.fptr = 0 THEN Value(v, fp.sclust) ELSE GetFat(v, fp.clust), fp, left, got)
  ELSE ReadBuffered(File(Ok(v), fp, 0), left, got)
ReadRound(l) == IF l.res = "more" THEN ReadNext(l.v, l.fp, l.left, l.did) ELSE l

\* Every round reads a unit or more.
ReadData(v, fp, btr) == Returned(Iterate(ReadRound, Left(File(Ok(v), fp, 0), <<>>, btr), btr))

FRead(v, fp, btr) ==
  CASE "FA__ERROR" \in fp.flag -> File(Failed(v, "FR_INT_ERR"), fp, <<>>)
    [] "FA__ERROR" \notin fp.flag /\ "FA_READ" \notin fp.flag ->
         File(Failed(v, "FR_DENIED"), fp, <<>>)
    [] OTHER -> ReadData(v, fp, Least(btr, fp.fsize - fp.fptr))

----------------------------------------------------------------------------
(* f_write of units that hold d: did is how many were written.             *)

Written(r) ==
  IF r.res = "FR_OK"
  THEN [r EXCEPT !.fp.fsize = IF r.fp.fptr > @ THEN r.fp.fptr ELSE @,
                 !.fp.flag = @ \cup {"FA__WRITTEN"}]
  ELSE r

WriteUnits(v, fp, n, btw, bw) ==
  Left(File(Ok(v), [fp EXCEPT !.fptr = @ + n], 0), bw + n, btw - n)

\* The buffer with d in n units from the file pointer on.
Overlaid(fp, n, d) ==
  [i \in DOMAIN fp.buf |-> IF i - (fp.fptr % UnitsPerSector) \in 0..(n - 1) THEN d ELSE fp.buf[i]]

WriteBuffered(r, d, btw, bw) ==
  IF r.res # "FR_OK" THEN Over(AbortOn(r, bw))
  ELSE WriteUnits(r.v, [r.fp EXCEPT !.buf = Overlaid(r.fp, InSector(r.fp, btw), d),
                                    !.flag = @ \cup {"FA__DIRTY"}],
                  InSector(r.fp, btw), btw, bw)

\* A whole sector goes to the disk past the buffer, which follows if it is the same.
WriteWhole(r, s, d, btw, bw) ==
  IF r.res # "FR_OK" THEN Over(AbortOn(r, bw))
  ELSE WriteUnits(r.v, IF r.fp.dsect = s
                       THEN [r.fp EXCEPT !.buf = Full(d), !.flag = @ \ {"FA__DIRTY"}] ELSE r.fp,
                  UnitsPerSector, btw, bw)

\* The growing edge of a file is not read.
EdgeSector(v, fp, s) ==
  IF fp.dsect # s /\ fp.fptr < fp.fsize THEN Fill(v, fp, s) ELSE File(Ok(v), fp, 0)

WriteSector(r, s, d, btw, bw) ==
  CASE r.res # "FR_OK" -> Over(AbortOn(r, bw))
    [] r.res = "FR_OK" /\ btw >= UnitsPerSector ->
         WriteWhole(File(DiskWrite(r.v, s, Full(d)), r.fp, 0), s, d, btw, bw)
    [] OTHER -> WriteBuffered(Placed(EdgeSector(r.v, r.fp, s), s), d, btw, bw)

\* The cluster of the file pointer is g.val; 0 if the disk is full.
WriteCluster(g, fp, d, btw, bw) ==
  CASE g.val = 0     -> Over(File(Ok(g.v), fp, bw))
    [] g.val = 1     -> Over(Abort(g.v, fp, "FR_INT_ERR", bw))
    [] g.val = Max32 -> Over(Abort(g.v, fp, "FR_DISK_ERR", bw))
    [] g.val \in Clusters ->
         WriteSector(WriteBack(g.v, [fp EXCEPT !.clust = g.val]), DataSector(g.val), d, btw, bw)
    [] OTHER -> Over(Abort(g.v, [fp EXCEPT !.clust = g.val], "FR_INT_ERR", bw))

\* Whatever create_chain returns becomes the start of the file.
FirstCluster(g, fp, d, btw, bw) == WriteCluster(g, [fp EXCEPT !.sclust = g.val], d, btw, bw)

WriteNext(v, fp, d, btw, bw) ==
  CASE AtBoundary(fp) /\ fp.fptr = 0 ->
         IF fp.sclust = 0 THEN FirstCluster(CreateChain(v, 0), fp, d, btw, bw)
         ELSE WriteCluster(Value(v, fp.sclust), fp, d, btw, bw)
    [] AtBoundary(fp) /\ fp.fptr # 0 -> WriteCluster(CreateChain(v, fp.clust), fp, d, btw, bw)
    [] OTHER -> WriteBuffered(File(Ok(v), fp, 0), d, btw, bw)
WriteRound(l, d) == IF l.res = "more" THEN WriteNext(l.v, l.fp, d, l.left, l.did) ELSE l

\* Every round writes a unit or more.
WriteData(v, fp, d, btw) ==
  Written(Returned(Iterate(LAMBDA l : WriteRound(l, d), Left(File(Ok(v), fp, 0), 0, btw), btw)))

FWrite(v, fp, d, btw) ==
  CASE "FA__ERROR" \in fp.flag -> File(Failed(v, "FR_INT_ERR"), fp, 0)
    [] "FA__ERROR" \notin fp.flag /\ "FA_WRITE" \notin fp.flag ->
         File(Failed(v, "FR_DENIED"), fp, 0)
    [] OTHER -> WriteData(v, fp, d, btw)

----------------------------------------------------------------------------
(* f_sync and f_close.                                                     *)

Updated(v, fp) ==
  [v EXCEPT !.win[fp.slot].size = fp.fsize, !.win[fp.slot].clust = fp.sclust, !.dirty = TRUE]

\* Mutant of SyncEntry: the buffer is not written.
SyncEntryOnly(v, fp) ==
  ThenFile(File(MoveWindow(v, fp.dirSect), fp, 0), LAMBDA w, f :
           File(SyncFs(Updated(w, f)), [f EXCEPT !.flag = @ \ {"FA__WRITTEN"}], 0))

\* Mutant of SyncEntry: the entry stays in the window.
SyncEntryInWindow(v, fp) ==
  ThenFile(WriteBack(v, fp), LAMBDA w, f :
  ThenFile(File(MoveWindow(w, f.dirSect), f, 0), LAMBDA x, h :
           File(Ok(Updated(x, h)), [h EXCEPT !.flag = @ \ {"FA__WRITTEN"}], 0)))

SyncEntry(v, fp) ==
  ThenFile(WriteBack(v, fp), LAMBDA w, f :
  ThenFile(File(MoveWindow(w, f.dirSect), f, 0), LAMBDA x, h :
           File(SyncFs(Updated(x, h)), [h EXCEPT !.flag = @ \ {"FA__WRITTEN"}], 0)))

FSync(v, fp) ==
  IF "FA__WRITTEN" \in fp.flag THEN SyncEntry(v, fp) ELSE File(Ok(v), fp, 0)

FClose(v, fp) == FSync(v, fp)

----------------------------------------------------------------------------
(* f_unlink, f_mkdir and f_chmod.                                          *)

\* A directory is empty when there is nothing to read after the dot entries.
SubDirFree(r) ==
  CASE r.res = "FR_OK"      -> Failed(r.v, "FR_DENIED")
    [] r.res = "FR_NO_FILE" -> Ok(r.v)
    [] OTHER                -> Failed(r.v, r.res)
EmptyDir(v, c) ==
  SubDirFree(ThenAt(DirSdi(v, [RootDir(FALSE) EXCEPT !.sclust = c], 2),
                    LAMBDA w, d : DirRead(w, d)))

\* Mutant of Removable: a directory need not be empty.
RemovableAny(v, e) ==
  CASE e.ro -> Failed(v, "FR_DENIED")
    [] ~e.ro /\ e.isDir -> IF e.clust < 2 THEN Failed(v, "FR_INT_ERR") ELSE Ok(v)
    [] OTHER -> Ok(v)

Removable(v, e) ==
  CASE e.ro -> Failed(v, "FR_DENIED")
    [] ~e.ro /\ e.isDir -> IF e.clust < 2 THEN Failed(v, "FR_INT_ERR") ELSE EmptyDir(v, e.clust)
    [] OTHER -> Ok(v)

\* Mutant of Unlinked: the chain is removed before the entry.
UnlinkedChainFirst(v, dj, c) ==
  Then(IF c = 0 THEN Ok(v) ELSE RemoveChain(v, c), LAMBDA w :
  Then(DirRemove(w, dj), LAMBDA x : SyncFs(x)))

Unlinked(v, dj, c) ==
  Then(DirRemove(v, dj), LAMBDA w :
  Then(IF c = 0 THEN Ok(w) ELSE RemoveChain(w, c), LAMBDA x : SyncFs(x)))

UnlinkAt(v, dj, e) == Then(Removable(v, e), LAMBDA w : Unlinked(w, dj, e.clust))
FUnlink(v, path) == ThenAt(FollowPath(v, path), LAMBDA w, d : UnlinkAt(w, d, Entry(w, d)))

NewTable(c, parent) ==
  Table(LAMBDA i : CASE i = 1 -> Sfn(Dot, TRUE, FALSE, c, 0)
                     [] i = 2 -> Sfn(DotDot, TRUE, FALSE, parent, 0)
                     [] OTHER -> EndOfTable)

\* The FAT is flushed, then the new table goes to the disk through the window,
\* which keeps the sector but is cleared.
WriteTable(v, c, parent) ==
  Then(SyncWindow(v), LAMBDA w :
  Then(SyncWindow([w EXCEPT !.win = NewTable(c, parent), !.sect = DataSector(c), !.dirty = TRUE]),
       LAMBDA x : Ok([x EXCEPT !.win = EmptyTable])))

RegisterDir(v, dj, c) ==
  ThenAt(DirRegister(v, dj), LAMBDA w, d :
    Done(Store(w, d, Sfn(d.fn, TRUE, FALSE, c, 0)), d))

\* A directory that could not be made gives its cluster back; nobody hears if not.
Made(r, c) == IF r.res = "FR_OK" THEN SyncFs(r.v) ELSE Failed(RemoveChain(r.v, c).v, r.res)

\* Mutant of MakeDir: the entry is made before the table.
MakeDirEntryFirst(r, dj) ==
  CASE r.val = 0     -> Failed(r.v, "FR_DENIED")
    [] r.val = 1     -> Failed(r.v, "FR_INT_ERR")
    [] r.val = Max32 -> Failed(r.v, "FR_DISK_ERR")
    [] OTHER -> Then(Made(RegisterDir(r.v, dj, r.val), r.val),
                     LAMBDA w : WriteTable(w, r.val, dj.sclust))

\* r is what create_chain returned.
MakeDir(r, dj) ==
  CASE r.val = 0     -> Failed(RemoveChain(r.v, 0).v, "FR_DENIED")
    [] r.val = 1     -> Failed(RemoveChain(r.v, 1).v, "FR_INT_ERR")
    [] r.val = Max32 -> Failed(RemoveChain(r.v, Max32).v, "FR_DISK_ERR")
    [] OTHER ->
         Made(ThenAt(With(WriteTable(r.v, r.val, dj.sclust), dj),
                     LAMBDA w, d : RegisterDir(w, d, r.val)), r.val)

MkdirFollowed(r) ==
  CASE r.res = "FR_OK"      -> Failed(r.v, "FR_EXIST")
    [] r.res = "FR_NO_FILE" -> MakeDir(CreateChain(r.v, 0), r.dj)
    [] OTHER                -> Failed(r.v, r.res)
FMkdir(v, path) == MkdirFollowed(FollowPath(v, path))

\* f_chmod(path, 0, AM_RDO): fatcli changes no other attribute.
FChmod(v, path) ==
  ThenAt(FollowPath(v, path), LAMBDA w, d :
    SyncFs(Store(w, d, [Entry(w, d) EXCEPT !.ro = FALSE])))

----------------------------------------------------------------------------
(* f_opendir, and f_readdir to the end: did is the names.                  *)

DirOf(v, dj) ==
  CASE dj.root -> DirSdi(v, dj, 0)
    [] ~dj.root /\ Entry(v, dj).isDir -> DirSdi(v, [dj EXCEPT !.sclust = Entry(v, dj).clust], 0)
    [] OTHER -> Fails(v, dj, "FR_NO_PATH")
NotFound(r) == IF r.res = "FR_NO_FILE" THEN [r EXCEPT !.res = "FR_NO_PATH"] ELSE r
FOpendir(v, path) == NotFound(ThenAt(FollowPath(v, path), LAMBDA w, d : DirOf(w, d)))

\* get_fileinfo: the name main.c prints is the long one, if there is one.
Shown(v, dj) == IF dj.lfnIdx = NoLfn THEN Entry(v, dj).sfn ELSE dj.lfn

Listing(r, res, names) == [v |-> r.v, dj |-> r.dj, res |-> res, did |-> names]
\* n is what dir_next did behind an object of this name.
ListNext(n, names, name) ==
  CASE n.res = "FR_OK"      -> Listing(n, "more", Append(names, name))
    [] n.res = "FR_NO_FILE" -> Listing(n, "FR_OK", Append(names, name))
    [] OTHER                -> Listing(n, n.res, names)
Listed(r, names) ==
  CASE r.res = "FR_OK"      -> ListNext(DirNext(r.v, r.dj, FALSE), names, Shown(r.v, r.dj))
    [] r.res = "FR_NO_FILE" -> Listing(r, "FR_OK", names)
    [] OTHER                -> Listing(r, r.res, names)
ListRound(l) == IF l.res = "more" THEN Listed(DirRead(l.v, l.dj), l.did) ELSE l
List(v, dj) ==
  LET end == Iterate(ListRound, Listing(Done(v, dj), "more", <<>>), MaxRounds)
  IN  File(end, NoFile, end.did)
=============================================================================
