------------------------------ MODULE FatCalls ------------------------------
(***************************************************************************)
(* The calls of the FatFs library, fatcli/src/ff.c, that fatcli itself     *)
(* does not make: f_lseek and f_truncate on an open file; f_rename,        *)
(* f_utime and f_stat of a path; f_getlabel and f_setlabel.                *)
(*                                                                         *)
(* f_lseek without a cluster link map (cltbl is null after f_open).        *)
(***************************************************************************)
EXTENDS FatFiles

CanWrite(fp) == "FA_WRITE" \in fp.flag
Aborted(fp) == "FA__ERROR" \in fp.flag

----------------------------------------------------------------------------
(* f_lseek.                                                                *)

\* A file that ends before the file pointer ends there.
Extended(r) ==
  CASE r.res # "FR_OK" -> AbortOn(r, 0)
    [] r.res = "FR_OK" /\ r.fp.fptr > r.fp.fsize ->
         [r EXCEPT !.fp.fsize = r.fp.fptr, !.fp.flag = @ \cup {"FA__WRITTEN"}]
    [] OTHER -> r

\* The buffer follows a file pointer that is not at the start of a sector.
Settled(v, fp, s) ==
  Extended(IF AtBoundary(fp) THEN File(Ok(v), fp, 0) ELSE Placed(LoadSector(v, fp, s), s))

\* The file pointer ofs units, no more than a cluster, on.
Land(v, fp, ofs, c) ==
  IF ofs % UnitsPerSector # 0 /\ c \notin Clusters
  THEN Abort(v, [fp EXCEPT !.fptr = @ + ofs], "FR_INT_ERR", 0)
  ELSE Settled(v, [fp EXCEPT !.fptr = @ + ofs], DataSector(c))

\* A loop over the clusters of a file: ofs units are left, from the start of cluster clst.
Moving(v, fp, ofs, c) ==
  [v |-> v, fp |-> fp, res |-> "more", did |-> 0, ofs |-> ofs, clst |-> c]
Moved(r) == [v |-> r.v, fp |-> r.fp, res |-> r.res, did |-> 0, ofs |-> 0, clst |-> 0]

\* g.val follows the cluster of the file pointer, which is a whole cluster on.
FollowOn(g, fp, ofs) ==
  CASE g.val = 0 /\ CanWrite(fp) ->
         Moved(Settled(g.v, [fp EXCEPT !.fptr = @ + UnitsPerSector], NoSector))
    [] g.val = Max32      -> Moved(Abort(g.v, fp, "FR_DISK_ERR", 0))
    [] g.val \in Clusters ->
         Moving(g.v, [fp EXCEPT !.clust = g.val, !.fptr = @ + UnitsPerSector],
                ofs - UnitsPerSector, g.val)
    [] OTHER -> Moved(Abort(g.v, fp, "FR_INT_ERR", 0))

MoveNext(v, fp, ofs, c) ==
  IF ofs <= UnitsPerSector THEN Moved(Land(v, fp, ofs, c))
  ELSE FollowOn(IF CanWrite(fp) THEN CreateChain(v, c) ELSE GetFat(v, c), fp, ofs)
MoveRound(l) == IF l.res = "more" THEN MoveNext(l.v, l.fp, l.ofs, l.clst) ELSE l

\* ofs units from the start of cluster c; a file that is written is stretched.
MoveOn(v, fp, ofs, c) == Returned(Iterate(MoveRound, Moving(v, fp, ofs, c), ofs))

\* g is what create_chain returned for a file without clusters.
MoveOnNew(g, fp, ofs) ==
  CASE g.val = 1     -> Abort(g.v, fp, "FR_INT_ERR", 0)
    [] g.val = Max32 -> Abort(g.v, fp, "FR_DISK_ERR", 0)
    [] g.val = 0     -> Settled(g.v, [fp EXCEPT !.clust = 0], NoSector)
    [] OTHER -> MoveOn(g.v, [fp EXCEPT !.sclust = g.val, !.clust = g.val], ofs, g.val)

\* Mutant of SeekFromStart: clust is not set back.
SeekFromStartForgets(v, fp, ofs) ==
  IF fp.sclust = 0 THEN MoveOnNew(CreateChain(v, 0), fp, ofs) ELSE MoveOn(v, fp, ofs, fp.sclust)

SeekFromStart(v, fp, ofs) ==
  IF fp.sclust = 0 THEN MoveOnNew(CreateChain(v, 0), fp, ofs)
  ELSE MoveOn(v, [fp EXCEPT !.clust = fp.sclust], ofs, fp.sclust)

ClusterOf(ofs) == (ofs - 1) \div UnitsPerSector

\* To the same or a following cluster from the current one.
Seek(v, fp, ofs) ==
  CASE ofs = 0 -> Settled(v, [fp EXCEPT !.fptr = 0], NoSector)
    [] ofs > 0 /\ fp.fptr > 0 /\ ClusterOf(ofs) >= ClusterOf(fp.fptr) ->
         MoveOn(v, [fp EXCEPT !.fptr = ClusterOf(@) * UnitsPerSector],
                ofs - ClusterOf(fp.fptr) * UnitsPerSector, fp.clust)
    [] OTHER -> SeekFromStart(v, [fp EXCEPT !.fptr = 0], ofs)

FLseek(v, fp, ofs) ==
  IF Aborted(fp) THEN File(Failed(v, "FR_INT_ERR"), fp, 0)
  ELSE Seek(v, fp, IF CanWrite(fp) THEN ofs ELSE Least(ofs, fp.fsize))

----------------------------------------------------------------------------
(* f_truncate.                                                             *)

Aborting(r) == IF r.res = "FR_OK" THEN r ELSE AbortOn(r, 0)

\* Mutant of CutAll: the chain stays.
CutAllKeeps(v, fp) == File(Ok(v), [fp EXCEPT !.sclust = 0], 0)

CutAll(v, fp) == Aborting(File(RemoveChain(v, fp.sclust), [fp EXCEPT !.sclust = 0], 0))

\* Mutant of CutTail: the rest of the chain stays linked.
CutTailKeeps(g, fp) == File(Ok(g.v), fp, 0)

\* g is the entry of the last cluster to keep.
CutTail(g, fp) ==
  CASE g.val = Max32 -> Abort(g.v, fp, "FR_DISK_ERR", 0)
    [] g.val = 1     -> Abort(g.v, fp, "FR_INT_ERR", 0)
    [] g.val \notin {1, Max32} /\ g.val < NFatEnt ->
         Aborting(File(Then(PutFat(g.v, fp.clust, LastLink), LAMBDA w : RemoveChain(w, g.val)),
                       fp, 0))
    [] OTHER -> File(Ok(g.v), fp, 0)

\* The buffer is left alone, also when its sector is cut off.
Cut(v, fp) == IF fp.fptr = 0 THEN CutAll(v, fp) ELSE CutTail(GetFat(v, fp.clust), fp)

FTruncate(v, fp) ==
  CASE Aborted(fp) -> File(Failed(v, "FR_INT_ERR"), fp, 0)
    [] ~Aborted(fp) /\ ~CanWrite(fp) -> File(Failed(v, "FR_DENIED"), fp, 0)
    [] ~Aborted(fp) /\ CanWrite(fp) /\ fp.fsize > fp.fptr ->
         Cut(v, [fp EXCEPT !.fsize = fp.fptr, !.flag = @ \cup {"FA__WRITTEN"}])
    [] OTHER -> File(Ok(v), fp, 0)

----------------------------------------------------------------------------
(* f_rename.                                                               *)

\* The ".." of directory c, if it is there.
PointDots(v, parent) ==
  IF AsTable(v.win)[2] \in {Sfn(DotDot, TRUE, FALSE, c, 0) : c \in 0..(NFatEnt - 1)}
  THEN [v EXCEPT !.win[2].clust = parent, !.dirty = TRUE] ELSE v
MoveDots(v, c, parent) ==
  IF c \notin Clusters THEN Failed(v, "FR_INT_ERR")
  ELSE Then(MoveWindow(v, DataSector(c)), LAMBDA w :
            Ok(PointDots(w, IF Fat32 /\ parent = 2 THEN 0 ELSE parent)))

\* The new entry with what the old one says, then the old one goes.
RenameTo(v, old, e, new) ==
  Then(ThenAt(DirRegister(v, new), LAMBDA w, n : Done(Store(w, n, [e EXCEPT !.sfn = n.fn]), n)),
       LAMBDA x :
  Then(IF e.isDir /\ old.sclust # new.sclust THEN MoveDots(x, e.clust, new.sclust) ELSE Ok(x),
       LAMBDA y :
  Then(DirRemove(y, old), LAMBDA z : SyncFs(z))))

\* r is what follow_path says of the new name.
RenameFound(r, old, e) ==
  CASE r.res = "FR_OK"      -> Failed(r.v, "FR_EXIST")
    [] r.res = "FR_NO_FILE" -> RenameTo(r.v, old, e, r.dj)
    [] OTHER                -> Failed(r.v, r.res)

FRename(v, path, to) ==
  ThenAt(FollowPath(v, path), LAMBDA w, d :
    IF d.root THEN Failed(w, "FR_NO_FILE")
    ELSE RenameFound(FollowPath(w, to), d, Entry(w, d)))

----------------------------------------------------------------------------
(* f_stat and f_utime. Times are left out; the entry is written anew.      *)

FileInfo(e) == [isDir |-> e.isDir, ro |-> e.ro, size |-> e.size]

FStat(v, path) ==
  ThenAt(FollowPath(v, path), LAMBDA w, d :
    IF d.root THEN Failed(w, "FR_INVALID_NAME")
    ELSE File(Ok(w), NoFile, FileInfo(Entry(w, d))))

FUtime(v, path) ==
  ThenAt(FollowPath(v, path), LAMBDA w, d :
    IF d.root THEN Failed(w, "FR_INVALID_NAME") ELSE SyncFs([w EXCEPT !.dirty = TRUE]))

----------------------------------------------------------------------------
(* f_getlabel, without the serial number, and f_setlabel.                  *)

FindLabel(v) == ThenAt(DirSdi(v, RootDir(FALSE), 0), LAMBDA w, d : ReadLabel(w, d))

LabelRead(r) ==
  CASE r.res = "FR_OK"      -> File(r, NoFile, Entry(r.v, r.dj).label)
    [] r.res = "FR_NO_FILE" -> File(Ok(r.v), NoFile, NoName)
    [] OTHER                -> r
FGetlabel(v) == LabelRead(FindLabel(v))

NewLabel(v, name) ==
  ThenAt(DirAlloc(v, RootDir(FALSE), 1), LAMBDA w, d : SyncFs(Store(w, d, Label(name))))

ChangeLabel(r, name) ==
  CASE r.res = "FR_OK" ->
         SyncFs(Store(r.v, r.dj, IF name = NoName THEN Deleted ELSE Label(name)))
    [] r.res = "FR_NO_FILE" -> IF name = NoName THEN Ok(r.v) ELSE NewLabel(r.v, name)
    [] OTHER -> r
FSetlabel(v, name) == ChangeLabel(FindLabel(v), name)
=============================================================================
