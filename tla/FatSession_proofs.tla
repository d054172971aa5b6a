------------------------- MODULE FatSession_proofs --------------------------
(***************************************************************************)
(* While no call of a session was stopped, met a disk error or left a      *)
(* buffer behind, the volume and the open files are of one picture: every  *)
(* cluster in a chain, every chain with one owner, and as long as its size *)
(* needs. This holds for volumes, files, names and calls of any number.    *)
(***************************************************************************)
EXTENDS FatSession, FatFs_proofs

----------------------------------------------------------------------------
(* f_sync and f_close.                                                     *)

\* An open file: its place is that of a file, and what the entry says is right unless
\* there is something to write into it.
ObjectFits(a, fp) ==
  /\ Place(fp) \in Living(a) /\ ~Row(a.rows, Place(fp)).isDir
  /\ FileFits(fp, a.owns[Place(fp)])
  /\ "FA__WRITTEN" \notin fp.flag =>
       /\ Row(a.rows, Place(fp)).clust = HeadOf(a.owns[Place(fp)])
       /\ Row(a.rows, Place(fp)).size = fp.fsize

\* f_sync puts cluster and size of the file into its entry.
LEMMA EntryUpdated ==
  ASSUME NEW v, HasFields(v), NEW fp, NEW D, DOMAIN v.win = D, fp.slot \in D, NEW w, w = Updated(v, fp),
         NEW d, d = Rewritten(v.win[fp.slot], fp.sclust, fp.fsize)
  PROVE  Overwritten(v, [v.win EXCEPT ![fp.slot] = d], w)
<1> DEFINE s == fp.slot
           x == v.win
           y == [[x EXCEPT ![s].size = fp.fsize] EXCEPT ![s].clust = fp.sclust]
<1>1. y = [x EXCEPT ![s] = d]
  <2> DEFINE z == [x EXCEPT ![s].size = fp.fsize]
             c == fp.sclust
             n == fp.fsize
             g == [x[s] EXCEPT !.size = n]
             h == [x EXCEPT ![s] = g]
  <2>1. z = h  OBVIOUS
  <2>2. DOMAIN h = DOMAIN x /\ h[s] = g  OBVIOUS
  <2>3. [h EXCEPT ![s].clust = c] = [h EXCEPT ![s] = [h[s] EXCEPT !.clust = c]]  OBVIOUS
  <2>4. d = [g EXCEPT !.clust = c]  BY DEF Rewritten
  <2>5. y = [h EXCEPT ![s] = d]  BY <2>1, <2>2, <2>3, <2>4
  <2> HIDE DEF g, x, s
  <2>6. [h EXCEPT ![s] = d] = [x EXCEPT ![s] = d]  OBVIOUS
  <2> QED  BY <2>5, <2>6
<1>2. w.win = y /\ w.dirty = TRUE /\ w.disk = v.disk /\ w.sect = v.sect /\ w.fault = v.fault /\ HasFields(w)
  <2> DEFINE t == TRUE
             u == [v EXCEPT !.win = y]
  <2>1. w = [u EXCEPT !.dirty = t]
    <3>1. w = [v EXCEPT !.win = y, !.dirty = TRUE]  BY DEF Updated
    <3> HIDE DEF y
    <3>2. [v EXCEPT !.win = y, !.dirty = t] = [[v EXCEPT !.win = y] EXCEPT !.dirty = t]  OBVIOUS
    <3> QED  BY <3>1, <3>2
  <2> HIDE DEF y
  <2>2. u = [disk |-> v.disk, win |-> y, sect |-> v.sect, dirty |-> v.dirty,
             last |-> v.last, free |-> v.free, info |-> v.info, fault |-> v.fault]
    <3> DEFINE r == [disk |-> v.disk, win |-> v.win, sect |-> v.sect, dirty |-> v.dirty,
             last |-> v.last, free |-> v.free, info |-> v.info, fault |-> v.fault]
    <3>1. v = r  BY DEF HasFields
    <3>2. [r EXCEPT !.win = y] = [disk |-> v.disk, win |-> y, sect |-> v.sect, dirty |-> v.dirty,
             last |-> v.last, free |-> v.free, info |-> v.info, fault |-> v.fault]  OBVIOUS
    <3> HIDE DEF r
    <3> QED  BY <3>1, <3>2
  <2>3. HasFields(u) /\ u.win = y /\ u.disk = v.disk /\ u.sect = v.sect /\ u.fault = v.fault
    BY <2>2 DEF HasFields
  <2> HIDE DEF t, u
  <2>4. HasFields(w) /\ w.disk = u.disk /\ w.win = u.win /\ w.sect = u.sect /\ w.dirty = t /\ w.fault = u.fault
    BY <2>1, <2>3, Assigned
  <2> QED  BY <2>3, <2>4 DEF t
<1> QED  BY <1>1, <1>2 DEF Overwritten

\* What f_sync leaves: the entry has what the object says.
Synced(a, E, H, p, v, f) ==
  \E b : /\ Drawn(v, b) /\ Picture(b, E, H) /\ OnlyAt(a, p, b) /\ ObjectFits(b, f) /\ b.owns[p] = a.owns[p]
         /\ Place(f) = p /\ "FA__WRITTEN" \notin f.flag

\* Without anything to write there is nothing to do.
LEMMA SyncedAlready ==
  ASSUME NEW v, NEW a, Drawn(v, a), NEW E, NEW H, Picture(a, E, H), NEW fp, ObjectFits(a, fp), "FA__WRITTEN" \notin fp.flag,
         Regular(a)
  PROVE  Synced(a, E, H, Place(fp), v, fp)
BY DEF Synced, OnlyAt

\* The object of a file after its entry has been written.
LEMMA FitsSynced ==
  ASSUME NEW fp, NEW e, FileFits(fp, e), NEW f, SameButDirty(fp, f), "FA__DIRTY" \notin f.flag,
         NEW h, h = [f EXCEPT !.flag = f.flag \ {"FA__WRITTEN"}]
  PROVE  /\ FileFits(h, e) /\ Place(h) = Place(fp) /\ "FA__WRITTEN" \notin h.flag /\ h.fsize = fp.fsize
         /\ f.fsize = fp.fsize /\ f.sclust = HeadOf(e) /\ f.dirSect = fp.dirSect /\ f.slot = fp.slot
<1> DEFINE z == f.flag \ {"FA__WRITTEN"}
<1>1. FpFields(f) /\ h = [f EXCEPT !.flag = z]  BY DEF SameButDirty
<1>2. "FA__DIRTY" \notin z /\ "FA__WRITTEN" \notin z /\ ("FA__ERROR" \in z => "FA__ERROR" \in fp.flag)
  BY DEF SameButDirty
<1> HIDE DEF z
<1>3. FpFields(h) /\ h =
        [flag |-> z, fptr |-> f.fptr, fsize |-> f.fsize, sclust |-> f.sclust, clust |-> f.clust,
         dsect |-> f.dsect, buf |-> f.buf, dirSect |-> f.dirSect, slot |-> f.slot]
  BY <1>1, FpSet
<1>4. h.flag = z /\ h.fptr = fp.fptr /\ h.fsize = fp.fsize /\ h.sclust = fp.sclust /\ h.clust = fp.clust
      /\ h.dsect = fp.dsect /\ h.dirSect = fp.dirSect /\ h.slot = fp.slot
      /\ f.fsize = fp.fsize /\ f.sclust = fp.sclust /\ f.dirSect = fp.dirSect /\ f.slot = fp.slot
  BY <1>3 DEF SameButDirty
<1>5. FileOf(h, e)  BY <1>2, <1>3, <1>4 DEF FileOf, FileFits, Buffered
<1>6. PosOf(h, e)  BY <1>4 DEF PosOf, FileFits
<1>7. h.fptr <= h.fsize /\ Len(e) = SectorsFor(h.fsize) /\ fp.sclust = HeadOf(e)
  BY <1>4 DEF FileFits, FileOf
<1> QED  BY <1>2, <1>4, <1>5, <1>6, <1>7 DEF FileFits, Place

\* f_sync leaves an entry whose chain fits its size.
LEMMA EntrySynced ==
  ASSUME NEW v, NEW a, Drawn(v, a), NEW E, NEW H, Picture(a, E, H), NEW fp, ObjectFits(a, fp), Place(fp) \in H \ E,
         NEW r, r = SyncEntry(v, fp)
  PROVE  Goes(r) /\ Synced(a, E, H, Place(fp), r.v, r.fp)
<1> DEFINE p == Place(fp)
           e == a.owns[p]
           T == Tables(a)
           F == a.fat
           X == a.rows
           c == WriteBack(v, fp)
           f == c.fp
           m == MoveWindow(c.v, f.dirSect)
           u == Updated(m.v, f)
           y == SyncFs(u)
           h == [f EXCEPT !.flag = f.flag \ {"FA__WRITTEN"}]
           n == Row(X, p)
           d == Resized(n, f.sclust, f.fsize)
           b == WithRow(a, p, d, e)
<1>1. Shows(v, T, F, X) /\ FileFits(fp, e) /\ p \in Living(a) \ E /\ ~n.isDir /\ FpFields(fp)
  BY DEF Drawn, ObjectFits, FileFits, FileOf
<1>2. p \in T \X (1..PerTable) /\ IsEntry(n) /\ IsObject(n) /\ Owner(a.chains, a.dirs, n, e, p \in H)
      /\ p[1] = fp.dirSect /\ p[2] = fp.slot /\ p[1] \in T /\ p[2] \in 1..PerTable
  <2>1. p \in T \X (1..PerTable) /\ IsObject(n)  BY <1>1, PlacesKnown
  <2>2. IsEntry(n) /\ Owner(a.chains, a.dirs, n, e, p \in H) /\ p[1] \in T /\ p[2] \in 1..PerTable
    BY <1>1, <2>1, EntriesKnown
  <2> QED  BY <2>1, <2>2 DEF Place
<1>3. e \in (a.chains \ a.dirs) \cup {<<>>} /\ Off(T, F, e) /\ Chained(F, e)
  <2>1. e \in (a.chains \ a.dirs) \cup {<<>>}  BY <1>1, <1>2 DEF Owner
  <2>2. Family(a.fat, a.chains) /\ a.dirs \subseteq a.chains  BY DEF Picture
  <2> HIDE DEF e
  <2> QED  BY <2>1, <2>2, OwnedOff DEF Tables
<1>4. c = WriteBack(v, fp) /\ f = c.fp /\ m = MoveWindow(c.v, f.dirSect) /\ u = Updated(m.v, f) /\ y = SyncFs(u)
      /\ h = [f EXCEPT !.flag = f.flag \ {"FA__WRITTEN"}]
  OBVIOUS
<1> HIDE DEF c
<1>5. FileStep(c) /\ Shows(c.v, T, F, X) /\ SameButDirty(fp, f) /\ "FA__DIRTY" \notin f.flag
  <2>1. "FA__DIRTY" \in fp.flag => fp.dsect \in DataSectors /\ fp.dsect \notin T
    BY <1>1, <1>3, FileSectors DEF FileFits, FileOf, Buffered
  <2> HIDE DEF T, F, X
  <2> QED  BY <1>1, <1>4, <2>1, BufferWritten
<1> HIDE DEF f, m, u, y, h
<1>6. /\ FileFits(h, e) /\ Place(h) = p /\ "FA__WRITTEN" \notin h.flag /\ h.fsize = fp.fsize
      /\ f.fsize = fp.fsize /\ f.sclust = HeadOf(e) /\ f.dirSect = fp.dirSect /\ f.slot = fp.slot
  <2> HIDE DEF e
  <2> QED  BY <1>1, <1>4, <1>5, FitsSynced
<1>7. Goes(m) /\ Shows(m.v, T, F, X) /\ m.v.sect = p[1] /\ HasFields(m.v) /\ m.v.win = X[p[1]]
  <2>1. f.dirSect \in FirstCopy \cup T /\ f.dirSect = p[1]  BY <1>2, <1>6
  <2> HIDE DEF T, F, X
  <2>2. Goes(m) /\ Shows(m.v, T, F, X) /\ m.v.sect = f.dirSect  BY <1>4, <1>5, <2>1, WindowAt
  <2>3. Drawn(m.v, a)  BY <2>2 DEF Drawn, T, F, X
  <2>5. p[1] \in T /\ m.v.sect = p[1]  BY <1>2, <2>1, <2>2
  <2> HIDE DEF p
  <2>6. m.v.sect \in Tables(a)  BY <2>5 DEF T
  <2>7. m.v.win = a.rows[m.v.sect] /\ HasFields(m.v)  BY <2>3, <2>6, RowSeen
  <2>4. m.v.win = X[p[1]] /\ HasFields(m.v)  BY <2>5, <2>7 DEF X
  <2> QED  BY <2>1, <2>2, <2>4
<1>8. f.sclust \in 0..(NFatEnt - 1) /\ f.fsize \in Nat
  <2>1. Len(e) \in Nat /\ (Len(e) > 0 => HeadOf(e) \in Clusters) /\ (Len(e) = 0 => HeadOf(e) = 0)
    <3> HIDE DEF e
    <3> QED  BY <1>3, ChainKind
  <2>2. HeadOf(e) \in 0..(NFatEnt - 1)  BY <2>1, Numbers DEF Clusters
  <2> QED  BY <1>1, <1>6, <2>2 DEF FileFits, FileOf
<1>9. /\ IsEntry(d) /\ d.isDir = n.isDir /\ d.clust = f.sclust /\ d.size = f.fsize /\ IsObject(d)
      /\ Rewritten(n, f.sclust, f.fsize) = d
  <2>1. "sfn" \in DOMAIN n  BY <1>2 DEF IsObject
  <2> DEFINE k == f.sclust
             z == f.fsize
  <2>2. d = Resized(n, k, z) /\ k \in 0..(NFatEnt - 1) /\ z \in Nat /\ IsEntry(n) /\ IsObject(n)
    BY <1>2, <1>8
  <2> HIDE DEF d, n, k, z
  <2>3. /\ IsEntry(d) /\ d.isDir = n.isDir /\ d.clust = k /\ d.size = z /\ IsObject(d)
        /\ Rewritten(n, k, z) = d
    BY <2>1, <2>2, ResizedEntry
  <2> QED  BY <2>3 DEF k, z
<1>10. Overwritten(m.v, [m.v.win EXCEPT ![p[2]] = d], u)
  <2>1. DOMAIN m.v.win = 1..PerTable  BY <1>2, <1>7 DEF Picture, HoldEntries
  <2>2. m.v.win[p[2]] = n  BY <1>7 DEF Row
  <2>3. p[2] = f.slot /\ f.slot \in 1..PerTable  BY <1>2, <1>6
  <2>4. d = Rewritten(m.v.win[f.slot], f.sclust, f.fsize)  BY <1>9, <2>2, <2>3
  <2> HIDE DEF d, n, p
  <2>5. Overwritten(m.v, [m.v.win EXCEPT ![f.slot] = d], u)
    BY <1>4, <1>7, <2>1, <2>3, <2>4, EntryUpdated
  <2> QED  BY <2>3, <2>5
<1>11. Drawn(m.v, a) /\ m.v.sect \in T  BY <1>2, <1>7 DEF Drawn
<1>12. Regular(a)  BY <1>11, RowSeen
<1>13. Drawn(u, b)
  <2>1. b = WithRow(a, p, d, e)  OBVIOUS
  <2> HIDE DEF d, e, p, b
  <2> QED  BY <1>2, <1>7, <1>10, <1>11, <2>1, RowDrawn
<1>14. /\ Picture(b, E, H) /\ OnlyAt(a, p, b) /\ Row(b.rows, p) = d /\ b.owns[p] = e
       /\ (p \in Living(b) <=> IsObject(d))
  <2>1. Owner(a.chains, a.dirs, d, e, p \in H)  BY <1>1, <1>2, <1>9 DEF Owner
  <2>2. Unowned(a, E, p, e)  BY <1>1 DEF Unowned, Picture
  <2>3. b = WithRow(a, p, d, e) /\ p \notin E  BY <1>1
  <2>4. p \in Tables(a) \X (1..PerTable) /\ IsEntry(d)  BY <1>2, <1>9
  <2> HIDE DEF d, e, p, b, T, X, F
  <2> QED  BY <1>12, <2>1, <2>2, <2>3, <2>4, RowPictured
<1>15. Goes(y) /\ Drawn(y.v, b)
  <2> HIDE DEF b
  <2> QED  BY <1>4, <1>13, FsSync DEF Drawn
<1>16. r = File(y, h, 0)
  <2>1. c.res = "FR_OK" /\ m.res = "FR_OK"  BY <1>5, <1>7 DEF FileStep, Goes
  <2>2. r = ThenFile(File(m, f, 0), LAMBDA x, g : File(SyncFs(Updated(x, g)), [g EXCEPT !.flag = @ \ {"FA__WRITTEN"}], 0))
    BY <1>4, <2>1 DEF SyncEntry, ThenFile
  <2>3. File(m, f, 0).res = "FR_OK" /\ File(m, f, 0).v = m.v /\ File(m, f, 0).fp = f
    BY <2>1 DEF File
  <2> QED  BY <1>4, <2>2, <2>3 DEF ThenFile
<1>17. r.v = y.v /\ r.fp = h /\ Goes(r)  BY <1>15, <1>16 DEF File, Goes
<1>18. ObjectFits(b, h)
  <2>1. p \in Living(b) /\ Row(b.rows, p).clust = HeadOf(b.owns[p]) /\ Row(b.rows, p).size = h.fsize /\ ~Row(b.rows, p).isDir
    BY <1>1, <1>6, <1>9, <1>14
  <2>2. FileFits(h, b.owns[p])  BY <1>6, <1>14
  <2> QED  BY <1>6, <2>1, <2>2 DEF ObjectFits
<1>19. Synced(a, E, H, p, y.v, h)
  <2> HIDE DEF b, p
  <2> QED  BY <1>6, <1>14, <1>15, <1>18 DEF Synced, e
<1> QED  BY <1>17, <1>19

\* f_sync and f_close.
LEMMA FileSynced ==
  ASSUME NEW v, NEW a, Drawn(v, a), NEW E, NEW H, Picture(a, E, H), NEW fp, ObjectFits(a, fp), Place(fp) \in H \ E,
         NEW r, r = FSync(v, fp) \/ r = FClose(v, fp)
  PROVE  Goes(r) /\ Synced(a, E, H, Place(fp), r.v, r.fp)
<1>1. r = FSync(v, fp)  BY DEF FClose
<1>2. CASE "FA__WRITTEN" \in fp.flag  BY <1>1, <1>2, EntrySynced DEF FSync
<1>3. CASE "FA__WRITTEN" \notin fp.flag
  <2>1. r = File(Ok(v), fp, 0)  BY <1>1, <1>3 DEF FSync
  <2>2. r.v = v /\ r.fp = fp /\ Goes(r)  BY <2>1 DEF File, Ok, Goes
  <2>3. Regular(a)  BY DEF Drawn, Shows, Regular
  <2> QED  BY <1>3, <2>2, <2>3, SyncedAlready
<1> QED  BY <1>2, <1>3

\* The entries from k up to i are parts of a long name.
LfnRun(a, e, k, i) == k \in 0..i /\ \A j \in k..(i - 1) : IsLfn(EntryAt(a, e, j))
Dots == {Dot, DotDot}
\* What dir_find knows before it looks at entry i: where the long name began that goes on there.
Seeker(loop, a, e, i, dj, st) ==
  loop = "find" => st.sum \notin Dots /\ dj.fn \notin Dots /\ (st.ord # NoOrd => LfnRun(a, e, dj.lfnIdx, i))
\* What it has found there.
FoundHere(loop, a, e, i, dj) ==
  /\ loop = "find" => IsObject(EntryAt(a, e, i)) /\ (dj.lfnIdx = NoLfn \/ LfnRun(a, e, dj.lfnIdx, i))
  /\ loop = "label" => IsLabel(EntryAt(a, e, i))
\* What the loops that only read leave of a directory object.
SameLoop(loop, dj, d) ==
  /\ DjFields(d) /\ d.sclust = dj.sclust /\ d.root = dj.root /\ d.fn = dj.fn /\ d.loss = dj.loss
  /\ loop # "read" => d.lfn = dj.lfn
SameSpot(dj, d) == d.index = dj.index /\ d.clust = dj.clust /\ d.sect = dj.sect
LookSays(loop, a, e, i, dj, v, m) ==
  /\ m.v = v /\ SameLoop(loop, dj, m.dj) /\ SameSpot(dj, m.dj) /\ m.res \in {"more", "FR_OK", "FR_NO_FILE"}
  /\ m.res = "more" => Seeker(loop, a, e, i + 1, m.dj, m.st)
  /\ m.res = "FR_OK" => FoundHere(loop, a, e, i, m.dj)

\* A directory object with another long name.
LfnAt(dj, k) == [dj EXCEPT !.lfnIdx = k]
LfnIs(dj, n) == [dj EXCEPT !.lfn = n]

\* A directory object with another start of a long name.
LEMMA LfnSet ==
  ASSUME NEW dj, DjFields(dj), NEW k
  PROVE  /\ \A d : d = LfnAt(dj, k) => SameLoop("find", dj, d) /\ SameSpot(dj, d) /\ d.lfnIdx = k
         /\ \A d : d = LfnIs(dj, k) => SameLoop("read", dj, d) /\ SameSpot(dj, d) /\ d.lfn = k /\ d.lfnIdx = dj.lfnIdx
<1>1. ASSUME NEW d, d = LfnAt(dj, k) PROVE SameLoop("find", dj, d) /\ SameSpot(dj, d) /\ d.lfnIdx = k
  <2>1. d = [sclust |-> dj.sclust, index |-> dj.index, clust |-> dj.clust, sect |-> dj.sect, lfnIdx |-> k,
        fn |-> dj.fn, lfn |-> dj.lfn, loss |-> dj.loss, root |-> dj.root]
          BY <1>1 DEF LfnAt, DjFields
  <2> QED  BY <2>1 DEF SameLoop, SameSpot, DjFields
<1>2. ASSUME NEW d, d = LfnIs(dj, k)
      PROVE  SameLoop("read", dj, d) /\ SameSpot(dj, d) /\ d.lfn = k /\ d.lfnIdx = dj.lfnIdx
  <2>1. d = [sclust |-> dj.sclust, index |-> dj.index, clust |-> dj.clust, sect |-> dj.sect, lfnIdx |-> dj.lfnIdx,
        fn |-> dj.fn, lfn |-> k, loss |-> dj.loss, root |-> dj.root]
          BY <1>2 DEF LfnIs, DjFields
  <2> QED  BY <2>1 DEF SameLoop, SameSpot, DjFields
<1> QED  BY <1>1, <1>2

\* A directory object that did not change.
LEMMA SameObject ==
  ASSUME NEW dj, DjFields(dj)
  PROVE  \A loop : SameLoop(loop, dj, dj) /\ SameSpot(dj, dj)
BY DEF SameLoop, SameSpot

\* A run of long name entries goes on with the next of them.
LEMMA RunGoesOn ==
  ASSUME NEW a, NEW e, NEW i \in Nat, IsLfn(EntryAt(a, e, i))
  PROVE  /\ \A k : LfnRun(a, e, k, i) => LfnRun(a, e, k, i + 1)
         /\ LfnRun(a, e, i, i + 1)
<1>1. ASSUME NEW k, LfnRun(a, e, k, i) PROVE LfnRun(a, e, k, i + 1)
  <2>1. k \in 0..i /\ \A j \in k..(i - 1) : IsLfn(EntryAt(a, e, j))  BY <1>1 DEF LfnRun
  <2>2. k \in 0..(i + 1) /\ i + 1 - 1 = i  BY <2>1
  <2>3. ASSUME NEW j \in k..i PROVE IsLfn(EntryAt(a, e, j))
    <3>1. j = i \/ j \in k..(i - 1)  BY <2>1
    <3> QED  BY <2>1, <3>1
  <2> QED  BY <2>2, <2>3 DEF LfnRun
<1>2. LfnRun(a, e, i, i + 1)
  <2>1. i \in 0..(i + 1) /\ i + 1 - 1 = i  OBVIOUS
  <2>2. ASSUME NEW j \in i..i PROVE IsLfn(EntryAt(a, e, j))
    <3>1. j = i  OBVIOUS
    <3> QED  BY <3>1
  <2> QED  BY <2>1, <2>2 DEF LfnRun
<1> QED  BY <1>1, <1>2

\* A part of a long name is looked at.
LEMMA PartLooked ==
  ASSUME NEW a, NEW e, NEW i \in Nat, NEW f, f = EntryAt(a, e, i), IsEntry(f), IsLfn(f), NEW dj, DjFields(dj), dj.index = i,
         NEW st, Seeker("find", a, e, i, dj, st), NEW p, p = PartOf(f, dj, st), NEW s, s = [ord |-> p.ord, sum |-> p.sum]
  PROVE  SameLoop("find", dj, p.dj) /\ SameSpot(dj, p.dj) /\ Seeker("find", a, e, i + 1, p.dj, s)
<1>1. f.ord \in 1..20 /\ f.sum \notin Dots
  <2>1. ~Blank(f) /\ "sfn" \notin DOMAIN f  BY ObjectEntry
  <2>2. IsLabel(f) => f # Label(f.label)  BY DEF IsLfn, Label
  <2> QED  BY <2>1, <2>2 DEF IsEntry, Dots
<1> DEFINE o == IF f.last THEN f.ord ELSE st.ord
           u == IF f.last THEN f.sum ELSE st.sum
<1>2. /\ p.ord = IF f.ord = o /\ f.sum = u /\ f.lfn = dj.lfn THEN o - 1 ELSE NoOrd
      /\ p.sum = u /\ p.dj = IF f.last THEN [dj EXCEPT !.lfnIdx = dj.index] ELSE dj
  BY DEF PartOf
<1>3. s.ord = p.ord /\ s.sum = u  BY <1>2
<1>4. u \notin Dots  BY <1>1 DEF Seeker
<1>5. (\A k : LfnRun(a, e, k, i) => LfnRun(a, e, k, i + 1)) /\ LfnRun(a, e, i, i + 1)
  BY RunGoesOn
<1>6. CASE f.last
  <2> DEFINE d == LfnAt(dj, i)
  <2>1. p.dj = d  BY <1>2, <1>6 DEF LfnAt
  <2>2. SameLoop("find", dj, d) /\ SameSpot(dj, d) /\ d.lfnIdx = i  BY LfnSet
  <2> HIDE DEF d
  <2>3. d.fn \notin Dots  BY <2>2 DEF Seeker, SameLoop
  <2> QED  BY <1>3, <1>4, <1>5, <2>1, <2>2, <2>3 DEF Seeker
<1>7. CASE ~f.last
  <2>1. p.dj = dj  BY <1>2, <1>7
  <2>2. s.ord # NoOrd => st.ord # NoOrd
    <3>1. s.ord # NoOrd => f.ord = st.ord  BY <1>2, <1>3, <1>7
    <3> QED  BY <1>1, <3>1 DEF NoOrd
  <2>3. s.ord # NoOrd => LfnRun(a, e, dj.lfnIdx, i + 1)  BY <1>5, <2>2 DEF Seeker
  <2> QED  BY <1>3, <1>4, <2>1, <2>3, SameObject DEF Seeker
<1> QED  BY <1>6, <1>7

\* dir_find goes on to the next entry.
LEMMA SeeksOn ==
  ASSUME NEW v, NEW dj, NEW ord, NEW sum, NEW m, m = Seeks(v, dj, ord, sum)
  PROVE  m.v = v /\ m.dj = dj /\ m.res = "more" /\ m.st.ord = ord /\ m.st.sum = sum /\ m.st = [ord |-> ord, sum |-> sum]
BY DEF Seeks, Said

\* Entries of a table are of one kind.
LEMMA OneKind ==
  ASSUME NEW f, IsEntry(f)
  PROVE  /\ IsLfn(f) => ~Blank(f) /\ ~IsLabel(f) /\ f # EndOfTable /\ f # Deleted
         /\ IsLabel(f) => ~Blank(f) /\ ~IsLfn(f) /\ f # EndOfTable /\ f # Deleted
         /\ Blank(f) <=> f = EndOfTable \/ f = Deleted
         /\ EndOfTable # Deleted
<1>1. IsLfn(f) => ~IsLabel(f)
  <2>1. IsLfn(f) => ~Blank(f) /\ "sfn" \notin DOMAIN f  BY ObjectEntry
  <2>2. IsLabel(f) /\ f = Label(f.label) => ~IsLfn(f)  BY DEF IsLfn, Label
  <2>3. IsLfn(f) /\ IsLabel(f) => f = [lfn |-> f.lfn, ord |-> f.ord, last |-> f.last, sum |-> f.sum]
    BY <2>1, <2>2 DEF IsEntry
  <2>4. f = [lfn |-> f.lfn, ord |-> f.ord, last |-> f.last, sum |-> f.sum] => "label" \notin DOMAIN f  OBVIOUS
  <2> QED  BY <2>3, <2>4 DEF IsLabel
<1>2. Blank(f) <=> f = EndOfTable \/ f = Deleted  BY DEF Blank
<1>3. EndOfTable # Deleted
  <2>1. EndOfTable.blank = 0 /\ Deleted.blank = 229  BY DEF EndOfTable, Deleted
  <2> QED  BY <2>1
<1>4. (IsLfn(f) => ~Blank(f)) /\ (IsLabel(f) => ~Blank(f))  BY ObjectEntry
<1> QED  BY <1>1, <1>2, <1>3, <1>4

\* dir_find looks at an entry with a short name.
LEMMA SfnLooked ==
  ASSUME NEW v, NEW a, NEW e, NEW i \in Nat, NEW f, f = EntryAt(a, e, i), IsEntry(f), "sfn" \in DOMAIN f, NEW dj, DjFields(dj),
         dj.index = i, NEW st, Seeker("find", a, e, i, dj, st), NEW m, m = FindSfn(v, dj, f, st)
  PROVE  LookSays("find", a, e, i, dj, v, m)
<1> DEFINE d == LfnAt(dj, NoLfn)
<1>1. SameLoop("find", dj, d) /\ SameSpot(dj, d) /\ d.lfnIdx = NoLfn  BY LfnSet
<1>2. d = [dj EXCEPT !.lfnIdx = NoLfn]  BY DEF LfnAt
<1> HIDE DEF d
<1>3. st.sum \notin Dots /\ dj.fn \notin Dots /\ (st.ord # NoOrd => LfnRun(a, e, dj.lfnIdx, i))
  BY DEF Seeker
<1>4. IsObject(f) <=> f.sfn \notin Dots  BY ObjectEntry DEF Dots
<1>5. CASE st.ord = 0 /\ st.sum = f.sfn
  <2>1. m = Said(v, dj, "FR_OK", st)
    <3>1. ~(~(st.ord = 0 /\ st.sum = f.sfn) /\ ~dj.loss /\ f.sfn = dj.fn)  BY <1>5
    <3> QED  BY <1>5, <3>1, Zenon DEF FindSfn
  <2>2. m.v = v /\ m.dj = dj /\ m.res = "FR_OK"  BY <2>1, SaidIs
  <2>3. FoundHere("find", a, e, i, dj)  BY <1>3, <1>4, <1>5 DEF FoundHere, NoOrd
  <2> QED  BY <2>2, <2>3, SameObject DEF LookSays
<1>6. CASE ~(st.ord = 0 /\ st.sum = f.sfn) /\ ~dj.loss /\ f.sfn = dj.fn
  <2>1. m = Said(v, d, "FR_OK", st)
    <3>1. ~(st.ord = 0 /\ st.sum = f.sfn)  BY <1>6
    <3> QED  BY <1>2, <1>6, <3>1, Zenon DEF FindSfn
  <2>2. m.v = v /\ m.dj = d /\ m.res = "FR_OK"  BY <2>1, SaidIs
  <2>3. FoundHere("find", a, e, i, d)  BY <1>1, <1>3, <1>4, <1>6 DEF FoundHere
  <2> QED  BY <1>1, <2>2, <2>3 DEF LookSays
<1>7. CASE ~(st.ord = 0 /\ st.sum = f.sfn) /\ ~(~(st.ord = 0 /\ st.sum = f.sfn) /\ ~dj.loss /\ f.sfn = dj.fn)
  <2>1. m = Seeks(v, d, NoOrd, st.sum)
    <3>1. ~(st.ord = 0 /\ st.sum = f.sfn)  BY <1>7
    <3>2. ~(~(st.ord = 0 /\ st.sum = f.sfn) /\ ~dj.loss /\ f.sfn = dj.fn)  BY <1>7
    <3> QED  BY <1>2, <3>1, <3>2, Zenon DEF FindSfn
  <2>2. m.v = v /\ m.dj = d /\ m.res = "more" /\ m.st.ord = NoOrd /\ m.st.sum = st.sum
    <3> DEFINE u == st.sum
               o == NoOrd
    <3>1. m = Seeks(v, d, o, u)  BY <2>1
    <3> HIDE DEF u, o
    <3>2. m.v = v /\ m.dj = d /\ m.res = "more" /\ m.st.ord = o /\ m.st.sum = u
      BY <3>1 DEF Seeks, Said
    <3> QED  BY <3>2 DEF u, o
  <2>3. Seeker("find", a, e, i + 1, d, m.st)  BY <1>1, <1>3, <2>2 DEF Seeker, SameLoop
  <2> QED  BY <1>1, <2>2, <2>3 DEF LookSays
<1> QED  BY <1>5, <1>6, <1>7

\* What dir_find may say of an entry.
LEMMA FindSays ==
  ASSUME NEW v, NEW a, NEW e, NEW i \in Nat, NEW f, f = EntryAt(a, e, i), IsEntry(f), NEW dj, DjFields(dj), dj.index = i,
         NEW st, Seeker("find", a, e, i, dj, st), NEW m, m = FindAt(v, dj, f, st)
  PROVE  LookSays("find", a, e, i, dj, v, m)
<1>1. SameLoop("find", dj, dj) /\ SameSpot(dj, dj)  BY SameObject
<1>2. CASE f = EndOfTable
  <2>1. ~(f # EndOfTable /\ (f = Deleted \/ IsLabel(f))) /\ ~(~Blank(f) /\ IsLfn(f))
    BY <1>2, OneKind
  <2>2. m = Said(v, dj, "FR_NO_FILE", st)  BY <1>2, <2>1, Zenon DEF FindAt
  <2>3. m.v = v /\ m.dj = dj /\ m.res = "FR_NO_FILE"  BY <2>2, SaidIs
  <2> QED  BY <1>1, <2>3 DEF LookSays
<1>3. CASE f # EndOfTable /\ (f = Deleted \/ IsLabel(f))
  <2>1. ~(f = EndOfTable) /\ ~(~Blank(f) /\ IsLfn(f))  BY <1>3, OneKind
  <2>2. m = Seeks(v, dj, NoOrd, st.sum)  BY <1>3, <2>1, Zenon DEF FindAt
  <2>3. m.v = v /\ m.dj = dj /\ m.res = "more" /\ m.st.ord = NoOrd /\ m.st.sum = st.sum
    <3> DEFINE u == st.sum
               o == NoOrd
    <3>1. m = Seeks(v, dj, o, u)  BY <2>2
    <3> HIDE DEF u, o
    <3>2. m.v = v /\ m.dj = dj /\ m.res = "more" /\ m.st.ord = o /\ m.st.sum = u
      BY <3>1 DEF Seeks, Said
    <3> QED  BY <3>2 DEF u, o
  <2>4. Seeker("find", a, e, i + 1, dj, m.st)  BY <2>3 DEF Seeker
  <2> QED  BY <1>1, <2>3, <2>4 DEF LookSays
<1>4. CASE IsLfn(f)
  <2>1. ~(f = EndOfTable) /\ ~(f # EndOfTable /\ (f = Deleted \/ IsLabel(f))) /\ ~Blank(f)
    BY <1>4, OneKind
  <2>2. m = IF dj.lfn = NoName THEN Said(v, dj, "more", st) ELSE FindPart(v, PartOf(f, dj, st))
    BY <1>4, <2>1, Zenon DEF FindAt
  <2>3. CASE dj.lfn = NoName
    <3>1. m.v = v /\ m.dj = dj /\ m.res = "more" /\ m.st = st  BY <2>2, <2>3, SaidIs
    <3>2. \A k : LfnRun(a, e, k, i) => LfnRun(a, e, k, i + 1)  BY <1>4, RunGoesOn
    <3>3. Seeker("find", a, e, i + 1, dj, m.st)  BY <3>1, <3>2 DEF Seeker
    <3> QED  BY <1>1, <3>1, <3>3 DEF LookSays
  <2>4. CASE dj.lfn # NoName
    <3> DEFINE p == PartOf(f, dj, st)
    <3>1. m = Seeks(v, p.dj, p.ord, p.sum)  BY <2>2, <2>4 DEF FindPart
    <3>2. p = PartOf(f, dj, st)  OBVIOUS
    <3> HIDE DEF p
    <3> DEFINE s == [ord |-> p.ord, sum |-> p.sum]
    <3>3. m.v = v /\ m.dj = p.dj /\ m.res = "more" /\ m.st = s  BY <3>1, SeeksOn
    <3> HIDE DEF s
    <3>4. SameLoop("find", dj, p.dj) /\ SameSpot(dj, p.dj) /\ Seeker("find", a, e, i + 1, p.dj, s)
      BY <1>4, <3>2, PartLooked DEF s
    <3> QED  BY <3>3, <3>4 DEF LookSays
  <2> QED  BY <2>3, <2>4
<1>5. CASE ~Blank(f) /\ ~IsLfn(f) /\ ~IsLabel(f)
  <2>1. ~(f = EndOfTable) /\ ~(f # EndOfTable /\ (f = Deleted \/ IsLabel(f))) /\ ~(~Blank(f) /\ IsLfn(f))
    BY <1>5, OneKind
  <2>2. m = FindSfn(v, dj, f, st)  BY <2>1, Zenon DEF FindAt
  <2>3. "sfn" \in DOMAIN f  BY <1>5, ObjectEntry
  <2> QED  BY <2>2, <2>3, SfnLooked
<1> QED  BY <1>2, <1>3, <1>4, <1>5, OneKind

\* What the search for the label may say of an entry.
LEMMA LabelSays ==
  ASSUME NEW v, NEW a, NEW e, NEW i \in Nat, NEW f, f = EntryAt(a, e, i), NEW dj, DjFields(dj), Entry(v, dj) = f, IsEntry(f),
         NEW st, NEW m, m = LabelLook(v, dj, st)
  PROVE  LookSays("label", a, e, i, dj, v, m)
<1>1. SameLoop("label", dj, dj) /\ SameSpot(dj, dj)  BY SameObject
<1>2. \A d, s : Seeker("label", a, e, i + 1, d, s)  BY DEF Seeker
<1>3. CASE f = EndOfTable
  <2>1. ~(~Blank(f) /\ IsLabel(f))  BY <1>3, OneKind
  <2>2. m = Said(v, dj, "FR_NO_FILE", st)  BY <1>3, <2>1, Zenon DEF LabelLook
  <2> QED  BY <1>1, <2>2, SaidIs DEF LookSays
<1>4. CASE ~Blank(f) /\ IsLabel(f)
  <2>1. ~(f = EndOfTable)  BY <1>4, OneKind
  <2>2. m = Said(v, dj, "FR_OK", st)  BY <1>4, <2>1, Zenon DEF LabelLook
  <2> QED  BY <1>1, <1>4, <2>2, SaidIs DEF LookSays, FoundHere
<1>5. CASE ~(f = EndOfTable) /\ ~(~Blank(f) /\ IsLabel(f))
  <2>1. m = Said(v, dj, "more", st)
    <3>1. ~(f = EndOfTable)  BY <1>5
    <3>2. ~(~Blank(f) /\ IsLabel(f))  BY <1>5
    <3> QED  BY <3>1, <3>2, Zenon DEF LabelLook
  <2> QED  BY <1>1, <1>2, <2>1, SaidIs DEF LookSays
<1> QED  BY <1>3, <1>4, <1>5

\* dir_read sets the long name and where it began.
ReadMoves(dj, d) == SameLoop("read", dj, d) /\ SameSpot(dj, d)

\* What dir_read leaves of its directory object.
LEMMA ReadMovesOn ==
  ASSUME NEW dj, DjFields(dj)
  PROVE  /\ ReadMoves(dj, dj)
         /\ \A k : ReadMoves(dj, LfnIs(dj, k)) /\ ReadMoves(dj, LfnAt(dj, k)) /\ DjFields(LfnIs(dj, k)) /\ DjFields(LfnAt(dj, k))
         /\ \A d, c : ReadMoves(dj, d) /\ ReadMoves(d, c) => ReadMoves(dj, c)
<1>1. ReadMoves(dj, dj)  BY SameObject DEF ReadMoves
<1>2. ASSUME NEW k PROVE ReadMoves(dj, LfnIs(dj, k)) /\ DjFields(LfnIs(dj, k))
  BY LfnSet DEF ReadMoves, SameLoop
<1>3. ASSUME NEW k PROVE ReadMoves(dj, LfnAt(dj, k)) /\ DjFields(LfnAt(dj, k))
  BY LfnSet DEF ReadMoves, SameLoop
<1> QED  BY <1>1, <1>2, <1>3 DEF ReadMoves, SameLoop, SameSpot

\* What dir_read may say of an entry.
LEMMA ReadSays ==
  ASSUME NEW v, NEW a, NEW e, NEW i \in Nat, NEW f, f = EntryAt(a, e, i), IsEntry(f), NEW dj, DjFields(dj),
         NEW st, NEW m, m = ReadAt(v, dj, f, st)
  PROVE  LookSays("read", a, e, i, dj, v, m)
<1>1. ReadMoves(dj, dj)  BY ReadMovesOn
<1>2. \A d, s : Seeker("read", a, e, i + 1, d, s)  BY DEF Seeker
<1>3. \A d : FoundHere("read", a, e, i, d)  BY DEF FoundHere
<1>4. ASSUME NEW d, NEW o, NEW u, ReadMoves(dj, d), m = Seeks(v, d, o, u) PROVE LookSays("read", a, e, i, dj, v, m)
  <2>1. m.v = v /\ m.dj = d /\ m.res = "more"  BY <1>4 DEF Seeks, Said
  <2> QED  BY <1>2, <1>4, <2>1 DEF LookSays, ReadMoves
<1>5. ASSUME NEW d, NEW says \in {"FR_OK", "FR_NO_FILE"}, ReadMoves(dj, d), m = Said(v, d, says, st)
      PROVE  LookSays("read", a, e, i, dj, v, m)
  BY <1>3, <1>5, SaidIs DEF LookSays, ReadMoves
<1>6. CASE f = EndOfTable
  <2>1. ~(f # EndOfTable /\ (f = Deleted \/ IsLabel(f))) /\ ~(~Blank(f) /\ IsLfn(f))
    BY <1>6, OneKind
  <2>2. m = Said(v, dj, "FR_NO_FILE", st)  BY <1>6, <2>1, Zenon DEF ReadAt
  <2> QED  BY <1>1, <1>5, <2>2
<1>7. CASE f # EndOfTable /\ (f = Deleted \/ IsLabel(f))
  <2>1. ~(f = EndOfTable) /\ ~(~Blank(f) /\ IsLfn(f))  BY <1>7, OneKind
  <2>2. m = Seeks(v, dj, NoOrd, st.sum)  BY <1>7, <2>1, Zenon DEF ReadAt
  <2> QED  BY <1>1, <1>4, <2>2
<1>8. CASE IsLfn(f)
  <2> DEFINE n == f.lfn
             h == LfnIs(dj, n)
             p == PartOf(f, h, st)
  <2>1. ~(f = EndOfTable) /\ ~(f # EndOfTable /\ (f = Deleted \/ IsLabel(f))) /\ ~Blank(f)
    BY <1>8, OneKind
  <2>2. m = ReadPart(v, p, n)
    <3>1. m = ReadPart(v, PartOf(f, [dj EXCEPT !.lfn = f.lfn], st), f.lfn)
      BY <1>8, <2>1, Zenon DEF ReadAt
    <3> QED  BY <3>1 DEF LfnIs
  <2>3. p.dj = h \/ p.dj = LfnAt(h, h.index)  BY DEF PartOf, LfnAt
  <2>4. m = Seeks(v, LfnIs(p.dj, n), p.ord, p.sum)  BY <2>2 DEF ReadPart, LfnIs
  <2> DEFINE q == p.dj
  <2>5. ReadMoves(dj, h) /\ DjFields(h)  BY ReadMovesOn
  <2>6. q = h \/ q = LfnAt(h, h.index)  BY <2>3
  <2> HIDE DEF p, q, h
  <2>7. ReadMoves(dj, q) /\ DjFields(q)
    <3> DEFINE k == h.index
    <3>1. q = h \/ q = LfnAt(h, k)  BY <2>6
    <3> HIDE DEF k
    <3>2. ReadMoves(h, LfnAt(h, k)) /\ DjFields(LfnAt(h, k))  BY <2>5, ReadMovesOn
    <3> QED  BY <2>5, <3>1, <3>2, ReadMovesOn
  <2>8. ReadMoves(dj, LfnIs(q, n))
    <3> HIDE DEF n
    <3>1. ReadMoves(q, LfnIs(q, n))  BY <2>7, ReadMovesOn
    <3> QED  BY <2>7, <3>1, ReadMovesOn
  <2> QED  BY <1>4, <2>4, <2>8 DEF q
<1>9. CASE ~Blank(f) /\ ~IsLfn(f) /\ ~IsLabel(f)
  <2>1. ~(f = EndOfTable) /\ ~(f # EndOfTable /\ (f = Deleted \/ IsLabel(f))) /\ ~(~Blank(f) /\ IsLfn(f))
    BY <1>9, OneKind
  <2>2. m = IF f.sfn \in {Dot, DotDot} THEN Seeks(v, dj, NoOrd, st.sum)
            ELSE Said(v, IF st.ord = 0 /\ st.sum = f.sfn THEN dj ELSE [dj EXCEPT !.lfnIdx = NoLfn],
                      "FR_OK", st)  BY <2>1, Zenon DEF ReadAt
  <2>3. CASE f.sfn \in {Dot, DotDot}
    <3>1. m = Seeks(v, dj, NoOrd, st.sum)  BY <2>2, <2>3
    <3> QED  BY <1>1, <1>4, <3>1
  <2>4. CASE f.sfn \notin {Dot, DotDot}
    <3> DEFINE d == IF st.ord = 0 /\ st.sum = f.sfn THEN dj ELSE LfnAt(dj, NoLfn)
    <3>1. m = Said(v, d, "FR_OK", st)  BY <2>2, <2>4 DEF LfnAt
    <3>2. ReadMoves(dj, d)  BY <1>1, ReadMovesOn
    <3> HIDE DEF d
    <3> QED  BY <1>5, <3>1, <3>2
  <2> QED  BY <2>3, <2>4
<1> QED  BY <1>6, <1>7, <1>8, <1>9, OneKind

\* The loops that only read, before entry i or at their end.
Readers == {"find", "read", "label"}
FoundAtEntry(loop, a, e, dj, v) ==
  \E j : At(e, j, dj) /\ InWindow(v, a, e, j, dj) /\ FoundHere(loop, a, e, j, dj)
ScanState(loop, a, E, H, e, dj, i, l) ==
  /\ Sees(l.v, a, E, H) /\ SameLoop(loop, dj, l.dj) /\ l.res \in {"more", "FR_OK", "FR_NO_FILE"}
  /\ l.res = "more" => At(e, i, l.dj) /\ Seeker(loop, a, e, i, l.dj, l.st)
  /\ l.res = "FR_OK" => FoundAtEntry(loop, a, e, l.dj, l.v)

\* What a walk that writes nothing may say of an entry of the volume.
LEMMA EntryLooked ==
  ASSUME NEW loop \in Readers, NEW a, NEW E, NEW H, NEW e, IsTable(a.dirs, e), NEW i, NEW d, At(e, i, d), DjFields(d),
         NEW w, Sees(w, a, E, H), InWindow(w, a, e, i, d), NEW st, Seeker(loop, a, e, i, d, st),
         NEW m, m = Look(loop, w, d, st)
  PROVE  LookSays(loop, a, e, i, d, w, m)
<1> DEFINE f == EntryAt(a, e, i)
<1>1. i \in Nat /\ d.index = i /\ IsEntry(f) /\ Entry(w, d) = f
  <2>1. HasEntry(e, i) /\ d.index = i  BY DEF At
  <2>2. i \in Nat  BY <2>1 DEF HasEntry
  <2>3. IsEntry(f)  BY <2>1, PlaceKnown DEF Sees
  <2> QED  BY <2>1, <2>2, <2>3 DEF InWindow
<1>2. f = EntryAt(a, e, i)  OBVIOUS
<1> HIDE DEF f
<1>3. CASE loop = "find"
  <2>1. m = FindAt(w, d, f, st)  BY <1>1, <1>3, LooksAre DEF FindLook
  <2>2. Seeker("find", a, e, i, d, st)  BY <1>3
  <2>3. LookSays("find", a, e, i, d, w, m)  BY <1>1, <1>2, <2>1, <2>2, FindSays
  <2> QED  BY <1>3, <2>3
<1>4. CASE loop = "read"
  <2>1. m = ReadAt(w, d, f, st)  BY <1>1, <1>4, LooksAre DEF ReadLook
  <2>2. LookSays("read", a, e, i, d, w, m)  BY <1>1, <1>2, <2>1, ReadSays
  <2> QED  BY <1>4, <2>2
<1>5. CASE loop = "label"
  <2>1. m = LabelLook(w, d, st)  BY <1>1, <1>5, LooksAre
  <2>2. LookSays("label", a, e, i, d, w, m)  BY <1>1, <1>2, <2>1, LabelSays
  <2> QED  BY <1>5, <2>2
<1> QED  BY <1>3, <1>4, <1>5 DEF Readers

\* A directory object that moves in its table.
LEMMA LoopSame ==
  ASSUME NEW loop
  PROVE  /\ \A c, d, b : SameLoop(loop, c, d) /\ SameLoop(loop, d, b) => SameLoop(loop, c, b)
         /\ \A c, d : SameDir(c, d) => SameLoop(loop, c, d) /\ DjFields(d)
         /\ \A e, i, c, d : SameSpot(c, d) /\ At(e, i, c) => At(e, i, d)
         /\ \A a, e, i, v, c, d : SameSpot(c, d) /\ InWindow(v, a, e, i, c) => InWindow(v, a, e, i, d)
         /\ \A a, e, i, c, d, st, s : SameDir(c, d) /\ Seeker(loop, a, e, i, c, st) /\ s = st => Seeker(loop, a, e, i, d, s)
<1>1. ASSUME NEW a, NEW e, NEW i, NEW v, NEW c, NEW d, SameSpot(c, d), InWindow(v, a, e, i, c) PROVE InWindow(v, a, e, i, d)
  <2>1. d.sect = c.sect /\ Slot(d) = Slot(c) /\ Entry(v, d) = Entry(v, c)
    BY <1>1 DEF SameSpot, Slot, Entry
  <2> QED  BY <1>1, <2>1 DEF InWindow
<1>2. \A e, i, c, d : SameSpot(c, d) /\ At(e, i, c) => At(e, i, d)  BY DEF SameSpot, At
<1>3. \A c, d, b : SameLoop(loop, c, d) /\ SameLoop(loop, d, b) => SameLoop(loop, c, b)
  BY DEF SameLoop
<1>4. \A c, d : SameDir(c, d) => SameLoop(loop, c, d) /\ DjFields(d)
  BY DEF SameLoop, SameDir, SameName
<1>5. \A a, e, i, c, d, st, s : SameDir(c, d) /\ Seeker(loop, a, e, i, c, st) /\ s = st => Seeker(loop, a, e, i, d, s)
  BY DEF Seeker, SameDir, SameName
<1> QED  BY <1>1, <1>2, <1>3, <1>4, <1>5

\* One round of a walk that writes nothing.
LEMMA ScanGoesOn ==
  ASSUME NEW loop \in Readers, NEW a, NEW E, NEW H, NEW e, IsTable(a.dirs, e), NEW dj, NEW i \in Nat,
         NEW l, ScanState(loop, a, E, H, e, dj, i, l), NEW x, x = ScanRound(l, loop)
  PROVE  ScanState(loop, a, E, H, e, dj, i + 1, x)
<1>1. CASE l.res # "more"
  <2>1. x = l  BY <1>1 DEF ScanRound
  <2> QED  BY <1>1, <2>1 DEF ScanState
<1>2. CASE l.res = "more"
  <2> DEFINE d == l.dj
             st == l.st
  <2>1. Sees(l.v, a, E, H) /\ SameLoop(loop, dj, d) /\ At(e, i, d) /\ Seeker(loop, a, e, i, d, st) /\ DjFields(d)
    BY <1>2 DEF ScanState, SameLoop
  <2>2. PICK w : Sees(w, a, E, H) /\ InWindow(w, a, e, i, d) /\ x = Onward(Look(loop, w, d, st), loop)
    <3>1. RoundAt(a, E, H, e, i, l)  BY <1>2, <2>1 DEF RoundAt
    <3>2. LooksAt(loop, a, E, H, e, i, l.dj, l.st, x)  BY <3>1, RoundLooks
    <3> QED  BY <3>2 DEF LooksAt
  <2> DEFINE m == Look(loop, w, d, st)
  <2>3. x = Onward(m, loop) /\ m = Look(loop, w, d, st)  BY <2>2
  <2> HIDE DEF m, d, st
  <2>4. LookSays(loop, a, e, i, d, w, m)  BY <2>1, <2>2, <2>3, EntryLooked
  <2>5. m.v = w /\ SameLoop(loop, d, m.dj) /\ SameSpot(d, m.dj) /\ m.res \in {"more", "FR_OK", "FR_NO_FILE"}
    BY <2>4 DEF LookSays
  <2>6. At(e, i, m.dj) /\ InWindow(w, a, e, i, m.dj) /\ SameLoop(loop, dj, m.dj) /\ DjFields(m.dj)
    <3>1. At(e, i, m.dj) /\ InWindow(w, a, e, i, m.dj)  BY <2>1, <2>2, <2>5, LoopSame
    <3>2. SameLoop(loop, dj, m.dj)  BY <2>1, <2>5, LoopSame
    <3> QED  BY <2>5, <3>1, <3>2 DEF SameLoop
  <2>7. CASE m.res = "more"
    <3>1. StepsOn(a, E, H, e, i, m, x)
      <4>1. loop # "alloc"  BY DEF Readers
      <4>2. Sees(m.v, a, E, H)  BY <2>2, <2>5
      <4> QED  BY <2>3, <2>6, <2>7, <4>1, <4>2, LoopStepsOn
    <3>2. Seeker(loop, a, e, i + 1, m.dj, m.st)  BY <2>4, <2>7 DEF LookSays
    <3>3. SameDir(m.dj, x.dj) /\ x.st = m.st  BY <3>1 DEF StepsOn
    <3>4. SameLoop(loop, dj, x.dj)  BY <2>6, <3>3, LoopSame
    <3>5. Seeker(loop, a, e, i + 1, x.dj, x.st)
      <4> DEFINE k == i + 1
      <4>1. Seeker(loop, a, e, k, m.dj, m.st)  BY <3>2
      <4> HIDE DEF k
      <4>2. Seeker(loop, a, e, k, x.dj, x.st)  BY <3>3, <4>1, LoopSame
      <4> QED  BY <4>2 DEF k
    <3> QED  BY <3>1, <3>4, <3>5 DEF ScanState, StepsOn
  <2>8. CASE m.res # "more"
    <3>1. x = m  BY <2>3, <2>8, LoopStops
    <3>2. m.res = "FR_OK" => FoundAtEntry(loop, a, e, m.dj, m.v)
      <4>1. m.res = "FR_OK" => FoundHere(loop, a, e, i, m.dj)  BY <2>4 DEF LookSays
      <4> QED  BY <2>5, <2>6, <4>1 DEF FoundAtEntry
    <3>3. Sees(m.v, a, E, H)  BY <2>2, <2>5
    <3> QED  BY <2>5, <2>6, <2>8, <3>1, <3>2, <3>3 DEF ScanState
  <2> QED  BY <2>7, <2>8
<1> QED  BY <1>1, <1>2

\* A walk that writes nothing ends at an object of its table, or behind it.
LEMMA ScanIsDone ==
  ASSUME NEW loop \in Readers, NEW a, NEW E, NEW H, NEW e, IsTable(a.dirs, e), NEW v, Sees(v, a, E, H),
         NEW i, NEW dj, At(e, i, dj), DjFields(dj), NEW st, Seeker(loop, a, e, i, dj, st),
         NEW r, r = Scan(loop, v, dj, st)
  PROVE  /\ Sees(r.v, a, E, H) /\ SameLoop(loop, dj, r.dj) /\ r.res \in {"FR_OK", "FR_NO_FILE"}
         /\ r.res = "FR_OK" => FoundAtEntry(loop, a, e, r.dj, r.v)
<1> DEFINE start == Said(v, dj, "more", st)
           N == MaxRounds
<1>1. start.v = v /\ start.dj = dj /\ start.res = "more" /\ start.st = st  BY SaidIs
<1> HIDE DEF start
<1>2. N \in Nat /\ \A j : HasEntry(e, j) => j \in Nat /\ j < N  BY RoundsEnough DEF Sees
<1> HIDE DEF N
<1>3. PICK w : /\ w[0] = start /\ \A n \in 1..N : w[n] = ScanRound(w[n - 1], loop)
               /\ ScanEnd(start, loop, N) = w[N]
  BY <1>2, ScanLoop
<1>4. r = With(w[N], w[N].dj)  BY <1>3 DEF Scan, ScanEnd, start, N
<1>5. i \in Nat  BY DEF At, HasEntry
<1> DEFINE S == {n \in 0..N : ScanState(loop, a, E, H, e, dj, i + n, w[n])}
<1>6. 0 \in S
  <2> DEFINE s == w[0]
  <2>1. s.v = v /\ s.dj = dj /\ s.res = "more" /\ s.st = st  BY <1>1, <1>3
  <2> HIDE DEF s
  <2>2. ScanState(loop, a, E, H, e, dj, i, s)  BY <2>1, SameObject DEF ScanState
  <2>3. i + 0 = i  BY <1>5
  <2> QED  BY <1>2, <2>2, <2>3 DEF s
<1>7. \A n \in 0..(N - 1) : n \in S => n + 1 \in S
  <2> SUFFICES ASSUME NEW n \in 0..(N - 1), ScanState(loop, a, E, H, e, dj, i + n, w[n])
               PROVE  ScanState(loop, a, E, H, e, dj, i + (n + 1), w[n + 1])
    BY <1>2
  <2> DEFINE x == w[n]
             y == w[n + 1]
             k == i + n
  <2>1. y = ScanRound(x, loop)
    <3>1. n + 1 \in 1..N /\ (n + 1) - 1 = n  BY <1>2
    <3> QED  BY <1>3, <3>1
  <2>2. k \in Nat /\ i + (n + 1) = k + 1  BY <1>2, <1>5
  <2> HIDE DEF x, y, k
  <2>3. ScanState(loop, a, E, H, e, dj, k, x)  BY DEF x, k
  <2>4. ScanState(loop, a, E, H, e, dj, k + 1, y)  BY <2>1, <2>2, <2>3, ScanGoesOn
  <2> QED  BY <2>2, <2>4 DEF y
<1> HIDE DEF S
<1>8. N \in S  BY <1>2, <1>6, <1>7, LoopKeeps
<1> DEFINE m == w[N]
<1>9. r.v = m.v /\ r.dj = m.dj /\ r.res = m.res  BY <1>4 DEF With
<1>10. ScanState(loop, a, E, H, e, dj, i + N, m)  BY <1>8 DEF S
<1> HIDE DEF m
<1>11. m.res # "more"
  <2>1. m.res = "more" => HasEntry(e, i + N)  BY <1>10 DEF ScanState, At
  <2>2. ~(i + N < N)  BY <1>2, <1>5
  <2> QED  BY <1>2, <2>1, <2>2
<1> QED  BY <1>9, <1>10, <1>11 DEF ScanState

----------------------------------------------------------------------------
(* dir_find.                                                               *)

FindsIn(a, E, H, e, dj, r) ==
  /\ Sees(r.v, a, E, H) /\ SameLoop("find", dj, r.dj) /\ r.res \in {"FR_OK", "FR_NO_FILE", "FR_INT_ERR"}
  /\ r.res = "FR_OK" => FoundAtEntry("find", a, e, r.dj, r.v)
  /\ r.res # "FR_INT_ERR" => HasEntry(e, 0)
  /\ HasEntry(e, 0) => r.res # "FR_INT_ERR"

\* dir_find ends at an entry of its table with the name it looks for.
LEMMA DirFound ==
  ASSUME NEW v, NEW a, NEW E, NEW H, Sees(v, a, E, H), NEW e, IsTable(a.dirs, e), NEW dj, DjFields(dj), OfTable(e, dj),
         dj.fn \notin Dots, NEW r, r = DirFind(v, dj)
  PROVE  FindsIn(a, E, H, e, dj, r)
<1> DEFINE z == 0
           q == DirSdi(v, dj, z)
           st == FromHere
           loop == "find"
<1>1. r = IF q.res = "FR_OK" THEN Scan(loop, q.v, q.dj, st) ELSE q  BY DEF DirFind, ThenAt
<1>2. q = DirSdi(v, dj, z) /\ z \in Nat  OBVIOUS
<1> HIDE DEF q, z
<1>3. /\ SameDir(dj, q.dj) /\ Sees(q.v, a, E, H) /\ (HasEntry(e, z) => Goes(q)) /\ (Goes(q) => At(e, z, q.dj))
      /\ q.res \in {"FR_OK", "FR_INT_ERR"}
  BY <1>2, DirIsAt
<1>4. SameLoop(loop, dj, q.dj) /\ DjFields(q.dj)  BY <1>3, LoopSame
<1>5. CASE Goes(q)
  <2>1. At(e, z, q.dj) /\ r = Scan(loop, q.v, q.dj, st) /\ HasEntry(e, z)
    BY <1>1, <1>3, <1>5 DEF Goes, At
  <2>2. Seeker(loop, a, e, z, q.dj, st)
    <3>1. st.sum = NoName /\ st.ord = NoOrd  BY DEF FromHere
    <3>2. NoName \notin Dots  BY DEF NoName, Dots, Dot, DotDot
    <3>3. q.dj.fn = dj.fn  BY <1>4 DEF SameLoop
    <3> HIDE DEF st
    <3> QED  BY <3>1, <3>2, <3>3 DEF Seeker
  <2>3. loop \in Readers  BY DEF Readers
  <2> HIDE DEF loop, st
  <2>4. /\ Sees(r.v, a, E, H) /\ SameLoop(loop, q.dj, r.dj) /\ r.res \in {"FR_OK", "FR_NO_FILE"}
        /\ r.res = "FR_OK" => FoundAtEntry(loop, a, e, r.dj, r.v)
    BY <1>3, <1>4, <2>1, <2>2, <2>3, ScanIsDone
  <2>5. SameLoop(loop, dj, r.dj)  BY <1>4, <2>4, LoopSame
  <2> QED  BY <2>1, <2>4, <2>5 DEF FindsIn, loop, z
<1>6. CASE ~Goes(q)
  <2>1. r = q /\ q.res = "FR_INT_ERR"  BY <1>1, <1>3, <1>6 DEF Goes
  <2> QED  BY <1>3, <1>4, <1>6, <2>1 DEF FindsIn, z
<1> QED  BY <1>5, <1>6

----------------------------------------------------------------------------
(* follow_path.                                                            *)

\* The root directory.
LEMMA RootTable ==
  ASSUME NEW a, NEW E, NEW H, Picture(a, E, H)
  PROVE  \E e : IsTable(a.dirs, e) /\ \A dj : dj.sclust = 0 => OfTable(e, dj)
<1>1. CASE Fat32
  <2>1. PICK e \in a.dirs : e[1] = 2  BY <1>1 DEF Picture
  <2>2. IsTable(a.dirs, e)  BY DEF IsTable
  <2>3. e # <<>>
    <3>1. Path(a.fat, e)  BY DEF Picture, Family
    <3> QED  BY <3>1, PathNotEmpty
  <2> QED  BY <1>1, <2>1, <2>2, <2>3 DEF OfTable
<1>2. CASE ~Fat32
  <2>1. IsTable(a.dirs, <<>>)  BY <1>2 DEF IsTable
  <2>2. \A dj : dj.sclust = 0 => OfTable(<<>>, dj)  BY DEF OfTable
  <2> QED  BY <2>1, <2>2
<1> QED  BY <1>1, <1>2

\* A directory object of a table, and one with the name of an object in it.
InTable(a, e, dj) == IsTable(a.dirs, e) /\ OfTable(e, dj) /\ DjFields(dj)
HasName(a, e, dj) == InTable(a, e, dj) /\ HasEntry(e, 0) /\ dj.fn \notin Dots /\ dj.root = FALSE
HasObject(a, e, dj, v) == InTable(a, e, dj) /\ FoundAtEntry("find", a, e, dj, v) /\ dj.root = FALSE

NameIn(dj, n, f, b) == [dj EXCEPT !.lfn = n, !.fn = f, !.loss = b]
StartsAt(dj, c) == [dj EXCEPT !.sclust = c]

\* A directory object with another name or another table.
LEMMA NameSet ==
  ASSUME NEW dj, DjFields(dj)
  PROVE  /\ \A n, f, b, d : d = NameIn(dj, n, f, b) => DjFields(d) /\ d.sclust = dj.sclust /\ d.fn = f /\ d.root = dj.root
         /\ \A c, d : d = StartsAt(dj, c) => DjFields(d) /\ d.sclust = c /\ d.root = dj.root
<1>1. ASSUME NEW n, NEW f, NEW b, NEW d, d = NameIn(dj, n, f, b)
      PROVE  DjFields(d) /\ d.sclust = dj.sclust /\ d.fn = f /\ d.root = dj.root
  <2>1. d = [sclust |-> dj.sclust, index |-> dj.index, clust |-> dj.clust, sect |-> dj.sect, lfnIdx |-> dj.lfnIdx,
        fn |-> f, lfn |-> n, loss |-> b, root |-> dj.root]  BY <1>1 DEF NameIn, DjFields
  <2> QED  BY <2>1 DEF DjFields
<1>2. ASSUME NEW c, NEW d, d = StartsAt(dj, c) PROVE DjFields(d) /\ d.sclust = c /\ d.root = dj.root
  <2>1. d = [sclust |-> c, index |-> dj.index, clust |-> dj.clust, sect |-> dj.sect, lfnIdx |-> dj.lfnIdx,
        fn |-> dj.fn, lfn |-> dj.lfn, loss |-> dj.loss, root |-> dj.root]
          BY <1>2 DEF StartsAt, DjFields
  <2> QED  BY <2>1 DEF DjFields
<1> QED  BY <1>1, <1>2

\* create_name keeps the directory object in its table.
LEMMA NameCreated ==
  ASSUME NEW a, NEW e, NEW dj, InTable(a, e, dj), NEW name, name \notin Dots, NEW d, d = CreateName(dj, name)
  PROVE  InTable(a, e, d) /\ d.fn \notin Dots /\ d.root = dj.root
<1> DEFINE f == IF name \in LongNames THEN <<Base[name], 0>> ELSE name
           b == name \in LongNames
<1>1. d = NameIn(dj, name, f, b)  BY DEF CreateName, NameIn
<1>2. f \notin Dots
  <2>1. name \in LongNames => <<Base[name], 0>> \notin Dots  BY BaseAssumption DEF Dots
  <2> QED  BY <2>1
<1> HIDE DEF f, b
<1>3. DjFields(d) /\ d.sclust = dj.sclust /\ d.fn = f /\ d.root = dj.root
  BY <1>1, NameSet DEF InTable
<1> QED  BY <1>2, <1>3 DEF InTable, OfTable

\* The directory that an entry leads to.
LEMMA TableOfEntry ==
  ASSUME NEW a, NEW H, Picture(a, {}, H), NEW p \in Tables(a) \X (1..PerTable), IsObject(Row(a.rows, p)),
         Row(a.rows, p).isDir, NEW dj, DjFields(dj), dj.sclust = Row(a.rows, p).clust
  PROVE  InTable(a, a.owns[p], dj) /\ a.owns[p] \in a.dirs
<1> DEFINE E == {}
<1>1. p \in Living(a) \ E  BY EntriesKnown DEF E
<1>2. Picture(a, E, H)  OBVIOUS
<1> HIDE DEF E
<1> DEFINE e == a.owns[p]
           f == Row(a.rows, p)
<1>3. Owner(a.chains, a.dirs, f, e, p \in H)  BY <1>1, <1>2, EntriesKnown
<1>4. e \in a.dirs /\ f.clust = HeadOf(e)  BY <1>3 DEF Owner
<1>5. Path(a.fat, e)  BY <1>2, <1>4 DEF Picture, Family
<1>6. e # <<>> /\ HeadOf(e) = e[1]  BY <1>5, PathNotEmpty
<1> QED  BY <1>4, <1>6 DEF InTable, IsTable, OfTable

\* What follow_path leaves of a path that is not empty.
FollowedTo(a, H, r) ==
  /\ Sees(r.v, a, {}, H) /\ r.dj.root = FALSE
  /\ r.res \in {"more", "FR_OK", "FR_NO_FILE", "FR_NO_PATH", "FR_INT_ERR"}
  /\ r.res = "FR_OK" => \E e : HasObject(a, e, r.dj, r.v)
  /\ r.res = "FR_NO_FILE" => \E e : HasName(a, e, r.dj)
\* On the way n segments, which are in S, are left.
WalksOn(a, S, n, l) ==
  l.path \in Seq(S) /\ Len(l.path) = n /\ n > 0 /\ l.dj.root = FALSE /\ \E e : InTable(a, e, l.dj)
WalkState(a, H, S, n, l) == FollowedTo(a, H, l) /\ (l.res = "more" => WalksOn(a, S, n, l))

\* What a round of follow_path returns.
LEMMA WalkingIs ==
  ASSUME NEW r, NEW dj, NEW says, NEW path, NEW m, m = Walking(r, dj, says, path)
  PROVE  m.v = r.v /\ m.dj = dj /\ m.res = says /\ m.path = path
BY DEF Walking

\* A segment has been looked for.
LEMMA WalkedOn ==
  ASSUME NEW a, NEW H, NEW e, NEW dj, HasName(a, e, dj) \/ InTable(a, e, dj), dj.fn \notin Dots, dj.root = FALSE,
         NEW r, FindsIn(a, {}, H, e, dj, r),
         NEW S, NEW n \in Nat, NEW path \in Seq(S), Len(path) = n + 1, NEW m, m = Walk(r, path)
  PROVE  WalkState(a, H, S, n, m)
<1> DEFINE d == r.dj
<1>1. InTable(a, e, dj)  BY DEF HasName
<1>2. SameLoop("find", dj, d) /\ Sees(r.v, a, {}, H)  BY DEF FindsIn
<1>3. InTable(a, e, d) /\ d.root = FALSE /\ d.fn \notin Dots
  BY <1>1, <1>2 DEF SameLoop, InTable, OfTable
<1>4. r.res = "FR_OK" => HasObject(a, e, d, r.v)  BY <1>3 DEF FindsIn, HasObject
<1>5. r.res = "FR_NO_FILE" => HasName(a, e, d)  BY <1>3 DEF FindsIn, HasName
<1>6. r.res \in {"FR_OK", "FR_NO_FILE", "FR_INT_ERR"}  BY DEF FindsIn
<1>7. ASSUME NEW says, NEW left, m = Walking(r, d, says, left), says \in {"FR_NO_PATH", r.res}
      PROVE  WalkState(a, H, S, n, m)
  <2>1. m.v = r.v /\ m.dj = d /\ m.res = says  BY <1>7, WalkingIs
  <2> HIDE DEF d
  <2>2. m.res # "more" /\ (m.res = "FR_OK" => r.res = "FR_OK") /\ (m.res = "FR_NO_FILE" => r.res = "FR_NO_FILE")
    BY <1>6, <1>7, <2>1
  <2>3. m.res \in {"more", "FR_OK", "FR_NO_FILE", "FR_NO_PATH", "FR_INT_ERR"}
    BY <1>6, <1>7, <2>1
  <2> QED  BY <1>2, <1>3, <1>4, <1>5, <2>1, <2>2, <2>3 DEF WalkState, FollowedTo
<1>8. CASE Len(path) = 1
  <2>1. m = Walking(r, d, r.res, <<>>)
    <3>0. \A k : k = 1 => ~(k > 1)  OBVIOUS
    <3>1. ~(Len(path) > 1)  BY <1>8, <3>0, Zenon
    <3>2. ~(Len(path) > 1 /\ r.res = "FR_NO_FILE") /\ ~(Len(path) > 1 /\ r.res = "FR_OK")
      BY <3>1, Zenon
    <3> QED  BY <1>8, <3>2, Zenon DEF Walk
  <2> QED  BY <1>7, <2>1
<1>9. CASE Len(path) > 1 /\ r.res = "FR_NO_FILE"
  <2>1. m = Walking(r, d, "FR_NO_PATH", path)
    <3>1. ~(Len(path) = 1) /\ ~(Len(path) > 1 /\ r.res = "FR_OK")  BY <1>9
    <3> QED  BY <1>9, <3>1, Zenon DEF Walk
  <2> QED  BY <1>7, <2>1
<1>10. CASE Len(path) > 1 /\ r.res = "FR_OK"
  <2> DEFINE f == Entry(r.v, d)
             c == f.clust
             t == Tail(path)
             b == StartsAt(d, c)
  <2>1. m = IF f.isDir THEN Walking(r, [d EXCEPT !.sclust = c], "more", t) ELSE Walking(r, d, "FR_NO_PATH", path)
    <3>1. ~(Len(path) = 1) /\ ~(Len(path) > 1 /\ r.res = "FR_NO_FILE")  BY <1>10
    <3> QED  BY <1>10, <3>1, Zenon DEF Walk
  <2>2. CASE ~f.isDir
    <3>1. m = Walking(r, d, "FR_NO_PATH", path)  BY <2>1, <2>2
    <3> QED  BY <1>7, <3>1
  <2>3. CASE f.isDir
    <3>1. m = Walking(r, b, "more", t)  BY <2>1, <2>3 DEF StartsAt
    <3>2. PICK j : At(e, j, d) /\ InWindow(r.v, a, e, j, d) /\ FoundHere("find", a, e, j, d)
      BY <1>4, <1>10 DEF HasObject, FoundAtEntry
    <3> DEFINE p == PlaceOf(e, j)
    <3>3. f = Row(a.rows, p) /\ IsObject(f)
      <4>1. f = EntryAt(a, e, j) /\ IsObject(EntryAt(a, e, j))  BY <3>2 DEF InWindow, FoundHere
      <4> QED  BY <4>1 DEF EntryAt
    <3>4. p \in Tables(a) \X (1..PerTable)
      <4>1. HasEntry(e, j) /\ IsTable(a.dirs, e)  BY <1>1, <3>2 DEF At, InTable
      <4> QED  BY <1>2, <4>1, PlaceKnown DEF Sees
    <3>5. DjFields(b) /\ b.sclust = c /\ b.root = FALSE  BY <1>3, NameSet DEF InTable
    <3> HIDE DEF p, b, f
    <3>6. InTable(a, a.owns[p], b)
      <4>1. b.sclust = Row(a.rows, p).clust /\ Row(a.rows, p).isDir /\ IsObject(Row(a.rows, p))
        BY <2>3, <3>3, <3>5
      <4>2. Picture(a, {}, H)  BY <1>2 DEF Sees
      <4> QED  BY <3>4, <3>5, <4>1, <4>2, TableOfEntry
    <3>7. t \in Seq(S) /\ Len(t) = n /\ n > 0  BY <1>10
    <3>8. m.v = r.v /\ m.dj = b /\ m.res = "more" /\ m.path = t  BY <3>1 DEF Walking
    <3> HIDE DEF t
    <3> QED  BY <1>2, <3>5, <3>6, <3>7, <3>8 DEF WalkState, FollowedTo, WalksOn
  <2> QED  BY <2>2, <2>3
<1>11. CASE Len(path) > 1 /\ r.res = "FR_INT_ERR"
  <2>1. m = Walking(r, d, r.res, path)
    <3>1. ~(Len(path) = 1) /\ ~(Len(path) > 1 /\ r.res = "FR_NO_FILE") /\ ~(Len(path) > 1 /\ r.res = "FR_OK")
      BY <1>11
    <3> QED  BY <3>1, Zenon DEF Walk
  <2> QED  BY <1>7, <2>1
<1>12. Len(path) = 1 \/ Len(path) > 1  OBVIOUS
<1> QED  BY <1>6, <1>8, <1>9, <1>10, <1>11, <1>12

\* One round of follow_path.
LEMMA WalkGoesOn ==
  ASSUME NEW a, NEW H, NEW S, S \cap Dots = {}, NEW n \in Nat, NEW l, WalkState(a, H, S, n + 1, l), NEW m, m = WalkRound(l)
  PROVE  WalkState(a, H, S, n, m)
<1>1. CASE l.res # "more"
  <2>1. m = l  BY <1>1 DEF WalkRound
  <2> QED  BY <1>1, <2>1 DEF WalkState
<1>2. CASE l.res = "more"
  <2> DEFINE path == l.path
             name == Head(path)
             dj == CreateName(l.dj, name)
             r == DirFind(l.v, dj)
  <2>1. m = Walk(r, path)  BY <1>2 DEF WalkRound
  <2>2. WalksOn(a, S, n + 1, l) /\ Sees(l.v, a, {}, H)  BY <1>2 DEF WalkState, FollowedTo
  <2>3. path \in Seq(S) /\ Len(path) = n + 1 /\ l.dj.root = FALSE  BY <2>2 DEF WalksOn
  <2>4. PICK e : InTable(a, e, l.dj)  BY <2>2 DEF WalksOn
  <2>5. name \in S  BY <2>3
  <2>6. r = DirFind(l.v, dj) /\ dj = CreateName(l.dj, name)  OBVIOUS
  <2> HIDE DEF path, name, dj, r
  <2>7. InTable(a, e, dj) /\ dj.fn \notin Dots /\ dj.root = l.dj.root
    <3> DEFINE d == l.dj
    <3>1. InTable(a, e, d) /\ name \notin Dots /\ dj = CreateName(d, name)  BY <2>4, <2>5, <2>6
    <3> HIDE DEF d
    <3>2. InTable(a, e, dj) /\ dj.fn \notin Dots /\ dj.root = d.root  BY <3>1, NameCreated
    <3> QED  BY <3>2 DEF d
  <2>8. FindsIn(a, {}, H, e, dj, r)
    <3> DEFINE v == l.v
               E == {}
    <3>1. Sees(v, a, E, H) /\ r = DirFind(v, dj)  BY <2>2, <2>6
    <3> HIDE DEF v, E
    <3>2. FindsIn(a, E, H, e, dj, r)  BY <2>7, <3>1, DirFound DEF InTable
    <3> QED  BY <3>2 DEF E
  <2> QED  BY <2>1, <2>3, <2>7, <2>8, WalkedOn
<1> QED  BY <1>1, <1>2

\* follow_path.
PathIs(a, H, path, r) ==
  /\ Sees(r.v, a, {}, H) /\ r.res \in {"FR_OK", "FR_NO_FILE", "FR_NO_PATH", "FR_INT_ERR"}
  /\ path = <<>> => r.dj.root = TRUE /\ r.res # "FR_NO_FILE"
  /\ path # <<>> => FollowedTo(a, H, r)

\* follow_path with an empty path is at the root.
LEMMA EmptyPathFollowed ==
  ASSUME NEW v, NEW a, NEW H, Sees(v, a, {}, H), NEW path, path = <<>>, NEW r, r = FollowPath(v, path)
  PROVE  PathIs(a, H, path, r)
<1> DEFINE dj == RootDir(TRUE)
<1>1. r = DirSdi(v, dj, 0)  BY DEF FollowPath
<1>2. dj.sclust = 0 /\ DjFields(dj) /\ dj.root = TRUE  BY DEF RootDir, DjFields
<1> HIDE DEF dj
<1>3. PICK e : IsTable(a.dirs, e) /\ OfTable(e, dj)  BY <1>2, RootTable DEF Sees
<1> DEFINE z == 0
           E == {}
<1>4. z \in Nat /\ r = DirSdi(v, dj, z) /\ Sees(v, a, E, H)  BY <1>1
<1> HIDE DEF z, E
<1>5. SameDir(dj, r.dj) /\ Sees(r.v, a, E, H) /\ r.res \in {"FR_OK", "FR_INT_ERR"}
  BY <1>2, <1>3, <1>4, DirIsAt
<1>6. r.dj.root = TRUE  BY <1>2, <1>5 DEF SameDir, SameName
<1> QED  BY <1>5, <1>6 DEF PathIs, E

\* follow_path ends in a table of the volume, at an object of it or at none.
LEMMA PathFollowed ==
  ASSUME NEW v, NEW a, NEW H, Sees(v, a, {}, H), NEW path, IsPath(path), NEW r, r = FollowPath(v, path)
  PROVE  PathIs(a, H, path, r)
<1>1. CASE path = <<>>  BY <1>1, EmptyPathFollowed
<1>2. CASE path # <<>>
  <2> DEFINE S == {path[i] : i \in DOMAIN path} \ {Dot, DotDot}
             N == Len(path)
             dj == RootDir(FALSE)
             start == Walking(Ok(v), dj, "more", path)
  <2>1. path \in Seq(S)  BY DEF IsPath
  <2>2. S \cap Dots = {}  BY DEF Dots
  <2> HIDE DEF S
  <2>3. N \in Nat /\ N > 0 /\ N = Len(path)  BY <1>2, <2>1
  <2>4. dj.sclust = 0 /\ DjFields(dj) /\ dj.root = FALSE  BY DEF RootDir, DjFields
  <2>5. start.v = v /\ start.dj = dj /\ start.res = "more" /\ start.path = path
    BY DEF Walking, Ok
  <2>6. r = With(WalkEnd(start, N), WalkEnd(start, N).dj)
    BY <1>2 DEF FollowPath, Follow, WalkEnd
  <2> HIDE DEF N, dj, start
  <2>7. PICK e : IsTable(a.dirs, e) /\ OfTable(e, dj)
    <3> DEFINE E == {}
    <3>1. Picture(a, E, H)  BY DEF Sees
    <3> HIDE DEF E
    <3> QED  BY <2>4, <3>1, RootTable
  <2>8. PICK w : /\ w[0] = start /\ \A n \in 1..N : w[n] = WalkRound(w[n - 1])
                 /\ WalkEnd(start, N) = w[N]
    BY <2>3, WalkLoop
  <2>9. WalkState(a, H, S, N, start)
    <3>1. InTable(a, e, dj)  BY <2>4, <2>7 DEF InTable
    <3> QED  BY <2>1, <2>3, <2>4, <2>5, <3>1 DEF WalkState, FollowedTo, WalksOn
  <2> DEFINE K == {n \in 0..N : WalkState(a, H, S, N - n, w[n])}
  <2>10. 0 \in K
    <3>1. N - 0 = N  BY <2>3
    <3> QED  BY <2>3, <2>8, <2>9, <3>1
  <2>11. \A n \in 0..(N - 1) : n \in K => n + 1 \in K
    <3> SUFFICES ASSUME NEW n \in 0..(N - 1), WalkState(a, H, S, N - n, w[n])
                 PROVE  WalkState(a, H, S, N - (n + 1), w[n + 1])
      BY <2>3
    <3> DEFINE x == w[n]
               y == w[n + 1]
               k == N - (n + 1)
    <3>1. y = WalkRound(x)
      <4>1. n + 1 \in 1..N /\ (n + 1) - 1 = n  BY <2>3
      <4> QED  BY <2>8, <4>1
    <3>2. k \in Nat /\ N - n = k + 1  BY <2>3
    <3> HIDE DEF x, y, k
    <3>3. WalkState(a, H, S, k + 1, x)  BY <3>2 DEF x
    <3>4. WalkState(a, H, S, k, y)  BY <2>2, <3>1, <3>2, <3>3, WalkGoesOn
    <3> QED  BY <3>4 DEF y, k
  <2> HIDE DEF K
  <2>12. N \in K  BY <2>3, <2>10, <2>11, LoopKeeps
  <2> DEFINE m == w[N]
             z == N - N
  <2>13. r.v = m.v /\ r.dj = m.dj /\ r.res = m.res  BY <2>6, <2>8 DEF With
  <2>14. WalkState(a, H, S, z, m)  BY <2>12 DEF K
  <2>15. z = 0  BY <2>3
  <2> HIDE DEF m, z
  <2>16. m.res # "more"  BY <2>14, <2>15 DEF WalkState, WalksOn
  <2> QED  BY <1>2, <2>13, <2>14, <2>16 DEF WalkState, FollowedTo, PathIs
<1> QED  BY <1>1, <1>2

----------------------------------------------------------------------------
(* Files that are open.  K are the objects that are.                       *)

HeldBy(files, K) == {Place(files[o]) : o \in K}
Whole(a, v, files, K) ==
  /\ Sees(v, a, {}, HeldBy(files, K))
  /\ \A o \in K : ObjectFits(a, files[o])
  /\ \A o, q \in K : Place(files[o]) = Place(files[q]) => o = q

\* The files in places other than those of P are what they were.
FilesStay(a, P, b) ==
  \A q \in Living(a) \ P : ~Row(a.rows, q).isDir =>
    q \in Living(b) /\ Row(b.rows, q) = Row(a.rows, q) /\ b.owns[q] = a.owns[q]

\* An open file whose entry was left alone still fits its chain.
LEMMA FitsStill ==
  ASSUME NEW a, NEW b, NEW P, FilesStay(a, P, b), NEW fp, ObjectFits(a, fp), Place(fp) \notin P
  PROVE  ObjectFits(b, fp)
<1> DEFINE q == Place(fp)
<1>1. q \in Living(a) \ P /\ ~Row(a.rows, q).isDir  BY DEF ObjectFits
<1>2. q \in Living(b) /\ Row(b.rows, q) = Row(a.rows, q) /\ b.owns[q] = a.owns[q]
  BY <1>1 DEF FilesStay
<1> HIDE DEF q
<1> QED  BY <1>1, <1>2 DEF ObjectFits, q

\* What a call on a file leaves.
FileMade(a, H, p, b, v, f) ==
  Sees(v, b, {}, H) /\ FilesStay(a, {p}, b) /\ ObjectFits(b, f) /\ Place(f) = p

\* The chain of a file that is open.
LEMMA FileChain ==
  ASSUME NEW v, NEW a, NEW H, Sees(v, a, {}, H), NEW fp, ObjectFits(a, fp)
  PROVE  /\ FileAt(v, Tables(a), a.fat, a.rows, a.owns[Place(fp)]) /\ FileFits(fp, a.owns[Place(fp)])
         /\ Place(fp) \in Living(a) /\ ~Row(a.rows, Place(fp)).isDir
<1> DEFINE p == Place(fp)
           e == a.owns[p]
<1>1. p \in Living(a) /\ ~Row(a.rows, p).isDir /\ FileFits(fp, e)  BY DEF ObjectFits
<1>2. Owner(a.chains, a.dirs, Row(a.rows, p), e, p \in H) /\ Family(a.fat, a.chains) /\ a.dirs \subseteq a.chains
  BY <1>1 DEF Sees, Picture
<1> HIDE DEF p, e
<1>3. e \in (a.chains \ a.dirs) \cup {<<>>}  BY <1>1, <1>2 DEF Owner
<1> DEFINE C == a.chains
           D == a.dirs
           F == a.fat
<1>4. Family(F, C) /\ D \in SUBSET C /\ e \in (C \ D) \cup {<<>>}  BY <1>2, <1>3
<1> HIDE DEF C, D, F
<1>5. Off(TablesOf(D), F, e) /\ Chained(F, e)  BY <1>4, OwnedOff
<1>6. Shows(v, Tables(a), a.fat, a.rows)  BY DEF Sees, Drawn
<1> QED  BY <1>1, <1>5, <1>6 DEF FileAt, Tables, D, F, p, e

\* A call on an open file changes its chain and nothing else of the volume.
LEMMA FileIsMade ==
  ASSUME NEW v, NEW a, NEW H, Sees(v, a, {}, H), NEW fp, ObjectFits(a, fp), NEW p, p = Place(fp), p \in H,
         NEW G, NEW y, NEW w, NEW f, FileDone(Tables(a), a.fat, a.rows, a.owns[p], fp, G, y, w, f)
  PROVE  \E b : FileMade(a, H, p, b, w, f) /\ b.fat = G
<1> DEFINE b == WithFile(a, p, G, y)
           E == {}
<1>1. p \in Living(a) \ E /\ ~Row(a.rows, p).isDir /\ Picture(a, E, H) /\ FileFits(fp, a.owns[p])
  BY FileChain DEF Sees
<1>2. Beside(a.fat, a.owns[p], G, y) /\ Chained(G, y) /\ b = WithFile(a, p, G, y)
  BY DEF FileDone, FileAt
<1> HIDE DEF b, E
<1>3. /\ Picture(b, E, H) /\ Tables(b) = Tables(a) /\ Living(b) = Living(a) /\ b.rows = a.rows /\ b.fat = G
      /\ b.owns[p] = y /\ \A q \in Living(a) : q # p => b.owns[q] = a.owns[q]
  BY <1>1, <1>2, FilePictured
<1>4. Sees(w, b, E, H)
  <2>1. Shows(w, Tables(a), G, a.rows)  BY DEF FileDone, FileAt
  <2> QED  BY <1>3, <2>1 DEF Sees, Drawn
<1>5. FilesStay(a, {p}, b)  BY <1>3 DEF FilesStay
<1>6. Place(f) = p  BY DEF FileDone, SameEntry, Place
<1>7. ObjectFits(b, f)
  <2>1. FileFits(f, y) /\ f.sclust = HeadOf(y) /\ fp.sclust = HeadOf(a.owns[p])
    BY <1>1 DEF FileDone, FileFits, FileOf
  <2>2. ASSUME "FA__WRITTEN" \notin f.flag
        PROVE  Row(b.rows, p).clust = HeadOf(y) /\ Row(b.rows, p).size = f.fsize
    <3>1. f.fsize = fp.fsize /\ f.sclust = fp.sclust /\ "FA__WRITTEN" \notin fp.flag
      BY <2>2 DEF FileDone
    <3>2. Row(a.rows, p).clust = HeadOf(a.owns[p]) /\ Row(a.rows, p).size = fp.fsize
      BY <3>1 DEF ObjectFits
    <3> QED  BY <1>3, <2>1, <3>1, <3>2
  <2> QED  BY <1>1, <1>3, <1>6, <2>1, <2>2 DEF ObjectFits
<1> QED  BY <1>3, <1>4, <1>5, <1>6, <1>7 DEF FileMade, E

\* The calls on a file, but for f_truncate that leaves its buffer behind.
LEMMA FileIsSynced ==
  ASSUME NEW v, NEW a, NEW H, Sees(v, a, {}, H), NEW fp, ObjectFits(a, fp), NEW p, p = Place(fp), p \in H,
         NEW r, r = FSync(v, fp) \/ r = FClose(v, fp)
  PROVE  \E b : FileMade(a, H, p, b, r.v, r.fp) /\ Goes(r) /\ "FA__WRITTEN" \notin r.fp.flag
<1> DEFINE E == {}
<1>1. Drawn(v, a) /\ Picture(a, E, H) /\ Place(fp) \in H \ E  BY DEF Sees
<1> HIDE DEF E
<1>2. Goes(r) /\ Synced(a, E, H, Place(fp), r.v, r.fp)  BY <1>1, FileSynced
<1>3. PICK b : /\ Drawn(r.v, b) /\ Picture(b, E, H) /\ OnlyAt(a, p, b) /\ ObjectFits(b, r.fp)
               /\ Place(r.fp) = p /\ "FA__WRITTEN" \notin r.fp.flag
  BY <1>2 DEF Synced
<1>4. FilesStay(a, {p}, b)
  <2> SUFFICES ASSUME NEW q \in Living(a) \ {p}
               PROVE  q \in Living(b) /\ Row(b.rows, q) = Row(a.rows, q) /\ b.owns[q] = a.owns[q]
    BY DEF FilesStay
  <2>1. q \in Tables(a) \X (1..PerTable)  BY PlacesKnown
  <2> QED  BY <1>3, <2>1 DEF OnlyAt
<1> QED  BY <1>2, <1>3, <1>4 DEF FileMade, Sees, E

\* f_lseek, f_read, f_write and f_truncate on a file that is open.
LEMMA FileMoves ==
  ASSUME NEW v, NEW a, NEW H, Sees(v, a, {}, H), NEW fp, ObjectFits(a, fp), NEW p, p = Place(fp), p \in H
  PROVE  /\ \A to \in Nat : \A r : r = FLseek(v, fp, to) =>
              \E b : /\ FileMade(a, H, p, b, r.v, r.fp)
                     /\ CanWrite(fp) /\ r.fp.fptr < to => FatFull(b.fat)
         /\ \A btw \in Nat : \A d, r : r = FWrite(v, fp, d, btw) =>
              \E b : /\ FileMade(a, H, p, b, r.v, r.fp)
                     /\ Goes(r) /\ r.did < btw => FatFull(b.fat)
         /\ \A size \in Nat : \A r : r = FRead(v, fp, size) => \E b : FileMade(a, H, p, b, r.v, r.fp)
<1> DEFINE e == a.owns[p]
           T == Tables(a)
           F == a.fat
           X == a.rows
<1>1. FileAt(v, T, F, X, e) /\ FileFits(fp, e)  BY FileChain
<1>2. ASSUME NEW G, NEW y, NEW w, NEW f, FileDone(T, F, X, e, fp, G, y, w, f)
      PROVE  \E b : FileMade(a, H, p, b, w, f) /\ b.fat = G
  BY <1>2, FileIsMade
<1> HIDE DEF e, T, F, X
<1>3. ASSUME NEW to \in Nat, NEW r, r = FLseek(v, fp, to)
      PROVE  \E b : /\ FileMade(a, H, p, b, r.v, r.fp)
                    /\ CanWrite(fp) /\ r.fp.fptr < to => FatFull(b.fat)
  <2>1. PICK G, y : /\ FileDone(T, F, X, e, fp, G, y, r.v, r.fp)
                    /\ CanWrite(fp) /\ r.fp.fptr < to => FatFull(G)
    BY <1>1, <1>3, FileSought
  <2>2. PICK b : FileMade(a, H, p, b, r.v, r.fp) /\ b.fat = G  BY <1>2, <2>1
  <2> QED  BY <2>1, <2>2
<1>4. ASSUME NEW btw \in Nat, NEW d, NEW r, r = FWrite(v, fp, d, btw)
      PROVE  \E b : /\ FileMade(a, H, p, b, r.v, r.fp)
                    /\ Goes(r) /\ r.did < btw => FatFull(b.fat)
  <2>1. PICK G, y : /\ FileDone(T, F, X, e, fp, G, y, r.v, r.fp)
                    /\ Goes(r) /\ r.did < btw => FatFull(G)
    BY <1>1, <1>4, WrittenAnyway
  <2>2. PICK b : FileMade(a, H, p, b, r.v, r.fp) /\ b.fat = G  BY <1>2, <2>1
  <2> QED  BY <2>1, <2>2
<1>5. ASSUME NEW size \in Nat, NEW r, r = FRead(v, fp, size)
      PROVE  \E b : FileMade(a, H, p, b, r.v, r.fp)
  <2>1. FileDone(T, F, X, e, fp, F, e, r.v, r.fp)  BY <1>1, <1>5, ReadAnyway
  <2> QED  BY <1>2, <2>1
<1> QED  BY <1>3, <1>4, <1>5

----------------------------------------------------------------------------
(* What an image says to one who follows its chains and tables.            *)

\* A disk has the FAT F.
FatOn(d, F) == \A c \in Clusters : d[FatSector(0, c)][c] = F[c]

\* One cluster more of a chain on the disk.
LEMMA ChainNext ==
  ASSUME NEW d, NEW F, FatOn(d, F), NEW e, Path(F, e), NEW k \in 1..Len(e), NEW ch, ch = Front(e, k),
         NEW m, m = ChainRound(d, ch)
  PROVE  /\ k < Len(e) => m = Front(e, k + 1)
         /\ k = Len(e) => m = ch
<1>1. /\ e \in Seq(Clusters) /\ Len(e) \in Nat
      /\ \A i \in 1..Len(e) : e[i] \in Clusters
      /\ F[e[k]] = IF k < Len(e) THEN e[k + 1] ELSE LastLink
  BY DEF Path
<1>2. ch \in Seq(Clusters) /\ Len(ch) = k /\ ch[Len(ch)] = e[k]  BY <1>1 DEF Front
<1> DEFINE c == e[k]
           n == d[FatSector(0, c)][c]
<1>3. c \in Clusters /\ n = F[c]  BY <1>1 DEF FatOn
<1>4. m = IF n \in Clusters THEN Append(ch, n) ELSE ch  BY <1>2 DEF ChainRound
<1>5. CASE k < Len(e)
  <2>1. n = e[k + 1] /\ n \in Clusters  BY <1>1, <1>3, <1>5
  <2>2. Append(ch, n) = Front(e, k + 1)  BY <1>1, <1>5, <2>1 DEF Front
  <2> QED  BY <1>4, <1>5, <2>1, <2>2
<1>6. CASE k = Len(e)
  <2>1. n = LastLink  BY <1>1, <1>3, <1>6
  <2>2. LastLink \notin Clusters  BY Numbers
  <2> QED  BY <1>4, <1>6, <2>1, <2>2
<1> QED  BY <1>5, <1>6

\* The chain of the disk is the one of the picture.
LEMMA ChainIs ==
  ASSUME NEW d, NEW F, FatOn(d, F), NEW e, Chained(F, e)
  PROVE  Chain(d, HeadOf(e)) = e
<1>1. CASE e = <<>>
  <2>1. HeadOf(e) = 0 /\ 0 \notin Clusters  BY <1>1 DEF HeadOf, Clusters
  <2> QED  BY <1>1, <2>1 DEF Chain
<1>2. CASE e # <<>>
  <2> DEFINE N == NFatEnt - 1
             c == e[1]
             L == Len(e)
             start == <<c>>
  <2>1. Path(F, e) /\ HeadOf(e) = c  BY <1>2 DEF Chained, HeadOf
  <2>2. e \in Seq(Clusters) /\ L \in Nat /\ L > 0 /\ c \in Clusters /\ \A i, j \in 1..Len(e) : e[i] = e[j] => i = j
    BY <2>1 DEF Path
  <2>3. L <= NFatEnt - 2  BY <2>2, PathBounded
  <2>4. N \in Nat /\ L <= N  BY <2>3, Numbers
  <2>5. Chain(d, c) = ChainEnd(start, d, N)  BY <2>2 DEF Chain, ChainEnd
  <2>6. start = Front(e, 1)  BY <2>2 DEF Front
  <2> HIDE DEF N, c, start
  <2>7. PICK w : /\ w[0] = start /\ \A n \in 1..N : w[n] = ChainRound(d, w[n - 1])
                 /\ ChainEnd(start, d, N) = w[N]
    <3>1. PICK w : Collects(w, start, d, N)  BY <2>4, ChainLoop
    <3> QED  BY <3>1, Zenon DEF Collects
  <2> DEFINE S == {n \in 0..N : w[n] = Front(e, IF n < L THEN n + 1 ELSE L)}
  <2>8. 0 \in S
    <3>1. (IF 0 < L THEN 0 + 1 ELSE L) = 1  BY <2>2
    <3> QED  BY <2>4, <2>6, <2>7, <3>1
  <2>9. \A n \in 0..(N - 1) : n \in S => n + 1 \in S
    <3> SUFFICES ASSUME NEW n \in 0..(N - 1), w[n] = Front(e, IF n < L THEN n + 1 ELSE L)
                 PROVE  w[n + 1] = Front(e, IF n + 1 < L THEN (n + 1) + 1 ELSE L)
      BY <2>4
    <3> DEFINE x == w[n]
               y == w[n + 1]
               k == IF n < L THEN n + 1 ELSE L
    <3>1. y = ChainRound(d, x)
      <4>1. n + 1 \in 1..N /\ (n + 1) - 1 = n  BY <2>4
      <4> QED  BY <2>7, <4>1
    <3>2. k \in 1..Len(e) /\ x = Front(e, k)  BY <2>2
    <3> HIDE DEF x, y
    <3>3. (k < Len(e) => y = Front(e, k + 1)) /\ (k = Len(e) => y = x)
      BY <2>1, <3>1, <3>2, ChainNext
    <3>4. CASE n + 1 < L
      <4>1. k = n + 1 /\ k < Len(e)  BY <2>2, <3>4
      <4> QED  BY <3>3, <3>4, <4>1 DEF y
    <3>5. CASE ~(n + 1 < L)
      <4>1. k = L  BY <2>2, <3>5
      <4> QED  BY <3>2, <3>3, <3>5, <4>1 DEF y
    <3> QED  BY <3>4, <3>5
  <2> HIDE DEF S
  <2>10. N \in S  BY <2>4, <2>8, <2>9, LoopKeeps
  <2>11. w[N] = Front(e, L)
    <3>1. (IF N < L THEN N + 1 ELSE L) = L  BY <2>2, <2>4
    <3> QED  BY <2>10, <3>1 DEF S
  <2>12. Front(e, L) = e  BY <2>2 DEF Front
  <2> QED  BY <2>1, <2>5, <2>7, <2>11, <2>12
<1> QED  BY <1>1, <1>2

\* What is seen of a volume, as an image.
LEMMA ShownSeen ==
  ASSUME NEW v, NEW T, NEW F, NEW X, Shows(v, T, F, X)
  PROVE  /\ \A s \in FirstCopy \cup T : ShownDisk(v)[s] = Holding(F, X, s)
         /\ FatOn(ShownDisk(v), F) /\ F \in Fats
<1>1. /\ v.disk = [s \in ImageSectors |-> v.disk[s]] /\ v.dirty \in BOOLEAN
      /\ v.dirty => v.sect \in FirstCopy \cup T
      /\ v.sect \in FirstCopy \cup T /\ ~v.dirty => v.win = v.disk[v.sect]
      /\ T \subseteq MayBeTables
      /\ \A s \in FirstCopy \cup T : Seen(v, s) = Holding(F, X, s)
  BY DEF Shows, Volume
<1>2. FirstCopy \cup T \subseteq ImageSectors  BY <1>1, SectorsApart
<1>3. ASSUME NEW s \in FirstCopy \cup T
      PROVE  ShownDisk(v)[s] = Holding(F, X, s)
  <2>1. Seen(v, s) = Holding(F, X, s) /\ s \in ImageSectors  BY <1>1, <1>2
  <2>2. CASE v.dirty
    <3>1. ShownDisk(v) = [v.disk EXCEPT ![v.sect] = v.win]  BY <2>2 DEF ShownDisk
    <3> QED  BY <1>1, <2>1, <3>1 DEF Seen
  <2>3. CASE ~v.dirty
    <3>1. ShownDisk(v) = v.disk  BY <2>3 DEF ShownDisk
    <3> QED  BY <1>1, <2>1, <2>3, <3>1 DEF Seen
  <2> QED  BY <2>2, <2>3
<1>4. ASSUME NEW c \in Clusters
      PROVE  ShownDisk(v)[FatSector(0, c)][c] = F[c]
  <2>1. FatSector(0, c) \in FirstCopy /\ c \in EntriesOf(FatSector(0, c)[3])
    BY Sectors, Numbers
  <2>2. ShownDisk(v)[FatSector(0, c)] = [x \in EntriesOf(FatSector(0, c)[3]) |-> F[x]]
    BY <1>3, <2>1 DEF Holding
  <2> QED  BY <2>1, <2>2
<1> QED  BY <1>3, <1>4 DEF FatOn, Shows

\* The sectors of a table.
TableSectorsAre(e, S) == Len(S) = RowsOf(e) /\ \A k \in 1..RowsOf(e) : S[k] = SectorAt(e, k - 1)

\* The sectors of a table, read from the disk.
LEMMA SectorsAre ==
  ASSUME NEW v, NEW a, NEW E, NEW H, Sees(v, a, E, H), NEW e, IsTable(a.dirs, e),
         NEW c, c = HeadOf(e) \/ (Fat32 /\ c = 0 /\ HeadOf(e) = 2)
  PROVE  TableSectorsAre(e, SectorsOf(ShownDisk(v), c))
<1> DEFINE d == ShownDisk(v)
           S == SectorsOf(d, c)
<1>1. Picture(a, E, H) /\ Shows(v, Tables(a), a.fat, a.rows)  BY DEF Sees, Drawn
<1>2. FatOn(d, a.fat)  BY <1>1, ShownSeen
<1>3. Chained(a.fat, e) /\ RowsOf(e) \in Nat /\ (e = <<>> => ~Fat32) /\ (e # <<>> => Path(a.fat, e))
  BY <1>1, TableKnown
<1> HIDE DEF d
<1>4. CASE e = <<>>
  <2>1. c = 0 /\ ~Fat32 /\ RowsOf(e) = RootTables  BY <1>3, <1>4 DEF HeadOf, RowsOf
  <2>2. S = [i \in 1..RootTables |-> RootSector(i - 1)]  BY <2>1 DEF SectorsOf
  <2>3. RootTables \in Nat  BY TableAssumption
  <2> HIDE DEF S
  <2>4. Len(S) = RowsOf(e) /\ \A k \in 1..RowsOf(e) : S[k] = RootSector(k - 1)
    BY <2>1, <2>2, <2>3
  <2>5. TableSectorsAre(e, S)  BY <1>4, <2>4 DEF TableSectorsAre, SectorAt
  <2> QED  BY <2>5 DEF S, d
<1>5. CASE e # <<>>
  <2>1. HeadOf(e) = e[1] /\ e[1] \in Clusters  BY <1>3, <1>5, PathNotEmpty
  <2>2. e[1] # 0 /\ (c = 0 => Fat32)  BY <2>1, Numbers
  <2>3. S = LET ch == Chain(d, IF c = 0 THEN 2 ELSE c) IN [i \in 1..Len(ch) |-> DataSector(ch[i])]
    BY <2>2 DEF SectorsOf
  <2>4. (IF c = 0 THEN 2 ELSE c) = HeadOf(e)  BY <2>1, <2>2
  <2>5. Chain(d, HeadOf(e)) = e  BY <1>2, <1>3, ChainIs
  <2>6. S = [i \in 1..Len(e) |-> DataSector(e[i])]  BY <2>3, <2>4, <2>5
  <2>7. Len(e) \in Nat /\ RowsOf(e) = Len(e)  BY <1>3, <1>5 DEF RowsOf
  <2> HIDE DEF S
  <2>8. \A k \in 1..Len(e) : (k - 1) + 1 = k  BY <2>7
  <2>9. Len(S) = Len(e) /\ \A k \in 1..Len(e) : S[k] = DataSector(e[k])  BY <2>6, <2>7
  <2>10. TableSectorsAre(e, S)  BY <1>5, <2>7, <2>8, <2>9 DEF TableSectorsAre, SectorAt
  <2> QED  BY <2>10 DEF S, d
<1> QED  BY <1>4, <1>5

\* An entry in a table before its end.
LEMMA EntriesStart ==
  ASSUME NEW n \in Nat, NEW J, J = [i \in 1..n |-> J[i]], NEW t, t = Entries(J)
  PROVE  \A i \in DOMAIN t : i \in 1..n /\ t[i] = J[i] /\ t[i] # EndOfTable
<1> DEFINE ends == {i \in DOMAIN J : J[i] = EndOfTable}
<1>1. DOMAIN J = 1..n /\ ends \in SUBSET Nat  OBVIOUS
<1>2. t = IF ends = {} THEN J ELSE SubSeq(J, 1, (CHOOSE i \in ends : \A j \in ends : i <= j) - 1)
  BY DEF Entries
<1>3. CASE ends = {}  BY <1>1, <1>2, <1>3
<1>4. CASE ends # {}
  <2> DEFINE m == CHOOSE i \in ends : \A j \in ends : i <= j
  <2>1. \E i \in ends : \A j \in ends : i <= j
    <3> HIDE DEF ends
    <3> QED  BY <1>1, <1>4, LeastOf
  <2>2. m \in ends /\ \A j \in ends : m <= j  BY <2>1
  <2>3. t = SubSeq(J, 1, m - 1)  BY <1>2, <1>4
  <2> HIDE DEF m
  <2>4. m \in 1..n  BY <1>1, <2>2
  <2>5. DOMAIN t = 1..(m - 1) /\ \A i \in 1..(m - 1) : t[i] = J[i]  BY <2>3, <2>4
  <2>6. \A i \in 1..(m - 1) : i \in 1..n /\ i \notin ends
    <3> HIDE DEF ends
    <3> QED  BY <2>2, <2>4
  <2> QED  BY <1>1, <2>5, <2>6
<1> QED  BY <1>3, <1>4

\* The object w of an image is one of a picture.
ObjectOf(a, w) == w.place \in Living(a) /\ Row(a.rows, w.place) = w.e /\ IsObject(w.e) /\ IsEntry(w.e)

\* The entries of one table, read from the disk, are objects of the picture.
LEMMA EntrySetLiving ==
  ASSUME NEW v, NEW a, NEW E, NEW H, Sees(v, a, E, H), NEW e, IsTable(a.dirs, e),
         NEW c, c = HeadOf(e) \/ (Fat32 /\ c = 0 /\ HeadOf(e) = 2), NEW at,
         NEW w \in EntrySet(ShownDisk(v), c, at)
  PROVE  ObjectOf(a, w)
<1> DEFINE d == ShownDisk(v)
           S == SectorsOf(d, c)
           J == Joined(d, S)
           t == Entries(J)
           n == Len(S) * PerTable
<1>1. PICK i \in ObjectsIn(t) : w = [path |-> Append(at, NameAt(t, i)), e |-> t[i], place |-> PlaceIn(S, i)]
  BY DEF EntrySet, EntriesAt
<1>2. w.e = t[i] /\ w.place = PlaceIn(S, i)  BY <1>1
<1>3. Picture(a, E, H) /\ Shows(v, Tables(a), a.fat, a.rows)  BY DEF Sees, Drawn
<1>4. TableSectorsAre(e, S)  BY SectorsAre
<1>5. RowsOf(e) \in Nat /\ Len(S) = RowsOf(e)  BY <1>3, <1>4, TableKnown DEF TableSectorsAre
<1>6. n \in Nat /\ J = [k \in 1..n |-> J[k]]  BY <1>5, TableAssumption DEF Joined
<1>7. \A k \in 1..n : J[k] = AsTable(d[PlaceIn(S, k)[1]])[PlaceIn(S, k)[2]]  BY DEF Joined
<1>8. i \in DOMAIN t /\ t[i] # Deleted /\ ~IsLfn(t[i]) /\ ~IsLabel(t[i]) /\ t[i].sfn \notin {Dot, DotDot}
  BY <1>1 DEF ObjectsIn
<1>9. i \in 1..n /\ t[i] = J[i] /\ t[i] # EndOfTable
  <2> HIDE DEF J, n
  <2> QED  BY <1>6, <1>8, EntriesStart
<1> HIDE DEF t, J
<1> DEFINE k == i - 1
<1>10. HasEntry(e, k) /\ k \in Nat  BY <1>5, <1>6, <1>9 DEF HasEntry
<1>11. PlaceIn(S, i) = PlaceOf(e, k)
  <2>1. k \div PerTable \in 0..(RowsOf(e) - 1) /\ k % PerTable \in Int
    BY <1>3, <1>10, PlaceKnown, TableAssumption
  <2> DEFINE x == k \div PerTable
  <2>2. PlaceIn(S, i) = <<S[x + 1], (k % PerTable) + 1>>  BY DEF PlaceIn
  <2>3. x \in 0..(RowsOf(e) - 1)  BY <2>1
  <2> HIDE DEF x, S, k
  <2>4. x + 1 \in 1..RowsOf(e) /\ (x + 1) - 1 = x  BY <1>5, <2>3
  <2>5. S[x + 1] = SectorAt(e, x)  BY <1>4, <2>4 DEF TableSectorsAre
  <2> QED  BY <2>2, <2>5 DEF PlaceOf, x
<1> DEFINE p == PlaceOf(e, k)
<1> HIDE DEF k
<1>12. p \in Tables(a) \X (1..PerTable) /\ IsEntry(EntryAt(a, e, k)) /\ (p \in Living(a) <=> IsObject(EntryAt(a, e, k)))
  BY <1>3, <1>10, PlaceKnown
<1> HIDE DEF S, p
<1>13. EntryAt(a, e, k) = Row(a.rows, p)  BY DEF EntryAt, p
<1>14. t[i] = Row(a.rows, p)
  <2>1. t[i] = AsTable(d[p[1]])[p[2]]  BY <1>7, <1>9, <1>11 DEF p
  <2>2. p[1] \in Tables(a)  BY <1>12
  <2>3. d[p[1]] = a.rows[p[1]]
    <3>1. d[p[1]] = Holding(a.fat, a.rows, p[1])  BY <1>3, <2>2, ShownSeen
    <3>2. p[1] \notin FirstCopy  BY <1>3, <2>2, SectorsApart DEF Shows
    <3> QED  BY <3>1, <3>2 DEF Holding
  <2>4. DOMAIN a.rows[p[1]] = 1..PerTable  BY <1>3, <2>2 DEF Picture, HoldEntries
  <2> QED  BY <2>1, <2>3, <2>4 DEF AsTable, Row
<1> DEFINE f == t[i]
<1>15. IsEntry(f) /\ f # EndOfTable /\ f # Deleted /\ ~IsLfn(f) /\ ~IsLabel(f) /\ f.sfn \notin {Dot, DotDot}
  BY <1>8, <1>9, <1>12, <1>13, <1>14
<1> HIDE DEF f
<1>16. IsObject(f)
  <2>1. ~Blank(f)  BY <1>15 DEF Blank
  <2> QED  BY <1>15, <2>1, ObjectEntry
<1> QED  BY <1>2, <1>11, <1>12, <1>13, <1>14, <1>15, <1>16 DEF ObjectOf, p, f

\* So are those of every table that can be reached.
LEMMA EntriesLiving ==
  ASSUME NEW v, NEW a, NEW H, Sees(v, a, {}, H), NEW w \in AllEntries(ShownDisk(v))
  PROVE  ObjectOf(a, w)
<1> DEFINE d == ShownDisk(v)
           E == {}
           top == EntrySet(d, 0, <<>>)
<1>1. Sees(v, a, E, H) /\ Picture(a, E, H)  BY DEF Sees
<1>2. \A x \in top : ObjectOf(a, x)
  <2> DEFINE z == 0
             at == <<>>
  <2>1. PICK e : IsTable(a.dirs, e) /\ (z = HeadOf(e) \/ (Fat32 /\ z = 0 /\ HeadOf(e) = 2))
    <3>1. CASE Fat32
      <4>1. PICK e \in a.dirs : e[1] = 2  BY <1>1, <3>1 DEF Picture
      <4>2. e # <<>>  BY <1>1, <4>1, PathNotEmpty DEF Picture, Family
      <4> QED  BY <3>1, <4>1, <4>2 DEF IsTable, HeadOf
    <3>2. CASE ~Fat32
      <4>1. IsTable(a.dirs, <<>>) /\ HeadOf(<<>>) = 0  BY <3>2 DEF IsTable, HeadOf
      <4> QED  BY <4>1
    <3> QED  BY <3>1, <3>2
  <2>2. \A x \in top : x \in EntrySet(d, z, at)  OBVIOUS
  <2> HIDE DEF z, at, top, E
  <2> QED  BY <1>1, <2>1, <2>2, EntrySetLiving
<1>3. ASSUME NEW x \in top, x.e.isDir, w \in EntrySet(d, x.e.clust, x.path)
      PROVE  ObjectOf(a, w)
  <2>1. ObjectOf(a, x)  BY <1>2
  <2> DEFINE p == x.place
             e == a.owns[p]
             c == x.e.clust
             at == x.path
  <2>2. p \in Living(a) \ E /\ Row(a.rows, p).isDir /\ c = Row(a.rows, p).clust
    BY <1>3, <2>1 DEF ObjectOf
  <2>3. Owner(a.chains, a.dirs, Row(a.rows, p), e, p \in H)  BY <1>1, <2>2 DEF Picture
  <2>4. e \in a.dirs /\ c = HeadOf(e)  BY <2>2, <2>3 DEF Owner
  <2>5. IsTable(a.dirs, e) /\ w \in EntrySet(d, c, at)  BY <1>3, <2>4 DEF IsTable
  <2> HIDE DEF p, e, c, at, E, top
  <2> QED  BY <1>1, <2>4, <2>5, EntrySetLiving
<1>4. w \in top \/ \E x \in top : x.e.isDir /\ w \in EntrySet(d, x.e.clust, x.path)
  BY DEF AllEntries
<1> QED  BY <1>2, <1>3, <1>4

----------------------------------------------------------------------------
(* The images there are before the first call.                             *)

\* A chain, even one that does not end, begins where it should.
LEMMA ChainStarts ==
  ASSUME NEW d, NEW c \in Clusters
  PROVE  Chain(d, c) \in Seq(Clusters) /\ Len(Chain(d, c)) > 0 /\ Chain(d, c)[1] = c
<1> DEFINE N == NFatEnt - 1
           start == <<c>>
<1>1. N \in Nat  BY Numbers
<1>2. Chain(d, c) = ChainEnd(start, d, N)  BY DEF Chain, ChainEnd
<1>3. start \in Seq(Clusters) /\ Len(start) > 0 /\ start[1] = c  OBVIOUS
<1> HIDE DEF N, start
<1>4. PICK w : /\ w[0] = start /\ \A n \in 1..N : w[n] = ChainRound(d, w[n - 1])
               /\ ChainEnd(start, d, N) = w[N]
  <2>1. PICK w : Collects(w, start, d, N)  BY <1>1, ChainLoop
  <2> QED  BY <2>1, Zenon DEF Collects
<1> DEFINE S == {n \in 0..N : w[n] \in Seq(Clusters) /\ Len(w[n]) > 0 /\ w[n][1] = c}
<1>5. 0 \in S  BY <1>1, <1>3, <1>4
<1>6. \A n \in 0..(N - 1) : n \in S => n + 1 \in S
  <2> SUFFICES ASSUME NEW n \in 0..(N - 1), w[n] \in Seq(Clusters), Len(w[n]) > 0, w[n][1] = c
               PROVE  w[n + 1] \in Seq(Clusters) /\ Len(w[n + 1]) > 0 /\ w[n + 1][1] = c
    BY <1>1
  <2> DEFINE x == w[n]
             y == w[n + 1]
             next == d[FatSector(0, x[Len(x)])][x[Len(x)]]
  <2>1. y = ChainRound(d, x)
    <3>1. n + 1 \in 1..N /\ (n + 1) - 1 = n  BY <1>1
    <3> QED  BY <1>4, <3>1
  <2>2. x \in Seq(Clusters) /\ Len(x) > 0 /\ x[1] = c  OBVIOUS
  <2>3. y = IF next \in Clusters THEN Append(x, next) ELSE x  BY <2>1 DEF ChainRound
  <2> HIDE DEF x, y, next
  <2>4. y \in Seq(Clusters) /\ Len(y) > 0 /\ y[1] = c  BY <2>2, <2>3
  <2> QED  BY <2>4 DEF y
<1> HIDE DEF S
<1>7. N \in S  BY <1>1, <1>5, <1>6, LoopKeeps
<1> QED  BY <1>2, <1>4, <1>7 DEF S

\* The picture of an image with chains that begin at heads, those of tables at tables.
FatOf(d) == [c \in FatEntries |-> d[FatSector(0, c)][c]]
FirstPicture(d, heads, tables) ==
  LET T == TablesFrom(d, tables)
  IN  [fat |-> FatOf(d), rows |-> [s \in T |-> d[s]], chains |-> {Chain(d, h) : h \in heads},
       dirs |-> {Chain(d, h) : h \in tables}, owns |-> [p \in PlacesIn(d, T) |-> Chain(d, d[p[1]][p[2]].clust)]]

\* The chains of the first disk.
LEMMA ChainsPictured ==
  ASSUME NEW d, NEW heads \in SUBSET Clusters, ChainsAre(d, heads)
  PROVE  /\ FatOn(d, FatOf(d)) /\ Family(FatOf(d), {Chain(d, h) : h \in heads})
         /\ \A h \in heads : Path(FatOf(d), Chain(d, h)) /\ HeadOf(Chain(d, h)) = h /\ ClustersFrom(d, h) = Cells(Chain(d, h))
<1> DEFINE F == FatOf(d)
<1>1. FatOn(d, F)  BY Numbers DEF FatOn, FatOf
<1>2. ASSUME NEW h \in heads
      PROVE  Path(F, Chain(d, h)) /\ HeadOf(Chain(d, h)) = h /\ ClustersFrom(d, h) = Cells(Chain(d, h))
  <2> DEFINE e == Chain(d, h)
  <2>1. e \in Seq(Clusters) /\ Len(e) > 0 /\ e[1] = h  BY ChainStarts
  <2>2. IsChain(d, e)  BY DEF ChainsAre
  <2>3. ClustersFrom(d, h) = Cells(e)  BY DEF ClustersFrom, Cells
  <2> HIDE DEF e, F
  <2>4. e # <<>> /\ HeadOf(e) = h  BY <2>1 DEF HeadOf
  <2>5. \A i \in 1..Len(e) : e[i] \in Clusters /\ F[e[i]] = d[FatSector(0, e[i])][e[i]]
    BY <1>1, <2>1 DEF FatOn
  <2>6. DOMAIN e = 1..Len(e)  BY <2>1
  <2>7. Path(F, e)  BY <2>1, <2>2, <2>5, <2>6 DEF IsChain, Path
  <2> QED  BY <2>3, <2>4, <2>7 DEF e
<1>3. Family(F, {Chain(d, h) : h \in heads})
  <2> HIDE DEF F
  <2>1. ASSUME NEW h \in heads, NEW g \in heads, Chain(d, h) # Chain(d, g)
        PROVE  Cells(Chain(d, h)) \cap Cells(Chain(d, g)) = {}
    <3>1. h # g  BY <2>1
    <3> QED  BY <1>2, <3>1 DEF ChainsAre
  <2> QED  BY <1>2, <2>1 DEF Family
<1> QED  BY <1>1, <1>2, <1>3

\* The tables of the first disk.
LEMMA FirstTables ==
  ASSUME NEW d, NEW heads \in SUBSET Clusters, ChainsAre(d, heads), NEW tables \in SUBSET heads,
         NEW a, a = FirstPicture(d, heads, tables)
  PROVE  /\ Tables(a) = TablesFrom(d, tables) /\ Living(a) = PlacesIn(d, Tables(a))
         /\ a.rows = [s \in Tables(a) |-> d[s]] /\ \A p \in Living(a) : a.owns[p] = Chain(d, Row(a.rows, p).clust)
         /\ a.fat = FatOf(d) /\ a.chains = {Chain(d, h) : h \in heads} /\ a.dirs = {Chain(d, h) : h \in tables}
<1> DEFINE T == TablesFrom(d, tables)
<1>1. /\ a.fat = FatOf(d) /\ a.rows = [s \in T |-> d[s]] /\ a.chains = {Chain(d, h) : h \in heads}
      /\ a.dirs = {Chain(d, h) : h \in tables} /\ a.owns = [p \in PlacesIn(d, T) |-> Chain(d, d[p[1]][p[2]].clust)]
  BY DEF FirstPicture
<1>2. \A h \in tables : ClustersFrom(d, h) = Cells(Chain(d, h))  BY ChainsPictured
<1>3. UNION {Cells(e) : e \in a.dirs} = UNION {ClustersFrom(d, h) : h \in tables}  BY <1>1, <1>2
<1>4. Tables(a) = T  BY <1>3, Zenon DEF Tables, TablesOf, TablesFrom, RootSectors
<1> HIDE DEF T
<1>5. \A p \in T \X (1..PerTable) : Row(a.rows, p) = d[p[1]][p[2]]  BY <1>1 DEF Row
<1>6. Living(a) = PlacesIn(d, T)  BY <1>4, <1>5 DEF Living, Live, PlacesIn
<1>7. \A p \in Living(a) : p \in T \X (1..PerTable)  BY <1>6 DEF PlacesIn
<1>8. \A p \in Living(a) : a.owns[p] = Chain(d, Row(a.rows, p).clust)
  <2> SUFFICES ASSUME NEW p \in Living(a) PROVE a.owns[p] = Chain(d, Row(a.rows, p).clust)
    OBVIOUS
  <2>1. a.owns[p] = Chain(d, d[p[1]][p[2]].clust)  BY <1>1, <1>6
  <2> QED  BY <1>5, <1>7, <2>1
<1> QED  BY <1>1, <1>4, <1>6, <1>8 DEF T

\* The first disk has a picture: no two chains share a cluster, and every
\* object has its own.
LEMMA FirstPictured ==
  ASSUME NEW d, NEW heads \in SUBSET Clusters, NEW tables \in SUBSET heads, Fat32 => 2 \in tables,
         ChainsAre(d, heads), TablesAre(d, heads, tables), NEW a, a = FirstPicture(d, heads, tables)
  PROVE  Picture(a, {}, {})
<1> DEFINE T == Tables(a)
           F == a.fat
           C == a.chains
           D == a.dirs
<1>1. /\ T = TablesFrom(d, tables) /\ Living(a) = PlacesIn(d, T)
      /\ a.rows = [s \in T |-> d[s]] /\ \A p \in Living(a) : a.owns[p] = Chain(d, Row(a.rows, p).clust)
      /\ F = FatOf(d) /\ C = {Chain(d, h) : h \in heads} /\ D = {Chain(d, h) : h \in tables}
  BY FirstTables
<1> HIDE DEF T, F, C, D
<1>2. Family(F, C) /\ D \subseteq C  BY <1>1, ChainsPictured
<1>3. \A h \in heads : Path(F, Chain(d, h)) /\ HeadOf(Chain(d, h)) = h  BY <1>1, ChainsPictured
<1>4. Fat32 => \E e \in D : e[1] = 2
  <2> SUFFICES ASSUME Fat32 PROVE \E e \in D : e[1] = 2
    OBVIOUS
  <2>1. 2 \in tables /\ 2 \in Clusters  OBVIOUS
  <2>2. Chain(d, 2)[1] = 2  BY <2>1, ChainStarts
  <2> QED  BY <1>1, <2>1, <2>2
<1>5. /\ \A s \in T : DOMAIN d[s] = 1..PerTable /\ \A i \in 1..PerTable : IsEntry(d[s][i])
      /\ \A p \in Living(a) : Owns(d, d[p[1]][p[2]], heads, tables)
      /\ \A p, q \in Living(a) : p # q /\ d[p[1]][p[2]].clust = d[q[1]][q[2]].clust => d[p[1]][p[2]].clust = 0
  BY <1>1 DEF TablesAre
<1>6. HoldEntries(T, a.rows)  BY <1>1, <1>5 DEF HoldEntries
<1>7. \A p \in Living(a) : p[1] \in T /\ Row(a.rows, p) = d[p[1]][p[2]]
  <2>1. \A p \in Living(a) : p \in T \X (1..PerTable)  BY <1>1 DEF PlacesIn
  <2> QED  BY <1>1, <2>1 DEF Row
<1>8. \A h \in Clusters : h # 0  BY Numbers
<1>9. Chain(d, 0) = <<>> /\ HeadOf(<<>>) = 0 /\ Len(<<>>) = 0
  <2>1. 0 \notin Clusters  BY <1>8
  <2> QED  BY <2>1 DEF Chain, HeadOf
<1>10. ASSUME NEW p \in Living(a)
       PROVE  Owner(C, D, Row(a.rows, p), a.owns[p], FALSE) /\ (a.owns[p] = <<>> => Row(a.rows, p).clust = 0)
  <2> DEFINE e == Row(a.rows, p)
             x == a.owns[p]
             c == e.clust
  <2>1. x = Chain(d, c) /\ Owns(d, e, heads, tables)  BY <1>1, <1>5, <1>7
  <2> HIDE DEF e, x
  <2>2. ASSUME c \in heads
        PROVE  HeadOf(x) = c /\ x # <<>> /\ x \in C
    <3>1. Path(F, x) /\ HeadOf(x) = c  BY <1>3, <2>1, <2>2
    <3> QED  BY <1>1, <2>1, <2>2, <3>1, PathNotEmpty
  <2>3. CASE e.isDir
    <3>1. c \in tables /\ (Fat32 => c # 2)  BY <2>1, <2>3 DEF Owns
    <3>2. x \in D  BY <1>1, <2>1, <3>1
    <3> QED  BY <2>2, <2>3, <3>1, <3>2 DEF Owner, e, x
  <2>4. CASE ~e.isDir
    <3>1. c \in {0} \cup (heads \ tables) /\ Len(Chain(d, c)) = SectorsFor(e.size)
      BY <2>1, <2>4 DEF Owns, Fits
    <3>2. CASE c = 0
      <4>1. x = <<>> /\ HeadOf(x) = c  BY <1>9, <2>1, <3>2
      <4> QED  BY <2>1, <2>4, <3>1, <3>2, <4>1 DEF Owner, e, x
    <3>3. CASE c \in heads \ tables
      <4>1. x \notin D
        <5> SUFFICES ASSUME NEW g \in tables, x = Chain(d, g) PROVE FALSE
          BY <1>1
        <5>1. HeadOf(x) = g  BY <1>3
        <5> QED  BY <2>2, <3>3, <5>1
      <4>2. x \in C /\ HeadOf(x) = c /\ x # <<>>  BY <2>2, <3>3
      <4> QED  BY <2>1, <2>4, <3>1, <4>1, <4>2 DEF Owner, e, x
    <3> QED  BY <3>1, <3>2, <3>3
  <2> QED  BY <2>3, <2>4
<1>11. ASSUME NEW p \in Living(a), NEW q \in Living(a), a.owns[p] = a.owns[q], a.owns[p] # <<>>
       PROVE  p = q
  <2>1. \A z \in Living(a) : a.owns[z] # <<>> => HeadOf(a.owns[z]) = Row(a.rows, z).clust /\ HeadOf(a.owns[z]) # 0
    <3> SUFFICES ASSUME NEW z \in Living(a), a.owns[z] # <<>>
                 PROVE  HeadOf(a.owns[z]) = Row(a.rows, z).clust /\ HeadOf(a.owns[z]) # 0
      OBVIOUS
    <3>1. Owner(C, D, Row(a.rows, z), a.owns[z], FALSE)  BY <1>10
    <3>2. HeadOf(a.owns[z]) = Row(a.rows, z).clust /\ a.owns[z] \in C  BY <1>2, <3>1 DEF Owner
    <3>3. Path(F, a.owns[z])  BY <1>2, <3>2 DEF Family
    <3> QED  BY <1>8, <3>2, <3>3, PathNotEmpty
  <2>2. Row(a.rows, p).clust = Row(a.rows, q).clust /\ Row(a.rows, p).clust # 0  BY <1>11, <2>1
  <2> QED  BY <1>5, <1>7, <2>2
<1>12. \A p \in Living(a) \ {} : Owner(C, D, Row(a.rows, p), a.owns[p], p \in {})
  <2> SUFFICES ASSUME NEW p \in Living(a) PROVE Owner(C, D, Row(a.rows, p), a.owns[p], p \in {})
    OBVIOUS
  <2>1. Owner(C, D, Row(a.rows, p), a.owns[p], FALSE)  BY <1>10
  <2> QED  BY <2>1 DEF Owner
<1>13. \A p, q \in Living(a) \ {} : a.owns[p] = a.owns[q] /\ a.owns[p] # <<>> => p = q  BY <1>11
<1> QED  BY <1>2, <1>4, <1>6, <1>12, <1>13 DEF Picture, T, F, C, D

\* A volume between two calls, as the next one meets it.
Meets(v) == [v EXCEPT !.fault = Tracing]
Faulted(v, f) == [v EXCEPT !.fault = f]

\* A volume told which access fails.
LEMMA MeetsAgain ==
  ASSUME NEW v, HasFields(v), NEW f, NEW u, u = Faulted(v, f)
  PROVE  HasFields(u) /\ u.disk = v.disk /\ u.win = v.win /\ u.sect = v.sect /\ u.dirty = v.dirty /\ u.fault = f
BY DEF HasFields, Faulted

\* A volume told that none does.
LEMMA MeetsSame ==
  ASSUME NEW v, NEW T, NEW F, NEW X, Shows(v, T, F, X), NEW u, u = Faulted(v, NoFault)
  PROVE  Shows(Meets(u), T, F, X) /\ ShownDisk(u) = ShownDisk(v) /\ ShownDisk(Meets(u)) = ShownDisk(v)
<1> DEFINE w == Meets(u)
<1>1. HasFields(v)  BY DEF Shows, Volume
<1>2. HasFields(u) /\ u.disk = v.disk /\ u.win = v.win /\ u.sect = v.sect /\ u.dirty = v.dirty
  BY <1>1, MeetsAgain
<1>3. HasFields(w) /\ w.disk = u.disk /\ w.win = u.win /\ w.sect = u.sect /\ w.dirty = u.dirty /\ w.fault = Tracing
  <2> DEFINE f == Tracing
  <2>1. w = Faulted(u, f)  BY DEF Meets, Faulted
  <2> HIDE DEF w, f
  <2>2. HasFields(w) /\ w.disk = u.disk /\ w.win = u.win /\ w.sect = u.sect /\ w.dirty = u.dirty /\ w.fault = f
    BY <1>2, <2>1, MeetsAgain
  <2> QED  BY <2>2 DEF f
<1>4. IsTrace(Tracing)  BY DEF IsTrace, Tracing
<1> HIDE DEF w
<1>5. Volume(w, T)  BY <1>2, <1>3, <1>4 DEF Shows, Volume
<1>6. \A s : Seen(w, s) = Seen(v, s)  BY <1>2, <1>3 DEF Seen
<1>7. Shows(w, T, F, X)  BY <1>5, <1>6 DEF Shows
<1> QED  BY <1>2, <1>3, <1>7 DEF ShownDisk, w

\* A volume that has just been mounted.
LEMMA FirstMet ==
  ASSUME NEW d, WellFormed(d)
  PROVE  \E a : Sees(Meets(Mounted(d)), a, {}, {})
<1>1. PICK heads \in SUBSET Clusters : \E tables \in SUBSET heads :
        (Fat32 => 2 \in tables) /\ ChainsAre(d, heads) /\ TablesAre(d, heads, tables)
  BY DEF WellFormed
<1>2. PICK tables \in SUBSET heads : (Fat32 => 2 \in tables) /\ ChainsAre(d, heads) /\ TablesAre(d, heads, tables)
  BY <1>1
<1> DEFINE a == FirstPicture(d, heads, tables)
           v == Mounted(d)
           w == Meets(v)
           T == Tables(a)
           F == FatOf(d)
<1>3. Picture(a, {}, {})  BY <1>2, FirstPictured
<1>4. a.rows = [s \in T |-> d[s]] /\ a.fat = F  BY <1>2, FirstTables
<1>5. HasFields(v) /\ v.disk = d /\ v.win = NoSector /\ v.sect = NoSector /\ v.dirty = FALSE
  BY DEF Mounted, HasFields
<1>6. HasFields(w) /\ w.disk = d /\ w.sect = NoSector /\ w.dirty = FALSE /\ w.fault = Tracing
  BY <1>5, MeetsAgain DEF Meets, Faulted
<1>7. IsTrace(Tracing)  BY DEF IsTrace, Tracing
<1>8. \A e \in a.dirs : Path(a.fat, e)  BY <1>3 DEF Picture, Family
<1> HIDE DEF a, v, w
<1>9. T \subseteq MayBeTables
  <2>1. \A e \in a.dirs : Cells(e) \subseteq Clusters  BY <1>8, ChainKind DEF Chained
  <2>2. \A s \in T : s \in RootSectors \/ \E e \in a.dirs : \E c \in Cells(e) : s = DataSector(c)
    BY TablesKnown DEF Tables
  <2> HIDE DEF T
  <2> QED  BY <2>1, <2>2 DEF MayBeTables, DataSectors
<1> HIDE DEF T, F
<1>10. d = [s \in ImageSectors |-> d[s]] /\ (\A s \in FatSectors : d[s] \in [EntriesOf(s[3]) -> Link])
       /\ \A c \in Clusters : d[FatSector(0, c)][c] # 1
  BY DEF WellFormed, Link
<1>11. NoSector \notin FirstCopy \cup T  BY <1>9, SectorsApart
<1>12. Volume(w, T)  BY <1>6, <1>7, <1>10, <1>11 DEF Volume
<1>13. F \in Fats
  <2>1. ASSUME NEW c \in FatEntries
        PROVE  d[FatSector(0, c)][c] \in Link
    <3>1. FatSector(0, c) \in FatSectors /\ c \in EntriesOf(FatSector(0, c)[3])  BY Sectors
    <3> QED  BY <1>10, <3>1
  <2> QED  BY <2>1 DEF F, FatOf, Fats
<1>14. \A c \in Clusters : F[c] # 1  BY <1>10, Numbers DEF F, FatOf
<1>15. \A s \in FirstCopy \cup T : d[s] = Holding(F, a.rows, s)
  <2>1. ASSUME NEW s \in FirstCopy
        PROVE  d[s] = [c \in EntriesOf(s[3]) |-> F[c]]
    <3>1. s \in FatSectors /\ \A c \in EntriesOf(s[3]) : c \in FatEntries /\ FatSector(0, c) = s
      BY Sectors
    <3>2. d[s] \in [EntriesOf(s[3]) -> Link]  BY <1>10, <3>1
    <3>3. \A c \in EntriesOf(s[3]) : F[c] = d[s][c]  BY <3>1 DEF F, FatOf
    <3> QED  BY <3>2, <3>3
  <2>2. ASSUME NEW s \in T
        PROVE  s \notin FirstCopy /\ d[s] = a.rows[s]
    BY <1>4, <1>9, SectorsApart
  <2> QED  BY <2>1, <2>2 DEF Holding
<1>16. \A s \in FirstCopy \cup T : Seen(w, s) = d[s]  BY <1>6, <1>11 DEF Seen
<1>17. Shows(w, T, F, a.rows)  BY <1>4, <1>9, <1>12, <1>13, <1>14, <1>15, <1>16 DEF Shows
<1>18. Sees(w, a, {}, {})  BY <1>3, <1>4, <1>17 DEF Sees, Drawn, T
<1> QED  BY <1>18 DEF w, v

----------------------------------------------------------------------------
(* The session between two calls.                                          *)

OpenIn(op) == {o \in Objects : op[o] # NotOpen}
AtRest(v, files, op) ==
  /\ HasFields(v) /\ files = [o \in Objects |-> files[o]] /\ op \in [Objects -> Openings \cup {NotOpen}]
  /\ \E a : Whole(a, Meets(v), files, OpenIn(op))
SessionSound == Sound => AtRest(vol, fil, open)

\* Between calls the disk that a mount would see is the one of the picture.
LEMMA RestShown ==
  ASSUME NEW v, HasFields(v), NEW a, NEW files, NEW K, Whole(a, Meets(v), files, K)
  PROVE  FatOn(ShownDisk(v), a.fat) /\ ShownDisk(Meets(v)) = ShownDisk(v) /\ Picture(a, {}, HeldBy(files, K))
<1> DEFINE w == Meets(v)
           f == Tracing
<1>1. w = Faulted(v, f)  BY DEF Meets, Faulted
<1>2. Shows(w, Tables(a), a.fat, a.rows) /\ Picture(a, {}, HeldBy(files, K))
  BY DEF Whole, Sees, Drawn
<1> HIDE DEF w, f
<1>3. w.disk = v.disk /\ w.win = v.win /\ w.sect = v.sect /\ w.dirty = v.dirty
  BY <1>1, MeetsAgain
<1>4. ShownDisk(w) = ShownDisk(v)  BY <1>3 DEF ShownDisk
<1>5. FatOn(ShownDisk(w), a.fat)  BY <1>2, ShownSeen
<1> QED  BY <1>2, <1>4, <1>5 DEF w

\* A chain as an image shows it.
LEMMA FitsChain ==
  ASSUME NEW d, NEW F, FatOn(d, F), NEW e, Chained(F, e), NEW n \in Nat, Len(e) = SectorsFor(n)
  PROVE  Fits(d, HeadOf(e), n)
<1>1. Chain(d, HeadOf(e)) = e  BY ChainIs
<1>2. SectorsFor(n) = 0 <=> n = 0  BY MoreSectors
<1>3. Len(e) = 0 <=> HeadOf(e) = 0
  <2>1. /\ Len(e) \in Nat /\ (Len(e) = 0 => HeadOf(e) = 0)
        /\ (Len(e) > 0 => HeadOf(e) = e[1] /\ e[1] \in Clusters)
    BY ChainKind
  <2>2. \A c \in Clusters : c # 0  BY Numbers
  <2> QED  BY <2>1, <2>2
<1> QED  BY <1>1, <1>2, <1>3 DEF Fits

\* Between calls an open file is at a cluster of its chain.
LEMMA RestPositions ==
  ASSUME NEW v, NEW files, NEW op, AtRest(v, files, op), NEW o \in OpenIn(op), NEW fp, fp = files[o], fp.fptr > 0
  PROVE  ClusterBefore(fp, Chain(ShownDisk(v), fp.sclust)) /\ (~AtBoundary(fp) => fp.dsect = DataSector(fp.clust))
<1>1. PICK a : Whole(a, Meets(v), files, OpenIn(op))  BY DEF AtRest
<1> DEFINE d == ShownDisk(v)
           e == a.owns[Place(fp)]
           H == HeldBy(files, OpenIn(op))
<1>2. FatOn(d, a.fat)  BY <1>1, RestShown DEF AtRest
<1>3. Sees(Meets(v), a, {}, H) /\ ObjectFits(a, fp)  BY <1>1 DEF Whole
<1>4. FileFits(fp, e) /\ Chained(a.fat, e)  BY <1>3, FileChain DEF FileAt
<1> HIDE DEF d, e, H
<1>5. fp.sclust = HeadOf(e) /\ fp.fptr \in Nat /\ PosOf(fp, e)  BY <1>4 DEF FileFits, FileOf
<1>6. Chain(d, fp.sclust) = e  BY <1>2, <1>4, <1>5, ChainIs
<1>7. SectorsFor(fp.fptr) \in 1..Len(e) /\ fp.clust = e[SectorsFor(fp.fptr)]
      /\ (fp.fptr % UnitsPerSector # 0 => fp.dsect = DataSector(fp.clust))
  BY <1>5 DEF PosOf
<1>8. SectorsFor(fp.fptr) = ClusterOf(fp.fptr) + 1  BY <1>5, EndsSomewhere
<1>9. e \in Seq(Clusters)  BY <1>4, ChainKind
<1>10. DOMAIN e = 1..Len(e)  BY <1>9
<1> QED  BY <1>6, <1>7, <1>8, <1>10 DEF ClusterBefore, AtBoundary, d

\* Between calls every chain is as long as its size needs.
LEMMA RestFits ==
  ASSUME NEW v, NEW files, NEW op, AtRest(v, files, op)
  PROVE  /\ \A o \in OpenIn(op) : Fits(ShownDisk(v), files[o].sclust, files[o].fsize)
         /\ \A w \in AllEntries(ShownDisk(v)) :
              ~w.e.isDir /\ w.place \notin HeldBy(files, OpenIn(op)) => Fits(ShownDisk(v), w.e.clust, w.e.size)
<1>1. PICK a : Whole(a, Meets(v), files, OpenIn(op))  BY DEF AtRest
<1> DEFINE d == ShownDisk(v)
           H == HeldBy(files, OpenIn(op))
           F == a.fat
<1>2. FatOn(d, F) /\ Picture(a, {}, H) /\ ShownDisk(Meets(v)) = d  BY <1>1, RestShown DEF AtRest
<1>3. Sees(Meets(v), a, {}, H)  BY <1>1 DEF Whole
<1> HIDE DEF d, H
<1>4. ASSUME NEW o \in OpenIn(op)
      PROVE  Fits(d, files[o].sclust, files[o].fsize)
  <2> DEFINE fp == files[o]
             e == a.owns[Place(fp)]
             n == fp.fsize
  <2>1. ObjectFits(a, fp)  BY <1>1 DEF Whole
  <2>2. FileFits(fp, e) /\ Chained(F, e)  BY <1>3, <2>1, FileChain DEF FileAt
  <2> HIDE DEF fp, e, F
  <2>3. fp.sclust = HeadOf(e) /\ n \in Nat /\ Len(e) = SectorsFor(n)
    BY <2>2 DEF FileFits, FileOf
  <2> HIDE DEF n
  <2>4. Fits(d, HeadOf(e), n)  BY <1>2, <2>2, <2>3, FitsChain
  <2> QED  BY <2>3, <2>4 DEF fp, n
<1>5. ASSUME NEW w \in AllEntries(d), ~w.e.isDir, w.place \notin H
      PROVE  Fits(d, w.e.clust, w.e.size)
  <2> DEFINE p == w.place
             f == w.e
             e == a.owns[p]
             n == f.size
  <2>1. p \in Living(a) /\ Row(a.rows, p) = f /\ IsObject(f) /\ IsEntry(f)
    BY <1>2, <1>3, <1>5, EntriesLiving DEF ObjectOf
  <2>2. Owner(a.chains, a.dirs, f, e, p \in H) /\ Family(F, a.chains)  BY <1>2, <2>1 DEF Picture
  <2> HIDE DEF p, f, e, F
  <2>3. ~f.isDir /\ p \notin H  BY <1>5 DEF f, p
  <2>4. f.clust = HeadOf(e) /\ Len(e) = SectorsFor(n) /\ e \in a.chains \cup {<<>>}
    BY <2>2, <2>3 DEF Owner
  <2>5. Chained(F, e)  BY <2>2, <2>4 DEF Chained, Family
  <2>6. n \in Nat  BY <2>1, ObjectEntry
  <2> HIDE DEF n
  <2>7. Fits(d, HeadOf(e), n)  BY <1>2, <2>4, <2>5, <2>6, FitsChain
  <2> QED  BY <2>4, <2>7 DEF f, n
<1> QED  BY <1>4, <1>5 DEF d, H

\* What two of the properties say of a session at rest.
LEMMA SoundPositions ==
  ASSUME SessionSound
  PROVE  PositionCached
<1> SUFFICES ASSUME Sound, NEW o \in OpenObjects, fil[o].fptr > 0
             PROVE  /\ ClusterBefore(fil[o], Chain(ShownDisk(vol), fil[o].sclust))
                    /\ ~AtBoundary(fil[o]) => fil[o].dsect = DataSector(fil[o].clust)
  BY DEF PositionCached
<1> DEFINE v == vol
           files == fil
           op == open
           fp == files[o]
<1>1. AtRest(v, files, op) /\ o \in OpenIn(op) /\ fp = files[o] /\ fp.fptr > 0
  BY DEF SessionSound, OpenObjects, OpenIn
<1> HIDE DEF v, files, op, fp
<1>2. ClusterBefore(fp, Chain(ShownDisk(v), fp.sclust)) /\ (~AtBoundary(fp) => fp.dsect = DataSector(fp.clust))
  BY <1>1, RestPositions
<1> QED  BY <1>2 DEF v, files, fp

\* A sound session has chains that fit their sizes.
LEMMA SoundFits ==
  ASSUME SessionSound
  PROVE  ChainFitsSize
<1> SUFFICES ASSUME Sound
             PROVE  /\ \A o \in OpenObjects : Fits(ShownDisk(vol), fil[o].sclust, fil[o].fsize)
                    /\ \A w \in AllEntries(ShownDisk(vol)) :
                         ~w.e.isDir /\ w.place \notin HeldPlaces => Fits(ShownDisk(vol), w.e.clust, w.e.size)
  BY DEF ChainFitsSize
<1>1. AtRest(vol, fil, open)  BY DEF SessionSound
<1>2. OpenObjects = OpenIn(open) /\ HeldPlaces = HeldBy(fil, OpenIn(open))
  BY DEF OpenObjects, OpenIn, HeldPlaces, HeldBy
<1> HIDE DEF Sound
<1> DEFINE v == vol
           files == fil
           op == open
<1>3. AtRest(v, files, op) /\ OpenObjects = OpenIn(op) /\ HeldPlaces = HeldBy(files, OpenIn(op))
  BY <1>1, <1>2
<1> HIDE DEF v, files, op
<1>4. /\ \A o \in OpenIn(op) : Fits(ShownDisk(v), files[o].sclust, files[o].fsize)
      /\ \A w \in AllEntries(ShownDisk(v)) :
           ~w.e.isDir /\ w.place \notin HeldBy(files, OpenIn(op)) => Fits(ShownDisk(v), w.e.clust, w.e.size)
  BY <1>3, RestFits
<1> QED  BY <1>3, <1>4 DEF v, files

\* What a call leaves is at rest.
LEMMA RestAfter ==
  ASSUME NEW w, NEW a, NEW files, NEW op, Whole(a, w, files, OpenIn(op)), files = [o \in Objects |-> files[o]],
         op \in [Objects -> Openings \cup {NotOpen}]
  PROVE  AtRest(Faulted(w, NoFault), files, op) /\ ShownDisk(Faulted(w, NoFault)) = ShownDisk(w)
<1> DEFINE u == Faulted(w, NoFault)
           f == NoFault
           T == Tables(a)
           F == a.fat
           X == a.rows
<1>1. Sees(w, a, {}, HeldBy(files, OpenIn(op)))  BY DEF Whole
<1>2. Shows(w, T, F, X)  BY <1>1 DEF Sees, Drawn
<1>3. HasFields(w) /\ u = Faulted(w, f)  BY <1>2 DEF Shows, Volume
<1> HIDE DEF T, F, X, f
<1>4. Shows(Meets(u), T, F, X) /\ ShownDisk(u) = ShownDisk(w)  BY <1>2, MeetsSame
<1> HIDE DEF u
<1>5. HasFields(u)  BY <1>3, MeetsAgain
<1>6. Sees(Meets(u), a, {}, HeldBy(files, OpenIn(op)))  BY <1>1, <1>4 DEF Sees, Drawn, T, F, X
<1>7. Whole(a, Meets(u), files, OpenIn(op))  BY <1>6 DEF Whole
<1>8. AtRest(u, files, op)  BY <1>5, <1>7 DEF AtRest
<1> QED  BY <1>4, <1>8 DEF u

\* One object changes.
Objectwise(files, o, f) == [files EXCEPT ![o] = f]

\* An open file stays open and its chain changed.
LEMMA FileEnds ==
  ASSUME NEW files, files = [q \in Objects |-> files[q]], NEW K \in SUBSET Objects, NEW a, NEW v, Whole(a, v, files, K),
         NEW o \in K, NEW p, p = Place(files[o]), NEW b, NEW w, NEW f, FileMade(a, HeldBy(files, K), p, b, w, f),
         NEW g, g = Objectwise(files, o, f)
  PROVE  Whole(b, w, g, K) /\ g = [q \in Objects |-> g[q]] /\ g[o] = f
<1>1. g = [q \in Objects |-> g[q]] /\ g[o] = f /\ \A q \in Objects : q # o => g[q] = files[q]
  BY DEF Objectwise
<1>2. Place(f) = p /\ Sees(w, b, {}, HeldBy(files, K)) /\ FilesStay(a, {p}, b) /\ ObjectFits(b, f)
  BY DEF FileMade
<1>3. \A q \in K : Place(g[q]) = Place(files[q])  BY <1>1, <1>2
<1>4. HeldBy(g, K) = HeldBy(files, K)  BY <1>3 DEF HeldBy
<1>5. /\ \A q \in K : ObjectFits(a, files[q])
      /\ \A q, z \in K : Place(files[q]) = Place(files[z]) => q = z
  BY DEF Whole
<1>6. ASSUME NEW q \in K
      PROVE  ObjectFits(b, g[q])
  <2>1. CASE q = o  BY <1>1, <1>2, <2>1
  <2>2. CASE q # o
    <3> DEFINE P == {p}
               fp == files[q]
    <3>1. ObjectFits(a, fp) /\ Place(fp) \notin P /\ FilesStay(a, P, b) /\ g[q] = fp
      BY <1>1, <1>2, <1>5, <2>2
    <3> HIDE DEF P, fp
    <3> QED  BY <3>1, FitsStill
  <2> QED  BY <2>1, <2>2
<1>7. \A q, z \in K : Place(g[q]) = Place(g[z]) => q = z  BY <1>3, <1>5
<1> QED  BY <1>1, <1>2, <1>4, <1>6, <1>7 DEF Whole

\* An open file is closed.
LEMMA FileShut ==
  ASSUME NEW files, files = [q \in Objects |-> files[q]], NEW K \in SUBSET Objects, NEW a, NEW v, Whole(a, v, files, K),
         NEW o \in K, "FA__WRITTEN" \notin files[o].flag, NEW f, NEW g, g = Objectwise(files, o, f),
         NEW L, L = K \ {o}
  PROVE  Whole(a, v, g, L) /\ g = [q \in Objects |-> g[q]]
<1> DEFINE p == Place(files[o])
           H == HeldBy(files, K)
           G == HeldBy(g, L)
<1>1. g = [q \in Objects |-> g[q]] /\ \A q \in L : g[q] = files[q]  BY DEF Objectwise
<1>2. /\ \A q \in K : ObjectFits(a, files[q])
      /\ \A q, z \in K : Place(files[q]) = Place(files[z]) => q = z
      /\ Drawn(v, a) /\ Picture(a, {}, H)
  BY DEF Whole, Sees
<1>3. \A s : s \in H => s = p \/ s \in G  BY <1>1 DEF HeldBy
<1>4. ObjectFits(a, files[o])  BY <1>2
<1>5. Row(a.rows, p).clust = HeadOf(a.owns[p]) /\ Len(a.owns[p]) = SectorsFor(Row(a.rows, p).size)
  BY <1>4 DEF ObjectFits, FileFits
<1> HIDE DEF p, H, G
<1>6. Picture(a, {}, G)
  <2>1. \A s \in Living(a) \ {} : Owner(a.chains, a.dirs, Row(a.rows, s), a.owns[s], s \in H)
    BY <1>2 DEF Picture
  <2>2. ASSUME NEW s \in Living(a) \ {}
        PROVE  Owner(a.chains, a.dirs, Row(a.rows, s), a.owns[s], s \in G)
    <3>1. Owner(a.chains, a.dirs, Row(a.rows, s), a.owns[s], s \in H)  BY <2>1
    <3>2. s \notin G => s = p \/ s \notin H  BY <1>3
    <3> QED  BY <1>5, <3>1, <3>2 DEF Owner
  <2> QED  BY <1>2, <2>2 DEF Picture
<1>7. Sees(v, a, {}, G)  BY <1>2, <1>6 DEF Sees
<1>8. (\A q \in L : ObjectFits(a, g[q])) /\ \A q, z \in L : Place(g[q]) = Place(g[z]) => q = z
  BY <1>1, <1>2
<1> QED  BY <1>1, <1>7, <1>8 DEF Whole, G

\* A file is opened.
LEMMA FileIsOpened ==
  ASSUME NEW files, files = [q \in Objects |-> files[q]], NEW K \in SUBSET Objects, NEW a, NEW v, Whole(a, v, files, K),
         NEW o \in Objects, o \notin K, NEW f, ObjectFits(a, f), Place(f) \notin HeldBy(files, K),
         NEW g, g = Objectwise(files, o, f), NEW L, L = K \cup {o}
  PROVE  Whole(a, v, g, L) /\ g = [q \in Objects |-> g[q]]
<1> DEFINE p == Place(f)
           H == HeldBy(files, K)
           G == HeldBy(g, L)
<1>1. g = [q \in Objects |-> g[q]] /\ g[o] = f /\ \A q \in K : g[q] = files[q]
  BY DEF Objectwise
<1>2. /\ \A q \in K : ObjectFits(a, files[q])
      /\ \A q, z \in K : Place(files[q]) = Place(files[z]) => q = z
      /\ Drawn(v, a) /\ Picture(a, {}, H)
  BY DEF Whole, Sees
<1>3. H \subseteq G /\ \A q \in K : Place(files[q]) # p  BY <1>1 DEF HeldBy
<1> HIDE DEF p, H, G
<1>4. Picture(a, {}, G)
  <2>1. ASSUME NEW s \in Living(a) \ {}
        PROVE  Owner(a.chains, a.dirs, Row(a.rows, s), a.owns[s], s \in G)
    <3>1. Owner(a.chains, a.dirs, Row(a.rows, s), a.owns[s], s \in H)  BY <1>2 DEF Picture
    <3>2. s \notin G => s \notin H  BY <1>3
    <3> QED  BY <3>1, <3>2 DEF Owner
  <2> QED  BY <1>2, <2>1 DEF Picture
<1>5. Sees(v, a, {}, G)  BY <1>2, <1>4 DEF Sees
<1>6. \A q \in L : ObjectFits(a, g[q])  BY <1>1, <1>2
<1>7. \A q, z \in L : Place(g[q]) = Place(g[z]) => q = z  BY <1>1, <1>2, <1>3 DEF p
<1> QED  BY <1>1, <1>5, <1>6, <1>7 DEF Whole, G

----------------------------------------------------------------------------
(* The calls on a file, one by one.                                        *)

OpenTo(op, o, x) == [op EXCEPT ![o].pos = x]

\* The position of an open file is set.
LEMMA PositionMoved ==
  ASSUME NEW op \in [Objects -> Openings \cup {NotOpen}], NEW o \in OpenIn(op), NEW x \in Nat, NEW q, q = OpenTo(op, o, x)
  PROVE  q \in [Objects -> Openings \cup {NotOpen}] /\ OpenIn(q) = OpenIn(op) /\ q[o].pos = x
<1>1. op[o] \in Openings /\ o \in Objects /\ op[o] # NotOpen  BY DEF OpenIn
<1> DEFINE b == [op[o] EXCEPT !.pos = x]
<1>2. b \in Openings /\ b.pos = x  BY <1>1 DEF Openings
<1>3. b # NotOpen  BY <1>2, NotOpenAssumption
<1>4. q = [op EXCEPT ![o] = b]  BY DEF OpenTo
<1> HIDE DEF b
<1>5. q \in [Objects -> Openings \cup {NotOpen}] /\ q[o] = b /\ \A z \in Objects : z # o => q[z] = op[z]
  BY <1>1, <1>2, <1>4
<1> QED  BY <1>1, <1>2, <1>3, <1>5 DEF OpenIn

\* After a call that moved an open file the session is at rest.
LEMMA MovedRests ==
  ASSUME NEW v, NEW files, NEW op, AtRest(v, files, op), NEW a, Whole(a, Meets(v), files, OpenIn(op)),
         NEW o \in OpenIn(op), NEW p, p = Place(files[o]),
         NEW b, NEW w, NEW f, FileMade(a, HeldBy(files, OpenIn(op)), p, b, w, f),
         NEW g, g = Objectwise(files, o, f), NEW q, q = OpenTo(op, o, f.fptr)
  PROVE  /\ AtRest(Faulted(w, NoFault), g, q) /\ q[o].pos = f.fptr
         /\ FatFull(b.fat) => FullDisk(ShownDisk(Faulted(w, NoFault)))
<1> DEFINE K == OpenIn(op)
           x == f.fptr
           n == Faulted(w, NoFault)
           m == Meets(v)
<1>1. K \in SUBSET Objects /\ files = [z \in Objects |-> files[z]] /\ op \in [Objects -> Openings \cup {NotOpen}]
  BY DEF AtRest, OpenIn
<1>2. FileMade(a, HeldBy(files, K), p, b, w, f) /\ o \in K /\ Whole(a, m, files, K)  OBVIOUS
<1>3. ObjectFits(b, f)  BY <1>2 DEF FileMade
<1>4. x \in Nat  BY <1>3 DEF ObjectFits, FileFits, FileOf
<1> HIDE DEF x, K, n, m
<1>5. Whole(b, w, g, K) /\ g = [z \in Objects |-> g[z]]  BY <1>1, <1>2, FileEnds
<1>6. q \in [Objects -> Openings \cup {NotOpen}] /\ OpenIn(q) = K /\ q[o].pos = x
  BY <1>1, <1>4, PositionMoved DEF x, K
<1>7. AtRest(n, g, q) /\ ShownDisk(n) = ShownDisk(w)  BY <1>5, <1>6, RestAfter DEF n
<1>8. FatFull(b.fat) => FullDisk(ShownDisk(w))
  <2>1. Shows(w, Tables(b), b.fat, b.rows)  BY <1>5 DEF Whole, Sees, Drawn
  <2>2. FatOn(ShownDisk(w), b.fat)  BY <2>1, ShownSeen
  <2> QED  BY <2>2 DEF FatFull, FullDisk, FatOn
<1> QED  BY <1>6, <1>7, <1>8 DEF n, x

\* What a call on the open object o leaves that moves its pointer.
MovesTo(r, files, op, o) ==
  /\ AtRest(Faulted(r.v, NoFault), Objectwise(files, o, r.fp), OpenTo(op, o, r.fp.fptr))
  /\ OpenTo(op, o, r.fp.fptr)[o].pos = r.fp.fptr

\* The same, from what the call did.
LEMMA MovedMakes ==
  ASSUME NEW v, NEW files, NEW op, AtRest(v, files, op), NEW a, Whole(a, Meets(v), files, OpenIn(op)),
         NEW o \in OpenIn(op), NEW H, H = HeldBy(files, OpenIn(op)), NEW fp, fp = files[o],
         NEW b, NEW r, FileMade(a, H, Place(fp), b, r.v, r.fp)
  PROVE  MovesTo(r, files, op, o) /\ (FatFull(b.fat) => FullDisk(ShownDisk(Faulted(r.v, NoFault))))
<1> DEFINE w == r.v
           f == r.fp
           g == Objectwise(files, o, f)
           q == OpenTo(op, o, f.fptr)
           p == Place(fp)
<1>1. FileMade(a, HeldBy(files, OpenIn(op)), p, b, w, f) /\ p = Place(files[o])  OBVIOUS
<1>2. g = Objectwise(files, o, f) /\ q = OpenTo(op, o, f.fptr)  OBVIOUS
<1> HIDE DEF w, f, g, q, p
<1>3. /\ AtRest(Faulted(w, NoFault), g, q) /\ q[o].pos = f.fptr
      /\ FatFull(b.fat) => FullDisk(ShownDisk(Faulted(w, NoFault)))
  BY <1>1, <1>2, MovedRests
<1> QED  BY <1>3 DEF MovesTo, w, f, g, q

\* f_lseek, f_write, f_read and f_sync.
LEMMA MoveCalls ==
  ASSUME NEW v, NEW files, NEW op, AtRest(v, files, op), NEW o \in OpenIn(op), NEW fp, fp = files[o],
         NEW t, t = Meets(v)
  PROVE  /\ \A to \in Nat : \A r : r = FLseek(t, fp, to) =>
              /\ MovesTo(r, files, op, o)
              /\ CanWrite(fp) /\ r.fp.fptr < to => FullDisk(ShownDisk(Faulted(r.v, NoFault)))
         /\ \A btw \in Nat : \A d, r : r = FWrite(t, fp, d, btw) =>
              /\ MovesTo(r, files, op, o)
              /\ Goes(r) /\ r.did < btw => FullDisk(ShownDisk(Faulted(r.v, NoFault)))
         /\ \A size \in Nat : \A r : r = FRead(t, fp, size) => MovesTo(r, files, op, o)
         /\ \A r : r = FSync(t, fp) => MovesTo(r, files, op, o)
<1>1. PICK a : Whole(a, Meets(v), files, OpenIn(op))  BY DEF AtRest
<1> DEFINE H == HeldBy(files, OpenIn(op))
           p == Place(fp)
<1>2. H = HeldBy(files, OpenIn(op)) /\ p = Place(fp)  OBVIOUS
<1>3. Sees(t, a, {}, H) /\ ObjectFits(a, fp) /\ p \in H  BY <1>1 DEF Whole, HeldBy
<1> HIDE DEF H, p
<1>4. ASSUME NEW to \in Nat, NEW r, r = FLseek(t, fp, to)
      PROVE  /\ MovesTo(r, files, op, o)
             /\ CanWrite(fp) /\ r.fp.fptr < to => FullDisk(ShownDisk(Faulted(r.v, NoFault)))
  <2>1. PICK b : FileMade(a, H, p, b, r.v, r.fp) /\ (CanWrite(fp) /\ r.fp.fptr < to => FatFull(b.fat))
    BY <1>2, <1>3, <1>4, FileMoves
  <2> QED  BY <1>1, <1>2, <2>1, MovedMakes
<1>5. ASSUME NEW btw \in Nat, NEW d, NEW r, r = FWrite(t, fp, d, btw)
      PROVE  /\ MovesTo(r, files, op, o)
             /\ Goes(r) /\ r.did < btw => FullDisk(ShownDisk(Faulted(r.v, NoFault)))
  <2>1. PICK b : FileMade(a, H, p, b, r.v, r.fp) /\ (Goes(r) /\ r.did < btw => FatFull(b.fat))
    BY <1>2, <1>3, <1>5, FileMoves
  <2> QED  BY <1>1, <1>2, <2>1, MovedMakes
<1>6. ASSUME NEW size \in Nat, NEW r, r = FRead(t, fp, size)
      PROVE  MovesTo(r, files, op, o)
  <2>1. PICK b : FileMade(a, H, p, b, r.v, r.fp)  BY <1>2, <1>3, <1>6, FileMoves
  <2> QED  BY <1>1, <1>2, <2>1, MovedMakes
<1>7. ASSUME NEW r, r = FSync(t, fp)
      PROVE  MovesTo(r, files, op, o)
  <2>1. PICK b : FileMade(a, H, p, b, r.v, r.fp)  BY <1>2, <1>3, <1>7, FileIsSynced
  <2> QED  BY <1>1, <1>2, <2>1, MovedMakes
<1> QED  BY <1>4, <1>5, <1>6, <1>7

\* f_truncate, when no buffer is left behind.
LEMMA CutCall ==
  ASSUME NEW v, NEW files, NEW op, AtRest(v, files, op), NEW o \in OpenIn(op), NEW fp, fp = files[o],
         NEW t, t = Meets(v), NEW r, r = FTruncate(t, fp), ~LeftBehind(r.v, r.fp)
  PROVE  MovesTo(r, files, op, o)
<1>1. PICK a : Whole(a, Meets(v), files, OpenIn(op))  BY DEF AtRest
<1> DEFINE H == HeldBy(files, OpenIn(op))
           p == Place(fp)
           T == Tables(a)
           F == a.fat
           X == a.rows
           e == a.owns[p]
<1>2. H = HeldBy(files, OpenIn(op)) /\ p = Place(fp) /\ T = Tables(a) /\ F = a.fat /\ X = a.rows /\ e = a.owns[p]  OBVIOUS
<1>3. Sees(t, a, {}, H) /\ ObjectFits(a, fp) /\ p \in H  BY <1>1 DEF Whole, HeldBy
<1>4. FileAt(t, T, F, X, e) /\ FileFits(fp, e)  BY <1>3, FileChain
<1> HIDE DEF H, p, T, F, X, e
<1>5. \E G, y : FileDone(T, F, X, e, fp, G, y, r.v, r.fp)
  <2>1. CASE r.v = t /\ r.fp = fp  BY <1>4, <2>1, FileLeft
  <2>2. CASE FileCut(T, F, X, e, fp, r)
    <3>1. PICK G, y : /\ Beside(F, e, G, y) /\ FileAt(r.v, T, G, X, y) /\ r.fp.sclust = HeadOf(y)
                      /\ Buffered(r.fp, y) => FileDone(T, F, X, e, fp, G, y, r.v, r.fp)
      BY <2>2 DEF FileCut
    <3>2. Shows(r.v, T, G, X) /\ Chained(G, y)  BY <3>1 DEF FileAt
    <3>3. FatOn(ShownDisk(r.v), G)  BY <3>2, ShownSeen
    <3>4. Chain(ShownDisk(r.v), HeadOf(y)) = y  BY <3>2, <3>3, ChainIs
    <3>5. Buffered(r.fp, y)  BY <3>1, <3>4 DEF LeftBehind, ClustersFrom, Buffered, SectorIn
    <3> QED  BY <3>1, <3>5
  <2> QED  BY <1>4, <2>1, <2>2, FileIsCut
<1>6. PICK G, y : FileDone(T, F, X, e, fp, G, y, r.v, r.fp)  BY <1>5
<1> DEFINE w == r.v
           f == r.fp
<1> HIDE DEF w, f
<1>7. FileDone(Tables(a), a.fat, a.rows, a.owns[p], fp, G, y, w, f)  BY <1>2, <1>6 DEF w, f
<1>8. PICK b : FileMade(a, H, p, b, w, f)  BY <1>2, <1>3, <1>7, FileIsMade
<1> QED  BY <1>1, <1>2, <1>8, MovedMakes DEF w, f

\* Files are open and closed.
OpenAt(op, o, x) == [op EXCEPT ![o] = x]

\* A file is noted as open, or as closed.
LEMMA OpenIsSet ==
  ASSUME NEW op \in [Objects -> Openings \cup {NotOpen}], NEW o \in Objects, NEW x \in Openings \cup {NotOpen},
         NEW q, q = OpenAt(op, o, x)
  PROVE  /\ q \in [Objects -> Openings \cup {NotOpen}]
         /\ x = NotOpen => OpenIn(q) = OpenIn(op) \ {o}
         /\ x # NotOpen => OpenIn(q) = OpenIn(op) \cup {o}
<1>1. q \in [Objects -> Openings \cup {NotOpen}] /\ q[o] = x /\ \A z \in Objects : z # o => q[z] = op[z]
  BY DEF OpenAt
<1> QED  BY <1>1 DEF OpenIn

\* f_close.
LEMMA CloseCall ==
  ASSUME NEW v, NEW files, NEW op, AtRest(v, files, op), NEW o \in OpenIn(op), NEW fp, fp = files[o],
         NEW t, t = Meets(v), NEW r, r = FClose(t, fp)
  PROVE  Goes(r) /\ AtRest(Faulted(r.v, NoFault), Objectwise(files, o, NoFile), OpenAt(op, o, NotOpen))
<1>1. PICK a : Whole(a, Meets(v), files, OpenIn(op))  BY DEF AtRest
<1> DEFINE K == OpenIn(op)
           p == Place(fp)
           w == r.v
           f == r.fp
           g == Objectwise(files, o, f)
           h == Objectwise(g, o, NoFile)
           q == OpenAt(op, o, NotOpen)
<1>2. p = Place(files[o]) /\ g = Objectwise(files, o, f) /\ h = Objectwise(g, o, NoFile) /\ q = OpenAt(op, o, NotOpen)
      /\ K \in SUBSET Objects /\ o \in K
      /\ op \in [Objects -> Openings \cup {NotOpen}] /\ files = [z \in Objects |-> files[z]]
  BY DEF AtRest, OpenIn
<1>3. Whole(a, t, files, K)  BY <1>1
<1>4. Sees(t, a, {}, HeldBy(files, K)) /\ ObjectFits(a, fp) /\ p \in HeldBy(files, K)
  BY <1>2, <1>3 DEF Whole, HeldBy
<1>5. \E b : FileMade(a, HeldBy(files, K), p, b, r.v, r.fp) /\ Goes(r) /\ "FA__WRITTEN" \notin r.fp.flag
  BY <1>2, <1>4, FileIsSynced
<1>6. PICK b : FileMade(a, HeldBy(files, K), p, b, w, f)  BY <1>5
<1>7. "FA__WRITTEN" \notin f.flag /\ Goes(r)  BY <1>5
<1>8. q \in [Objects -> Openings \cup {NotOpen}] /\ OpenIn(q) = K \ {o}  BY <1>2, OpenIsSet
<1>9. h = Objectwise(files, o, NoFile)  BY <1>2 DEF Objectwise
<1> HIDE DEF K, p, w, f, g, h, q
<1>10. Whole(b, w, g, K) /\ g = [z \in Objects |-> g[z]] /\ g[o] = f
  BY <1>2, <1>3, <1>6, FileEnds
<1> DEFINE n == NoFile
           L == K \ {o}
<1>11. L = K \ {o} /\ h = Objectwise(g, o, n) /\ "FA__WRITTEN" \notin g[o].flag /\ K \in SUBSET Objects /\ o \in K
  BY <1>2, <1>7, <1>10
<1> HIDE DEF n, L
<1>12. Whole(b, w, h, L) /\ h = [z \in Objects |-> h[z]]  BY <1>10, <1>11, FileShut
<1>13. Whole(b, w, h, OpenIn(q))  BY <1>8, <1>11, <1>12
<1>14. AtRest(Faulted(w, NoFault), h, q)  BY <1>8, <1>12, <1>13, RestAfter
<1> QED  BY <1>7, <1>9, <1>14 DEF w, q

\* A call that changes what the files that are open are not of.
VolumeMade(a, H, v) == \E b, P : Sees(v, b, {}, H) /\ FilesStay(a, P, b) /\ P \cap H = {}

\* A change of the volume away from the open files.
LEMMA WholeStays ==
  ASSUME NEW a, NEW v, NEW files, NEW K, Whole(a, v, files, K),
         NEW b, NEW P, NEW w, Sees(w, b, {}, HeldBy(files, K)), FilesStay(a, P, b), P \cap HeldBy(files, K) = {}
  PROVE  Whole(b, w, files, K)
<1>1. ASSUME NEW o \in K PROVE ObjectFits(b, files[o])
  <2> DEFINE fp == files[o]
  <2>1. ObjectFits(a, fp) /\ Place(fp) \in HeldBy(files, K)  BY DEF Whole, HeldBy
  <2>2. Place(fp) \notin P  BY <2>1
  <2> HIDE DEF fp
  <2>3. ObjectFits(b, fp)  BY <2>1, <2>2, FitsStill
  <2> QED  BY <2>3 DEF fp
<1> QED  BY <1>1 DEF Whole

\* After a call that left the open files alone the session is at rest.
LEMMA VolumeRests ==
  ASSUME NEW v, NEW files, NEW op, AtRest(v, files, op), NEW a, Whole(a, Meets(v), files, OpenIn(op)),
         NEW w, VolumeMade(a, HeldBy(files, OpenIn(op)), w)
  PROVE  AtRest(Faulted(w, NoFault), files, op)
<1> DEFINE K == OpenIn(op)
           m == Meets(v)
<1>1. files = [z \in Objects |-> files[z]] /\ op \in [Objects -> Openings \cup {NotOpen}]
  BY DEF AtRest
<1>2. PICK b, P : Sees(w, b, {}, HeldBy(files, K)) /\ FilesStay(a, P, b) /\ P \cap HeldBy(files, K) = {}
  BY DEF VolumeMade
<1>3. Whole(a, m, files, K)  OBVIOUS
<1> HIDE DEF K, m
<1>4. Whole(b, w, files, K)  BY <1>2, <1>3, WholeStays
<1> QED  BY <1>1, <1>4, RestAfter DEF K

\* f_open that fails, and one that does not.
LEMMA UnopenedStays ==
  ASSUME NEW v, NEW files, NEW op, AtRest(v, files, op), NEW o \in Objects \ OpenIn(op), NEW f,
         NEW g, g = Objectwise(files, o, f)
  PROVE  AtRest(v, g, op)
<1>1. PICK a : Whole(a, Meets(v), files, OpenIn(op))  BY DEF AtRest
<1>2. files = [z \in Objects |-> files[z]] /\ op \in [Objects -> Openings \cup {NotOpen}] /\ HasFields(v)
  BY DEF AtRest
<1>3. g = [z \in Objects |-> g[z]] /\ \A q \in OpenIn(op) : g[q] = files[q]
  BY <1>2 DEF Objectwise, OpenIn
<1>4. HeldBy(g, OpenIn(op)) = HeldBy(files, OpenIn(op))  BY <1>3 DEF HeldBy
<1>5. /\ \A q \in OpenIn(op) : ObjectFits(a, files[q])
      /\ \A q, z \in OpenIn(op) : Place(files[q]) = Place(files[z]) => q = z
      /\ Sees(Meets(v), a, {}, HeldBy(files, OpenIn(op)))
  BY <1>1 DEF Whole
<1>6. Whole(a, Meets(v), g, OpenIn(op))  BY <1>3, <1>4, <1>5 DEF Whole
<1> QED  BY <1>2, <1>3, <1>6 DEF AtRest

OpenMade(a, H, r) ==
  \E b, P : /\ Sees(r.v, b, {}, H) /\ FilesStay(a, P, b) /\ P \cap H = {}
            /\ Goes(r) => ObjectFits(b, r.fp) /\ Place(r.fp) \notin H

\* After f_open the session is at rest.
LEMMA OpenRests ==
  ASSUME NEW v, NEW files, NEW op, AtRest(v, files, op), NEW a, Whole(a, Meets(v), files, OpenIn(op)),
         NEW o \in Objects \ OpenIn(op), NEW r, OpenMade(a, HeldBy(files, OpenIn(op)), r),
         NEW x \in Openings
  PROVE  AtRest(Faulted(r.v, NoFault), Objectwise(files, o, r.fp), IF Goes(r) THEN OpenAt(op, o, x) ELSE op)
<1> DEFINE K == OpenIn(op)
           w == r.v
           f == r.fp
           g == Objectwise(files, o, f)
           q == OpenAt(op, o, x)
           m == Meets(v)
<1>1. files = [z \in Objects |-> files[z]] /\ op \in [Objects -> Openings \cup {NotOpen}] /\ K \in SUBSET Objects
      /\ o \in Objects \ K /\ g = Objectwise(files, o, f) /\ q = OpenAt(op, o, x) /\ x # NotOpen
  BY NotOpenAssumption DEF AtRest, OpenIn
<1>2. VolumeMade(a, HeldBy(files, K), w)  BY DEF OpenMade, VolumeMade
<1>3. AtRest(Faulted(w, NoFault), files, op)  BY <1>2, VolumeRests
<1>4. PICK b, P : /\ Sees(w, b, {}, HeldBy(files, K)) /\ FilesStay(a, P, b) /\ P \cap HeldBy(files, K) = {}
                  /\ Goes(r) => ObjectFits(b, f) /\ Place(f) \notin HeldBy(files, K)
  BY DEF OpenMade
<1>5. Whole(a, m, files, K)  OBVIOUS
<1>6. q \in [Objects -> Openings \cup {NotOpen}] /\ OpenIn(q) = K \cup {o}  BY <1>1, OpenIsSet
<1> HIDE DEF w, f, g, q, m
<1>7. CASE Goes(r)
  <2> DEFINE L == K \cup {o}
  <2>5. L = K \cup {o} /\ o \in Objects /\ o \notin K  BY <1>1
  <2> HIDE DEF K, L
  <2>1. Whole(b, w, files, K)  BY <1>4, <1>5, WholeStays
  <2>2. Whole(b, w, g, L) /\ g = [z \in Objects |-> g[z]]
    BY <1>1, <1>4, <1>7, <2>1, <2>5, FileIsOpened
  <2>3. Whole(b, w, g, OpenIn(q))  BY <1>6, <2>2, <2>5
  <2>4. AtRest(Faulted(w, NoFault), g, q)  BY <1>6, <2>2, <2>3, RestAfter
  <2> QED  BY <1>7, <2>4 DEF w, f, g, q
<1>8. CASE ~Goes(r)
  <2>1. AtRest(Faulted(w, NoFault), g, op)  BY <1>1, <1>3, UnopenedStays
  <2> QED  BY <1>8, <2>1 DEF w, f, g
<1> QED  BY <1>7, <1>8

----------------------------------------------------------------------------
(* What a path leads to.                                                   *)

PlaceAt(dj) == <<dj.sect, Slot(dj)>>
\* The entry of an object in the window.
ObjectSeen(v, a, p, e) ==
  /\ p \in Living(a) /\ v.sect = p[1] /\ v.sect \in Tables(a) /\ p[2] \in 1..PerTable
  /\ v.win[p[2]] = e /\ Row(a.rows, p) = e /\ IsObject(e) /\ IsEntry(e) /\ DOMAIN v.win = 1..PerTable

\* What a walk has found stands at its place.
LEMMA FoundPlace ==
  ASSUME NEW v, NEW a, NEW E, NEW H, Sees(v, a, E, H), NEW e, NEW dj, HasObject(a, e, dj, v), NEW p, p = PlaceAt(dj)
  PROVE  ObjectSeen(v, a, p, Entry(v, dj)) /\ p[2] = Slot(dj) /\ p[1] = dj.sect
<1>1. PICK i : At(e, i, dj) /\ InWindow(v, a, e, i, dj) /\ FoundHere("find", a, e, i, dj)
  BY DEF HasObject, FoundAtEntry
<1>2. IsTable(a.dirs, e) /\ HasEntry(e, i)  BY <1>1 DEF HasObject, InTable, At
<1>3. /\ v.sect = dj.sect /\ Entry(v, dj) = EntryAt(a, e, i) /\ DOMAIN v.win = 1..PerTable
      /\ PlaceOf(e, i) = p /\ Slot(dj) \in 1..PerTable /\ v.sect \in Tables(a)
  BY <1>1 DEF InWindow, PlaceAt
<1>4. IsObject(EntryAt(a, e, i))  BY <1>1 DEF FoundHere
<1>5. IsEntry(EntryAt(a, e, i)) /\ (PlaceOf(e, i) \in Living(a) <=> IsObject(EntryAt(a, e, i)))
  BY <1>2, PlaceKnown DEF Sees
<1>6. p[1] = dj.sect /\ p[2] = Slot(dj)  BY DEF PlaceAt
<1> QED  BY <1>3, <1>4, <1>5, <1>6 DEF ObjectSeen, Entry, EntryAt

\* A file that has just been opened.
LEMMA FreshFits ==
  ASSUME NEW a, NEW H, Picture(a, {}, H), NEW p \in Living(a) \ H, NEW e, e = Row(a.rows, p), ~e.isDir,
         NEW flag, "FA__ERROR" \notin flag, "FA__DIRTY" \notin flag,
         NEW f, FpFields(f), f.flag = flag, f.fptr = 0, f.fsize = e.size, f.sclust = e.clust, Place(f) = p
  PROVE  ObjectFits(a, f)
<1>1. Owner(a.chains, a.dirs, e, a.owns[p], p \in H) /\ IsEntry(e) /\ IsObject(e)
  BY EntriesKnown, PlacesKnown
<1> DEFINE x == a.owns[p]
<1>2. e.clust = HeadOf(x) /\ Len(x) = SectorsFor(e.size)  BY <1>1 DEF Owner
<1>3. e.size \in Nat  BY <1>1, ObjectEntry
<1> HIDE DEF x
<1>4. FileOf(f, x)  BY <1>2, <1>3 DEF FileOf, Buffered
<1>5. PosOf(f, x)  BY DEF PosOf
<1>6. FileFits(f, x)  BY <1>2, <1>3, <1>4, <1>5 DEF FileFits
<1> QED  BY <1>2, <1>6 DEF ObjectFits, x

FreshFile(flag, s, i, e) == [NoFile EXCEPT !.flag = flag, !.dirSect = s, !.slot = i, !.sclust = e.clust, !.fsize = e.size]

\* The file object that f_open makes.
LEMMA FreshFields ==
  ASSUME NEW flag, NEW s, NEW i, NEW e, NEW f, f = FreshFile(flag, s, i, e)
  PROVE  FpFields(f) /\ f.flag = flag /\ f.fptr = 0 /\ f.fsize = e.size /\ f.sclust = e.clust /\ Place(f) = <<s, i>>
BY DEF FreshFile, NoFile, FpFields, Place

\* A file just opened fits its chain.
LEMMA OpenedFits ==
  ASSUME NEW r, NEW b, NEW H, Goes(r), Sees(r.v, b, {}, H), NEW p, p = <<r.v.sect, Slot(r.dj)>>,
         ObjectSeen(r.v, b, p, Entry(r.v, r.dj)), p \notin H, ~Entry(r.v, r.dj).isDir,
         NEW flag, "FA__ERROR" \notin flag, "FA__DIRTY" \notin flag, NEW q, q = Opened(r, flag)
  PROVE  Goes(q) /\ q.v = r.v /\ ObjectFits(b, q.fp) /\ Place(q.fp) = p
<1> DEFINE e == Entry(r.v, r.dj)
           f == FreshFile(flag, r.v.sect, Slot(r.dj), e)
<1>1. q = File(r, f, 0)  BY DEF Opened, Goes, FreshFile
<1>2. Goes(q) /\ q.v = r.v /\ q.fp = f  BY <1>1 DEF File, Goes
<1>3. FpFields(f) /\ f.flag = flag /\ f.fptr = 0 /\ f.fsize = e.size /\ f.sclust = e.clust /\ Place(f) = p
  BY FreshFields
<1>4. p \in Living(b) \ H /\ e = Row(b.rows, p) /\ ~e.isDir /\ Picture(b, {}, H)
  BY DEF ObjectSeen, Sees
<1> HIDE DEF f, e
<1>5. ObjectFits(b, f)  BY <1>3, <1>4, FreshFits
<1> QED  BY <1>2, <1>3, <1>5

\* What may be told from a path that leads to an object.
LEMMA PathLeads ==
  ASSUME NEW v, NEW a, NEW H, Sees(v, a, {}, H), NEW path, IsPath(path), NEW r, r = FollowPath(v, path)
  PROVE  /\ Sees(r.v, a, {}, H) /\ r.res \in {"FR_OK", "FR_NO_FILE", "FR_NO_PATH", "FR_INT_ERR"}
         /\ r.dj.root = (path = <<>>)
         /\ Goes(r) /\ path # <<>> =>
              (\E e : HasObject(a, e, r.dj, r.v)) /\ ObjectSeen(r.v, a, PlaceAt(r.dj), Entry(r.v, r.dj))
         /\ r.res = "FR_NO_FILE" => path # <<>> /\ \E e : HasName(a, e, r.dj)
<1>1. PathIs(a, H, path, r)  BY PathFollowed
<1>2. Sees(r.v, a, {}, H) /\ r.res \in {"FR_OK", "FR_NO_FILE", "FR_NO_PATH", "FR_INT_ERR"}
  BY <1>1 DEF PathIs
<1>3. CASE path = <<>>  BY <1>1, <1>2, <1>3 DEF PathIs
<1>4. CASE path # <<>>
  <2>1. /\ r.dj.root = FALSE /\ (Goes(r) => \E e : HasObject(a, e, r.dj, r.v))
        /\ r.res = "FR_NO_FILE" => \E e : HasName(a, e, r.dj)
    BY <1>1, <1>4 DEF PathIs, FollowedTo, Goes
  <2>2. ASSUME Goes(r) PROVE ObjectSeen(r.v, a, PlaceAt(r.dj), Entry(r.v, r.dj))
    <3> DEFINE w == r.v
               dj == r.dj
               p == PlaceAt(dj)
               E == {}
    <3>1. PICK e : HasObject(a, e, dj, w)  BY <2>1, <2>2
    <3>2. Sees(w, a, E, H) /\ p = PlaceAt(dj)  BY <1>2
    <3> HIDE DEF w, dj, p, E
    <3>3. ObjectSeen(w, a, p, Entry(w, dj))  BY <3>1, <3>2, FoundPlace
    <3> QED  BY <3>3 DEF w, dj, p
  <2> QED  BY <1>2, <1>4, <2>1, <2>2
<1> QED  BY <1>3, <1>4

----------------------------------------------------------------------------
(* Pictures that follow one another while a directory gets a new entry.    *)

\* A table that has been stretched.
Extends(e, y) ==
  /\ (e = <<>> <=> y = <<>>) /\ Len(e) \in Nat /\ Len(y) \in Nat /\ Len(e) <= Len(y)
  /\ \A i \in 1..Len(e) : y[i] = e[i]
\* Outside of S nothing is new but in entries that were blank, and directories may have grown.
Later(a, S, b) ==
  /\ Tables(a) \subseteq Tables(b)
  /\ \A q \in (Tables(a) \X (1..PerTable)) \ S : ~Blank(Row(a.rows, q)) => Row(b.rows, q) = Row(a.rows, q)
  /\ Living(b) \subseteq Living(a) \cup S
  /\ \A q \in Living(a) \ S :
       IF Row(a.rows, q).isDir THEN HeadOf(b.owns[q]) = HeadOf(a.owns[q]) ELSE b.owns[q] = a.owns[q]
  /\ \A e : IsTable(a.dirs, e) => \E y : IsTable(b.dirs, y) /\ Extends(e, y)

\* An entry of an object is not free.
LEMMA ObjectNotBlank ==
  ASSUME NEW e, IsObject(e)
  PROVE  ~Blank(e)
BY DEF IsObject, Blank, EndOfTable, Deleted

\* What lived lives on.
LEMMA LaterLives ==
  ASSUME NEW a, NEW S, NEW b, Later(a, S, b)
  PROVE  \A q \in Living(a) \ S : q \in Living(b) /\ Row(b.rows, q) = Row(a.rows, q)
<1> TAKE q \in Living(a) \ S
<1>1. q \in (Tables(a) \X (1..PerTable)) \ S /\ IsObject(Row(a.rows, q))  BY PlacesKnown
<1>2. ~Blank(Row(a.rows, q))  BY <1>1, ObjectNotBlank
<1>3. Row(b.rows, q) = Row(a.rows, q) /\ q \in Tables(b) \X (1..PerTable)
  BY <1>1, <1>2 DEF Later
<1>4. q \in Living(b)  BY <1>1, <1>3 DEF Living, Live
<1> QED  BY <1>3, <1>4

\* A later volume kept the files it had.
LEMMA LaterFiles ==
  ASSUME NEW a, NEW S, NEW b, Later(a, S, b)
  PROVE  FilesStay(a, S, b)
<1>1. \A q \in Living(a) \ S : q \in Living(b) /\ Row(b.rows, q) = Row(a.rows, q)  BY LaterLives
<1>2. \A q \in Living(a) \ S : ~Row(a.rows, q).isDir => b.owns[q] = a.owns[q]  BY DEF Later
<1> QED  BY <1>1, <1>2 DEF FilesStay

\* A table is as long as itself.
LEMMA TableLonger ==
  ASSUME NEW a, NEW E, NEW H, Picture(a, E, H), NEW e, IsTable(a.dirs, e)
  PROVE  Extends(e, e)
<1>1. Chained(a.fat, e)  BY TableKnown
<1>2. Len(e) \in Nat  BY <1>1, ChainKind
<1> QED  BY <1>2 DEF Extends

\* A volume that did not change.
LEMMA LaterSame ==
  ASSUME NEW a, NEW E, NEW H, Picture(a, E, H)
  PROVE  \A S : Later(a, S, a)
<1>1. \A e : IsTable(a.dirs, e) => \E y : IsTable(a.dirs, y) /\ Extends(e, y)  BY TableLonger
<1> QED  BY <1>1 DEF Later

\* A table that grew twice.
LEMMA LongerOn ==
  ASSUME NEW e, NEW y, NEW z, Extends(e, y), Extends(y, z)
  PROVE  Extends(e, z)
BY DEF Extends

\* A volume that changed twice.
LEMMA LaterOn ==
  ASSUME NEW a, NEW S, NEW b, Later(a, S, b), NEW R, NEW c, Later(b, R, c), NEW Q, Q = S \cup R
  PROVE  Later(a, Q, c)
<1>1. \A q \in Living(a) \ S : q \in Living(b) /\ Row(b.rows, q) = Row(a.rows, q)  BY LaterLives
<1>2. Tables(a) \subseteq Tables(c) /\ Living(c) \subseteq Living(a) \cup Q  BY DEF Later
<1>3. ASSUME NEW q \in (Tables(a) \X (1..PerTable)) \ Q, ~Blank(Row(a.rows, q))
      PROVE  Row(c.rows, q) = Row(a.rows, q)
  <2>1. Row(b.rows, q) = Row(a.rows, q)  BY <1>3 DEF Later
  <2>2. q \in (Tables(b) \X (1..PerTable)) \ R  BY <1>3 DEF Later
  <2> QED  BY <1>3, <2>1, <2>2 DEF Later
<1>4. ASSUME NEW q \in Living(a) \ Q
      PROVE  IF Row(a.rows, q).isDir THEN HeadOf(c.owns[q]) = HeadOf(a.owns[q]) ELSE c.owns[q] = a.owns[q]
  <2>1. q \in Living(a) \ S /\ q \in Living(b) \ R /\ Row(b.rows, q) = Row(a.rows, q)
    BY <1>1, <1>4
  <2>2. IF Row(a.rows, q).isDir THEN HeadOf(b.owns[q]) = HeadOf(a.owns[q]) ELSE b.owns[q] = a.owns[q]
    BY <2>1 DEF Later
  <2>3. IF Row(b.rows, q).isDir THEN HeadOf(c.owns[q]) = HeadOf(b.owns[q]) ELSE c.owns[q] = b.owns[q]
    BY <2>1 DEF Later
  <2> QED  BY <2>1, <2>2, <2>3
<1>5. ASSUME NEW e, IsTable(a.dirs, e)
      PROVE  \E y : IsTable(c.dirs, y) /\ Extends(e, y)
  <2>1. PICK x : IsTable(b.dirs, x) /\ Extends(e, x)  BY <1>5 DEF Later
  <2>2. PICK y : IsTable(c.dirs, y) /\ Extends(x, y)  BY <2>1 DEF Later
  <2> QED  BY <2>1, <2>2, LongerOn
<1> QED  BY <1>2, <1>3, <1>4, <1>5 DEF Later

\* An entry that was blank is written.
LEMMA LaterAt ==
  ASSUME NEW a, NEW E, NEW H, Picture(a, E, H), NEW p \in Tables(a) \X (1..PerTable), Blank(Row(a.rows, p)),
         NEW b, OnlyAt(a, p, b), p \in Living(b) <=> IsObject(Row(b.rows, p))
  PROVE  /\ IsObject(Row(b.rows, p)) => Later(a, {p}, b)
         /\ ~IsObject(Row(b.rows, p)) => Later(a, {}, b)
<1>1. Tables(b) = Tables(a) /\ b.dirs = a.dirs /\ p \notin Living(a)
  <2>1. p \notin Living(a)  BY PlacesKnown, ObjectNotBlank
  <2> QED  BY <2>1 DEF OnlyAt
<1>2. \A q \in Tables(a) \X (1..PerTable) : q # p =>
        (q \in Living(b) <=> q \in Living(a)) /\ Row(b.rows, q) = Row(a.rows, q)
        /\ (q \in Living(a) => b.owns[q] = a.owns[q])
  BY DEF OnlyAt
<1>3. \A q \in Living(b) : q \in Tables(a) \X (1..PerTable)  BY <1>1, PlacesKnown
<1>4. \A q \in Living(a) : q \in Tables(a) \X (1..PerTable)  BY PlacesKnown
<1>5. \A e : IsTable(a.dirs, e) => \E y : IsTable(b.dirs, y) /\ Extends(e, y)
  BY <1>1, TableLonger
<1>6. \A S : (S \subseteq {p} /\ (p \in Living(b) => p \in S)) => Later(a, S, b)
  <2> TAKE S
  <2> HAVE S \subseteq {p} /\ (p \in Living(b) => p \in S)
  <2>1. \A q \in (Tables(a) \X (1..PerTable)) \ S : ~Blank(Row(a.rows, q)) => Row(b.rows, q) = Row(a.rows, q)
    BY <1>2
  <2>2. Living(b) \subseteq Living(a) \cup S  BY <1>2, <1>3
  <2>3. \A q \in Living(a) : b.owns[q] = a.owns[q]  BY <1>1, <1>2, <1>4
  <2> QED  BY <1>1, <1>5, <2>1, <2>2, <2>3 DEF Later
<1> QED  BY <1>6

\* A cluster becomes a table, or more of one.
WithTable(a, e, n, x, G, y) ==
  [fat |-> G, rows |-> [s \in Tables(a) \cup {DataSector(n)} |-> IF s = DataSector(n) THEN x ELSE a.rows[s]],
   chains |-> Swap(a.chains, e, y), dirs |-> Swap(a.dirs, e, y),
   owns |-> [q \in Living(a) |-> IF e # <<>> /\ a.owns[q] = e /\ Row(a.rows, q).isDir THEN y ELSE a.owns[q]]]
IsBare(x) == DOMAIN x = 1..PerTable /\ \A i \in 1..PerTable : IsEntry(x[i]) /\ ~IsObject(x[i])

\* The clusters of a chain that grew.
LEMMA CellsGrown ==
  ASSUME NEW F, NEW e, Chained(F, e), NEW n, NEW G, NEW y, GrownBy(F, e, n, G, y)
  PROVE  Cells(y) = Cells(e) \cup {n} /\ y # <<>> /\ y[1] = (IF e = <<>> THEN n ELSE e[1])
         /\ (e # <<>> => Extends(e, y))
<1>1. Path(G, y) /\ Len(y) = Len(e) + 1 /\ y[Len(y)] = n /\ \A i \in 1..Len(e) : y[i] = e[i]
  BY DEF GrownBy
<1>2. Len(e) \in Nat /\ (e = <<>> <=> Len(e) = 0)  BY ChainKind
<1>3. y # <<>> /\ HeadOf(y) = y[1]  BY <1>1, PathNotEmpty
<1>4. Cells(y) = Cells(e) \cup {n}  BY <1>1, <1>2 DEF Cells
<1>5. y[1] = IF e = <<>> THEN n ELSE e[1]  BY <1>3 DEF GrownBy
<1> QED  BY <1>1, <1>2, <1>3, <1>4, <1>5 DEF Extends

\* A free cluster is in no chain and holds no table.
LEMMA FreeNoTable ==
  ASSUME NEW a, NEW E, NEW H, Picture(a, E, H), NEW n \in Clusters, a.fat[n] = 0
  PROVE  DataSector(n) \notin Tables(a) /\ \A d \in a.chains : n \notin Cells(d)
<1>1. ASSUME NEW d \in a.chains PROVE n \notin Cells(d)
  <2>1. Chained(a.fat, d)  BY <1>1, PathNotEmpty DEF Picture, Family
  <2>2. \A i \in 1..Len(d) : a.fat[d[i]] # 0  BY <2>1, ChainKind
  <2> QED  BY <2>2 DEF Cells
<1>2. a.dirs \subseteq a.chains  BY DEF Picture
<1>3. \A c : DataSector(c) \in Tables(a) <=> \E d \in a.dirs : c \in Cells(d)
  BY TablesKnown DEF Tables
<1> QED  BY <1>1, <1>2, <1>3

TableLaid(a, e, n, y, b) ==
  /\ Tables(b) = Tables(a) \cup {DataSector(n)} /\ Living(b) = Living(a) /\ HoldEntries(Tables(b), b.rows)
  /\ \A q \in Tables(a) \X (1..PerTable) : Row(b.rows, q) = Row(a.rows, q)
  /\ y \in b.dirs /\ \A d \in a.dirs : d # e => d \in b.dirs

\* The tables after one grew, or a new one was made.
LEMMA TableWith ==
  ASSUME NEW a, NEW E, NEW H, Picture(a, E, H), NEW e \in a.dirs \cup {<<>>}, NEW n \in Clusters, a.fat[n] = 0,
         NEW G, NEW y, GrownBy(a.fat, e, n, G, y), NEW x, IsBare(x), NEW b, b = WithTable(a, e, n, x, G, y)
  PROVE  TableLaid(a, e, n, y, b)
<1> DEFINE s == DataSector(n)
           T == Tables(a)
<1>1. Family(a.fat, a.chains) /\ a.dirs \subseteq a.chains /\ HoldEntries(T, a.rows)
  BY DEF Picture
<1>2. Chained(a.fat, e)  BY <1>1, PathNotEmpty DEF Family, Chained
<1>3. Cells(y) = Cells(e) \cup {n} /\ y # <<>>  BY <1>2, CellsGrown
<1>4. s \notin T  BY FreeNoTable
<1>5. b.dirs = (a.dirs \ {e}) \cup {y}  BY <1>3 DEF WithTable, Swap
<1>6. y \in b.dirs /\ \A d \in a.dirs : d # e => d \in b.dirs  BY <1>5
<1>7. \A c : (\E d \in b.dirs : c \in Cells(d)) <=> c = n \/ \E d \in a.dirs : c \in Cells(d)
  <2>1. Cells(<<>>) = {}  BY DEF Cells
  <2> QED  BY <1>3, <1>5, <2>1
<1>8. Tables(b) = T \cup {s}
  <2>1. UNION {Cells(d) : d \in b.dirs} = {n} \cup UNION {Cells(d) : d \in a.dirs}  BY <1>7
  <2> QED  BY <2>1 DEF Tables, TablesOf
<1>9. b.rows = [z \in T \cup {s} |-> IF z = s THEN x ELSE a.rows[z]]  BY DEF WithTable
<1> HIDE DEF s, T
<1>10. b.rows[s] = x /\ \A z \in T : b.rows[z] = a.rows[z]  BY <1>4, <1>9
<1>11. \A q \in T \X (1..PerTable) : Row(b.rows, q) = Row(a.rows, q)  BY <1>10 DEF Row
<1>12. HoldEntries(Tables(b), b.rows)  BY <1>1, <1>8, <1>10 DEF HoldEntries, IsBare
<1>13. Living(b) = Living(a)
  <2>1. \A q \in {s} \X (1..PerTable) : ~IsObject(Row(b.rows, q))  BY <1>10 DEF Row, IsBare
  <2>2. Living(b) = {q \in (T \cup {s}) \X (1..PerTable) : IsObject(Row(b.rows, q))}
    BY <1>8 DEF Living, Live
  <2>3. Living(a) = {q \in T \X (1..PerTable) : IsObject(Row(a.rows, q))}
    BY DEF Living, Live, T
  <2>4. \A q : q \in (T \cup {s}) \X (1..PerTable) => q \in T \X (1..PerTable) \/ q \in {s} \X (1..PerTable)  OBVIOUS
  <2>5. \A q : q \in T \X (1..PerTable) => q \in (T \cup {s}) \X (1..PerTable)  OBVIOUS
  <2> QED  BY <1>11, <2>1, <2>2, <2>3, <2>4, <2>5
<1> QED  BY <1>6, <1>8, <1>11, <1>12, <1>13 DEF s, T, TableLaid

TablePlaced(a, E, H, n, G, y, b) ==
  /\ Picture(b, E, H) /\ Later(a, {}, b) /\ y \in b.dirs /\ Tables(b) = Tables(a) \cup {DataSector(n)}
  /\ Living(b) = Living(a) /\ b.fat = G
  /\ \A q \in Living(a) : HeadOf(b.owns[q]) = HeadOf(a.owns[q])

\* A table that grew by a cleared cluster makes a picture again.
LEMMA TablePictured ==
  ASSUME NEW a, NEW E, NEW H, Picture(a, E, H), NEW e \in a.dirs \cup {<<>>}, NEW n \in Clusters, a.fat[n] = 0,
         NEW G, NEW y, GrownBy(a.fat, e, n, G, y), NEW x, IsBare(x), NEW b, b = WithTable(a, e, n, x, G, y)
  PROVE  TablePlaced(a, E, H, n, G, y, b)
<1>1. /\ Tables(b) = Tables(a) \cup {DataSector(n)} /\ Living(b) = Living(a) /\ HoldEntries(Tables(b), b.rows)
      /\ \A q \in Tables(a) \X (1..PerTable) : Row(b.rows, q) = Row(a.rows, q)
      /\ y \in b.dirs /\ \A d \in a.dirs : d # e => d \in b.dirs
  <2>1. TableLaid(a, e, n, y, b)  BY TableWith
  <2> QED  BY <2>1 DEF TableLaid
<1>2. Family(a.fat, a.chains) /\ a.dirs \subseteq a.chains  BY DEF Picture
<1>3. Chained(a.fat, e) /\ (e # <<>> => Path(a.fat, e))
  BY <1>2, PathNotEmpty DEF Family, Chained
<1>4. Cells(y) = Cells(e) \cup {n} /\ y # <<>> /\ y[1] = (IF e = <<>> THEN n ELSE e[1]) /\ (e # <<>> => Extends(e, y))
  BY <1>3, CellsGrown
<1>5. Beside(a.fat, e, G, y) /\ Chained(G, y) /\ Path(G, y) /\ HeadOf(y) = y[1]
  BY <1>4 DEF GrownBy, Chained, HeadOf
<1>6. /\ Family(G, Swap(a.chains, e, y))
      /\ \A d \in a.chains : d # e => d # y /\ d \in Swap(a.chains, e, y) /\ Path(G, d) /\ Cells(d) \cap Cells(y) = {}
  <2>1. e \in a.chains \cup {<<>>}  BY <1>2
  <2> QED  BY <1>2, <1>5, <2>1, FamilyAfter
<1>7. b.fat = G /\ b.chains = (a.chains \ {e}) \cup {y} /\ b.dirs = (a.dirs \ {e}) \cup {y}
      /\ b.chains = Swap(a.chains, e, y)
      /\ \A q \in Living(a) : b.owns[q] = IF e # <<>> /\ a.owns[q] = e /\ Row(a.rows, q).isDir THEN y ELSE a.owns[q]
  BY <1>4 DEF WithTable, Swap
<1>8. y \notin a.chains \/ y = e
  BY <1>6
<1>9. \A q \in Living(a) : HeadOf(b.owns[q]) = HeadOf(a.owns[q])
  BY <1>4, <1>5, <1>7 DEF HeadOf
<1>10. ASSUME NEW q \in Living(a) \ E
       PROVE  /\ Owner(b.chains, b.dirs, Row(b.rows, q), b.owns[q], q \in H)
              /\ ~Row(a.rows, q).isDir => b.owns[q] = a.owns[q]
  <2>1. q \in Tables(a) \X (1..PerTable) /\ Row(b.rows, q) = Row(a.rows, q)
    BY <1>1, <1>10, PlacesKnown
  <2>2. Owner(a.chains, a.dirs, Row(a.rows, q), a.owns[q], q \in H)  BY <1>10 DEF Picture
  <2>3. CASE Row(a.rows, q).isDir
    <3>1. a.owns[q] \in a.dirs /\ Row(a.rows, q).clust = HeadOf(a.owns[q]) /\ (Fat32 => HeadOf(a.owns[q]) # 2)
      BY <2>2, <2>3 DEF Owner
    <3>2. b.owns[q] \in b.dirs
      <4>1. CASE e # <<>> /\ a.owns[q] = e  BY <1>7, <1>10, <2>3, <4>1
      <4>2. CASE ~(e # <<>> /\ a.owns[q] = e)
        <5>1. a.owns[q] # e \/ e = <<>>  BY <4>2
        <5>2. a.owns[q] # <<>>  BY <1>2, <3>1, PathNotEmpty DEF Family
        <5> QED  BY <1>7, <1>10, <3>1, <4>2, <5>1, <5>2
      <4> QED  BY <4>1, <4>2
    <3> QED  BY <1>9, <1>10, <2>1, <2>3, <3>1, <3>2 DEF Owner
  <2>4. CASE ~Row(a.rows, q).isDir
    <3>1. a.owns[q] \in (a.chains \ a.dirs) \cup {<<>>}
          /\ (q \notin H => Row(a.rows, q).clust = HeadOf(a.owns[q]) /\ Len(a.owns[q]) = SectorsFor(Row(a.rows, q).size))
      BY <2>2, <2>4 DEF Owner
    <3>3. b.owns[q] = a.owns[q]  BY <1>7, <1>10, <2>4
    <3>4. b.owns[q] \in (b.chains \ b.dirs) \cup {<<>>}
      <4>1. CASE a.owns[q] = <<>>  BY <3>3, <4>1
      <4>2. CASE a.owns[q] # <<>>
        <5>1. a.owns[q] \in a.chains \ a.dirs /\ a.owns[q] # e  BY <3>1, <4>2
        <5>2. a.owns[q] # y  BY <1>6, <5>1
        <5> QED  BY <1>7, <3>3, <5>1, <5>2
      <4> QED  BY <4>1, <4>2
    <3> QED  BY <2>1, <2>4, <3>1, <3>3, <3>4 DEF Owner
  <2> QED  BY <2>3, <2>4
<1>11. \A q, z \in Living(a) \ E : b.owns[q] = b.owns[z] /\ b.owns[q] # <<>> => q = z
  <2> TAKE q, z \in Living(a) \ E
  <2> HAVE b.owns[q] = b.owns[z] /\ b.owns[q] # <<>>
  <2>1. a.owns[q] = a.owns[z] /\ a.owns[q] # <<>> => q = z  BY DEF Picture
  <2>4. \A u \in Living(a) \ E : e # <<>> /\ a.owns[u] = e => Row(a.rows, u).isDir
    <3> TAKE u \in Living(a) \ E
    <3>1. Owner(a.chains, a.dirs, Row(a.rows, u), a.owns[u], u \in H)  BY DEF Picture
    <3> QED  BY <3>1 DEF Owner
  <2>2. \A u \in Living(a) \ E : a.owns[u] \in a.chains \cup {<<>>}
    <3> TAKE u \in Living(a) \ E
    <3>1. Owner(a.chains, a.dirs, Row(a.rows, u), a.owns[u], u \in H)  BY DEF Picture
    <3> QED  BY <1>2, <3>1 DEF Owner
  <2>3. \A u \in Living(a) \ E : a.owns[u] = y => u \in Living(a) /\ y = e  BY <1>4, <1>8, <2>2
  <2> QED  BY <1>4, <1>7, <2>1, <2>3, <2>4
<1>12. Fat32 => \E d \in b.dirs : d[1] = 2
  <2> HAVE Fat32
  <2>1. PICK d \in a.dirs : d[1] = 2  BY DEF Picture
  <2>2. CASE d = e
    <3>1. e # <<>>  BY <1>2, <2>2, PathNotEmpty DEF Family
    <3> QED  BY <1>4, <1>7, <2>1, <2>2, <3>1
  <2> QED  BY <1>7, <2>1, <2>2
<1>13. b.dirs \subseteq b.chains  BY <1>2, <1>7
<1>14. Picture(b, E, H)  BY <1>1, <1>6, <1>7, <1>10, <1>11, <1>12, <1>13 DEF Picture
<1>15. Later(a, {}, b)
  <2>1. ASSUME NEW d, IsTable(a.dirs, d)
        PROVE  \E z : IsTable(b.dirs, z) /\ Extends(d, z)
    <3>1. CASE d = e /\ e # <<>>  BY <1>1, <1>4, <3>1 DEF IsTable
    <3>2. CASE ~(d = e /\ e # <<>>)
      <4>1. Extends(d, d)  BY <2>1, TableLonger
      <4>2. IsTable(b.dirs, d)
        <5>1. CASE d \in a.dirs
          <6>1. d # <<>>  BY <1>2, <5>1, PathNotEmpty DEF Family
          <6>2. d # e  BY <3>2, <6>1
          <6> QED  BY <1>1, <5>1, <6>2 DEF IsTable
        <5> QED  BY <2>1, <5>1 DEF IsTable
      <4> QED  BY <4>1, <4>2
    <3> QED  BY <3>1, <3>2
  <2>2. ASSUME NEW q \in Living(a)
        PROVE  IF Row(a.rows, q).isDir THEN HeadOf(b.owns[q]) = HeadOf(a.owns[q]) ELSE b.owns[q] = a.owns[q]
    <3> QED  BY <1>7, <1>9, <2>2
  <2> QED  BY <1>1, <2>1, <2>2 DEF Later
<1> QED  BY <1>1, <1>7, <1>9, <1>14, <1>15 DEF TablePlaced

\* A chain that nobody owns is freed.
WithoutChain(a, x, G) ==
  [fat |-> G, rows |-> [s \in TablesOf(a.dirs \ {x}) |-> a.rows[s]],
   chains |-> a.chains \ {x}, dirs |-> a.dirs \ {x}, owns |-> a.owns]
\* The places in the sectors of a chain that is a table.
PlacesOf(a, x) == {p \in Tables(a) \X (1..PerTable) : x \in a.dirs /\ \E c \in Cells(x) : p[1] = DataSector(c)}
\* The objects but those at places of P stay as they are, and there are no others.
Remain(a, P, b) ==
  Living(b) = Living(a) \ P /\ \A q \in Living(b) : Row(b.rows, q) = Row(a.rows, q) /\ b.owns[q] = a.owns[q]

\* A volume that lost some entries kept the files it had.
LEMMA RemainFiles ==
  ASSUME NEW a, NEW P, NEW b, Remain(a, P, b)
  PROVE  FilesStay(a, P, b)
BY DEF Remain, FilesStay

\* The tables that are left when one is given up.
LEMMA TablesLess ==
  ASSUME NEW a, NEW E, NEW H, Picture(a, E, H), NEW x \in a.chains, NEW T, T = TablesOf(a.dirs \ {x})
  PROVE  /\ T \subseteq Tables(a)
         /\ \A p \in Tables(a) \X (1..PerTable) : p[1] \in T <=> p \notin PlacesOf(a, x)
<1>1. Family(a.fat, a.chains) /\ a.dirs \subseteq a.chains  BY DEF Picture
<1> DEFINE D == a.dirs \ {x}
           R == a.dirs
<1>2. /\ \A c : DataSector(c) \in T <=> \E e \in D : c \in Cells(e)
      /\ RootSectors \subseteq T /\ \A s \in T : s \in RootSectors \/ \E e \in D : \E c \in Cells(e) : s = DataSector(c)
  BY TablesKnown
<1>3. /\ \A c : DataSector(c) \in Tables(a) <=> \E e \in R : c \in Cells(e)
      /\ RootSectors \subseteq Tables(a)
      /\ \A s \in Tables(a) : s \in RootSectors \/ \E e \in R : \E c \in Cells(e) : s = DataSector(c)
  BY TablesKnown DEF Tables
<1>4. T \subseteq Tables(a)  BY <1>2, <1>3
<1>5. \A c, k : DataSector(c) # RootSector(k)  BY SectorsApart
<1>6. \A c, d : DataSector(c) = DataSector(d) => c = d  BY SectorsApart
<1>7. ASSUME NEW s \in Tables(a)
      PROVE  s \in T <=> ~(x \in a.dirs /\ \E c \in Cells(x) : s = DataSector(c))
  <2>1. CASE s \in RootSectors
    <3>1. \A c : s # DataSector(c)  BY <1>5, <2>1 DEF RootSectors
    <3> QED  BY <1>2, <2>1, <3>1
  <2>2. CASE s \notin RootSectors
    <3>1. PICK e \in R : \E c \in Cells(e) : s = DataSector(c)  BY <1>3, <2>2
    <3>2. PICK c \in Cells(e) : s = DataSector(c)  BY <3>1
    <3>3. \A d \in a.chains : c \in Cells(d) => d = e  BY <1>1, <3>1, <3>2 DEF Family
    <3>4. s \in T <=> \E d \in D : c \in Cells(d)  BY <1>2, <3>2
    <3>5. s \in T <=> e # x  BY <1>1, <3>1, <3>2, <3>3, <3>4
    <3>6. (x \in a.dirs /\ \E z \in Cells(x) : s = DataSector(z)) <=> e = x
      <4>1. ASSUME NEW z \in Cells(x), s = DataSector(z) PROVE e = x
        BY <1>1, <1>6, <3>2, <3>3, <4>1
      <4> QED  BY <3>1, <3>2, <4>1
    <3> QED  BY <3>5, <3>6
  <2> QED  BY <2>1, <2>2
<1>8. \A p \in Tables(a) \X (1..PerTable) : p[1] \in Tables(a)  OBVIOUS
<1> QED  BY <1>4, <1>7, <1>8 DEF PlacesOf

IsDropped(a, E, H, x, G, b) ==
  /\ Picture(b, E, H) /\ Remain(a, PlacesOf(a, x), b)
  /\ b.fat = G /\ Tables(b) = TablesOf(a.dirs \ {x})

\* A chain that no entry owns is freed.
LEMMA ChainDropped ==
  ASSUME NEW a, NEW E, NEW H, Picture(a, E, H), NEW x \in a.chains, \A q \in Living(a) \ E : a.owns[q] # x,
         Fat32 => x[1] # 2, NEW G, Beside(a.fat, x, G, <<>>), NEW b, b = WithoutChain(a, x, G)
  PROVE  IsDropped(a, E, H, x, G, b)
<1> DEFINE T == TablesOf(a.dirs \ {x})
           y == <<>>
           P == PlacesOf(a, x)
<1>1. Family(a.fat, a.chains) /\ a.dirs \subseteq a.chains /\ HoldEntries(Tables(a), a.rows)
  BY DEF Picture
<1>2. /\ T \subseteq Tables(a)
      /\ \A p \in Tables(a) \X (1..PerTable) : p[1] \in T <=> p \notin P
  BY TablesLess
<1>3. b.fat = G /\ b.rows = [s \in T |-> a.rows[s]] /\ b.chains = a.chains \ {x} /\ b.dirs = a.dirs \ {x} /\ b.owns = a.owns
  BY DEF WithoutChain
<1>4. Tables(b) = T  BY <1>3 DEF Tables
<1>5. Family(G, b.chains)
  <2>1. Chained(G, y) /\ Beside(a.fat, x, G, y) /\ x \in a.chains \cup {<<>>}  BY DEF Chained
  <2>2. Swap(a.chains, x, y) = b.chains  BY <1>3 DEF Swap
  <2> HIDE DEF y
  <2>3. Family(G, Swap(a.chains, x, y))  BY <1>1, <2>1, FamilyAfter
  <2> QED  BY <2>2, <2>3
<1> HIDE DEF T, P
<1>6. \A q \in T \X (1..PerTable) : Row(b.rows, q) = Row(a.rows, q)  BY <1>3 DEF Row
<1>7. HoldEntries(Tables(b), b.rows)  BY <1>1, <1>2, <1>3, <1>4 DEF HoldEntries
<1>8. Living(b) = Living(a) \ P
  <2>1. Living(b) = {q \in T \X (1..PerTable) : IsObject(Row(b.rows, q))}
    BY <1>4 DEF Living, Live
  <2>2. Living(a) = {q \in Tables(a) \X (1..PerTable) : IsObject(Row(a.rows, q))}
    BY DEF Living, Live
  <2>3. \A q : q \in T \X (1..PerTable) <=> q \in Tables(a) \X (1..PerTable) /\ q[1] \in T
    BY <1>2
  <2> QED  BY <1>2, <1>6, <2>1, <2>2, <2>3
<1>9. \A q \in Living(b) : q \in Living(a) /\ Row(b.rows, q) = Row(a.rows, q) /\ b.owns[q] = a.owns[q]
  BY <1>3, <1>4, <1>6, <1>8, PlacesKnown
<1>10. ASSUME NEW q \in Living(b) \ E
       PROVE  Owner(b.chains, b.dirs, Row(b.rows, q), b.owns[q], q \in H)
  <2>1. q \in Living(a) \ E /\ Row(b.rows, q) = Row(a.rows, q) /\ b.owns[q] = a.owns[q] /\ a.owns[q] # x
    BY <1>9, <1>10
  <2>2. Owner(a.chains, a.dirs, Row(a.rows, q), a.owns[q], q \in H)  BY <2>1 DEF Picture
  <2> QED  BY <1>3, <2>1, <2>2 DEF Owner
<1>11. \A p, q \in Living(b) \ E : b.owns[p] = b.owns[q] /\ b.owns[p] # <<>> => p = q
  <2>1. \A p, q \in Living(a) \ E : a.owns[p] = a.owns[q] /\ a.owns[p] # <<>> => p = q
    BY DEF Picture
  <2> QED  BY <1>9, <2>1
<1>12. Fat32 => \E e \in b.dirs : e[1] = 2
  <2> HAVE Fat32
  <2>1. PICK e \in a.dirs : e[1] = 2  BY DEF Picture
  <2> QED  BY <1>3, <2>1
<1>13. b.dirs \subseteq b.chains  BY <1>1, <1>3
<1>14. Picture(b, E, H)  BY <1>3, <1>5, <1>7, <1>10, <1>11, <1>12, <1>13 DEF Picture
<1>15. Remain(a, P, b)  BY <1>8, <1>9 DEF Remain
<1> QED  BY <1>3, <1>4, <1>14, <1>15 DEF T, P, IsDropped

\* remove_chain of such a chain.
LEMMA ShowsLess ==
  ASSUME NEW v, NEW T, NEW F, NEW X, Shows(v, T, F, X), v.sect \in FirstCopy, NEW U \in SUBSET T
  PROVE  Shows(v, U, F, [s \in U |-> X[s]])
<1> DEFINE Y == [s \in U |-> X[s]]
<1>1. Volume(v, T) /\ T \subseteq MayBeTables /\ F \in Fats /\ X = [s \in T |-> X[s]]
      /\ (\A c \in Clusters : F[c] # 1) /\ \A s \in FirstCopy \cup T : Seen(v, s) = Holding(F, X, s)
  BY DEF Shows
<1>2. Volume(v, U)  BY <1>1 DEF Volume
<1>3. \A s \in U : Y[s] = X[s]  OBVIOUS
<1>4. Y = [s \in U |-> Y[s]]  OBVIOUS
<1> HIDE DEF Y
<1>5. \A s \in FirstCopy \cup U : Seen(v, s) = Holding(F, Y, s)  BY <1>1, <1>3 DEF Holding
<1>6. Shows(v, U, F, Y)  BY <1>1, <1>2, <1>4, <1>5 DEF Shows
<1> QED  BY <1>6 DEF Y

\* remove_chain frees it.
LEMMA ChainTaken ==
  ASSUME NEW v, NEW a, NEW E, NEW H, Sees(v, a, E, H), NEW x \in a.chains, \A q \in Living(a) \ E : a.owns[q] # x,
         Fat32 => x[1] # 2, NEW r, r = RemoveChain(v, x[1])
  PROVE  Goes(r) /\ r = Ok(r.v) /\ r.v.sect \in FirstCopy
         /\ \E b : Sees(r.v, b, E, H) /\ Remain(a, PlacesOf(a, x), b) /\ b.dirs = a.dirs \ {x}
<1> DEFINE F == a.fat
           G == Zeroed(F, Firsts(x, Len(x)))
           T == Tables(a)
           X == a.rows
           U == TablesOf(a.dirs \ {x})
           c == WithoutChain(a, x, G)
<1>1. Picture(a, E, H) /\ Shows(v, T, F, X)  BY DEF Sees, Drawn
<1>2. Path(F, x)  BY <1>1 DEF Picture, Family
<1>3. Goes(r) /\ r = Ok(r.v) /\ Shows(r.v, T, G, X) /\ r.v.sect \in FirstCopy
  BY <1>1, <1>2, ChainFreed
<1>4. Beside(F, x, G, <<>>)
  <2>1. F \in Fats /\ G = Zeroed(F, Firsts(x, Len(x)))  BY <1>1 DEF Shows
  <2> HIDE DEF F, G
  <2> QED  BY <1>2, <2>1, FreedPath
<1>5. c = WithoutChain(a, x, G)  OBVIOUS
<1>6. U \in SUBSET T  BY <1>1, TablesLess
<1>7. c.rows = [s \in U |-> X[s]] /\ c.dirs = a.dirs \ {x}  BY DEF WithoutChain
<1> HIDE DEF c, G, U
<1>8. Picture(c, E, H) /\ Remain(a, PlacesOf(a, x), c) /\ c.fat = G /\ Tables(c) = U
  <2>1. Picture(a, E, H) /\ Beside(a.fat, x, G, <<>>) /\ c = WithoutChain(a, x, G)
    BY <1>1, <1>4, <1>5
  <2>2. IsDropped(a, E, H, x, G, c)  BY <2>1, ChainDropped
  <2> QED  BY <2>2 DEF IsDropped, U
<1> DEFINE w == r.v
<1>9. Shows(w, T, G, X) /\ w.sect \in FirstCopy  BY <1>3
<1> HIDE DEF w, T, X
<1>10. Shows(w, U, G, [s \in U |-> X[s]])  BY <1>6, <1>9, ShowsLess
<1>11. Drawn(w, c)  BY <1>7, <1>8, <1>10 DEF Drawn
<1>12. Sees(w, c, E, H) /\ Remain(a, PlacesOf(a, x), c) /\ c.dirs = a.dirs \ {x}
  BY <1>7, <1>8, <1>11 DEF Sees
<1>13. \E b : Sees(w, b, E, H) /\ Remain(a, PlacesOf(a, x), b) /\ b.dirs = a.dirs \ {x}
  BY <1>12
<1>14. \E b : Sees(r.v, b, E, H) /\ Remain(a, PlacesOf(a, x), b) /\ b.dirs = a.dirs \ {x}
  BY <1>13 DEF w
<1> QED  BY <1>3, <1>14

----------------------------------------------------------------------------
(* A table is stretched by a cluster.                                      *)

\* The window becomes that of another sector, to be written.
Turned(v, s, x) == [v EXCEPT !.win = x, !.sect = s, !.dirty = TRUE]
MoreTables(T, s) == T \cup {s}
MoreRows(X, s, x, U) == [q \in U |-> IF q = s THEN x ELSE X[q]]
TurnedTo(v, T, X, s, x, w, U, Y) ==
  w = Turned(v, s, x) /\ U = MoreTables(T, s) /\ Y = MoreRows(X, s, x, U) /\ s \in DataSectors \ T /\ v.dirty = FALSE

\* The buffer is turned to a sector of a new table.
LEMMA TurnedShows ==
  ASSUME NEW v, NEW T, NEW F, NEW X, Shows(v, T, F, X), NEW s, NEW x, NEW w, NEW U, NEW Y,
         TurnedTo(v, T, X, s, x, w, U, Y)
  PROVE  Shows(w, U, F, Y) /\ w.sect = s /\ w.win = x
<1>0. U = T \cup {s} /\ w = Turned(v, s, x) /\ Y = MoreRows(X, s, x, U) /\ s \in DataSectors \ T /\ v.dirty = FALSE
  BY DEF MoreTables, TurnedTo
<1>1. Volume(v, T) /\ T \subseteq MayBeTables /\ F \in Fats /\ (\A c \in Clusters : F[c] # 1)
      /\ \A q \in FirstCopy \cup T : Seen(v, q) = Holding(F, X, q)
  BY DEF Shows
<1>2. HasFields(v) /\ IsTrace(v.fault) /\ v.disk = [q \in ImageSectors |-> v.disk[q]]
      /\ (v.sect \in FirstCopy \cup T => v.win = v.disk[v.sect])
  BY <1>0, <1>1 DEF Volume
<1>3. HasFields(w) /\ w.win = x /\ w.sect = s /\ w.dirty = TRUE /\ w.disk = v.disk /\ w.fault = v.fault
  BY <1>0, <1>2 DEF Turned, HasFields
<1>4. s \in MayBeTables /\ s \notin FirstCopy /\ s \in U /\ U \subseteq MayBeTables
  BY <1>0, <1>1, SectorsApart DEF MayBeTables
<1>5. Volume(w, U)  BY <1>2, <1>3, <1>4 DEF Volume
<1>6. \A q \in FirstCopy \cup T : v.disk[q] = Holding(F, X, q)  BY <1>1, <1>2 DEF Seen
<1>7. Y = [q \in U |-> Y[q]] /\ Y[s] = x /\ \A q \in U : q # s => Y[q] = X[q]
  BY <1>0, <1>4 DEF MoreRows
<1>8. ASSUME NEW q \in FirstCopy \cup U
      PROVE  Seen(w, q) = Holding(F, Y, q)
  <2>1. CASE q = s  BY <1>3, <1>4, <1>7, <2>1 DEF Seen, Holding
  <2>2. CASE q # s
    <3>1. q \in FirstCopy \cup T  BY <1>0, <1>8, <2>2
    <3>2. Seen(w, q) = v.disk[q] /\ v.disk[q] = Holding(F, X, q)
      BY <1>3, <1>6, <2>2, <3>1 DEF Seen
    <3>3. Holding(F, X, q) = Holding(F, Y, q)  BY <1>7, <1>8, <2>2 DEF Holding
    <3> QED  BY <3>2, <3>3
  <2> QED  BY <2>1, <2>2
<1> QED  BY <1>1, <1>3, <1>4, <1>5, <1>7, <1>8 DEF Shows

\* create_chain for a table, or for a new one.
TableGrown(a, e, n, G, y, v) ==
  n \in Clusters /\ a.fat[n] = 0 /\ GrownBy(a.fat, e, n, G, y) /\ Shows(v, Tables(a), G, a.rows)

\* create_chain adds a cluster to a table, or finds the disk full.
LEMMA TableGrows ==
  ASSUME NEW v, NEW a, NEW E, NEW H, Sees(v, a, E, H), NEW e \in a.dirs \cup {<<>>},
         NEW r, r = CreateChain(v, LastOf(e))
  PROVE  \/ r.val = 0 /\ Sees(r.v, a, E, H)
         \/ \E G, y : TableGrown(a, e, r.val, G, y, r.v)
<1> DEFINE F == a.fat
           T == Tables(a)
           X == a.rows
           c == LastOf(e)
<1>1. Shows(v, T, F, X) /\ Picture(a, E, H) /\ F \in Fats  BY DEF Sees, Drawn, Shows
<1>2. Chained(F, e)  BY <1>1 DEF Picture, Family, Chained
<1> HIDE DEF F, T, X
<1>3. Grown(T, F, X, c, r)
  <2>1. CASE e = <<>>
    <3>1. c = 0  BY <2>1 DEF LastOf
    <3> QED  BY <1>1, <3>1, ChainBegun
  <2>2. CASE e # <<>>
    <3>1. Len(e) > 0 /\ c = e[Len(e)] /\ c \in Clusters /\ F[c] = LastLink
      BY <1>2, <2>2, ChainKind DEF LastOf
    <3>2. r = CreateChain(v, c)  OBVIOUS
    <3> HIDE DEF c
    <3> QED  BY <1>1, <3>1, <3>2, ChainFollowed
  <2> QED  BY <2>1, <2>2
<1>4. CASE r.val = 0
  <2>1. Shows(r.v, T, F, X)  BY <1>3, <1>4 DEF Grown, Clusters
  <2> QED  BY <1>1, <1>4, <2>1 DEF Sees, Drawn, T, F, X
<1>5. CASE r.val # 0
  <2> DEFINE n == r.val
             G == Linked(F, LastOf(e), n)
             y == Append(e, n)
  <2>1. n \in Clusters /\ F[n] = 0 /\ Shows(r.v, T, G, X)  BY <1>3, <1>5 DEF Grown
  <2>2. G = Linked(F, LastOf(e), n) /\ y = Append(e, n)  OBVIOUS
  <2> HIDE DEF n, G, y
  <2>3. GrownBy(F, e, n, G, y)  BY <1>1, <1>2, <2>1, <2>2, GrownPath
  <2>4. TableGrown(a, e, n, G, y, r.v)  BY <2>1, <2>3 DEF TableGrown, T, F, X
  <2> QED  BY <2>4 DEF n
<1> QED  BY <1>4, <1>5

\* More tables, but no other entry.
Longer(a, b) ==
  /\ Later(a, {}, b) /\ Living(b) = Living(a)
  /\ \A q \in Tables(a) \X (1..PerTable) : Row(b.rows, q) = Row(a.rows, q)
  /\ \A q \in Living(a) : HeadOf(b.owns[q]) = HeadOf(a.owns[q])

\* A volume that did not change has not shrunk.
LEMMA LongerSame ==
  ASSUME NEW a, NEW E, NEW H, Picture(a, E, H)
  PROVE  Longer(a, a)
BY LaterSame DEF Longer

\* A volume that grew twice.
LEMMA LongerAgain ==
  ASSUME NEW a, NEW b, NEW c, Longer(a, b), Longer(b, c)
  PROVE  Longer(a, c)
<1> DEFINE N == {}
<1>1. Later(a, N, b) /\ Later(b, N, c) /\ N = N \cup N  BY DEF Longer
<1> HIDE DEF N
<1>2. Later(a, N, c)  BY <1>1, LaterOn
<1>3. \A q \in Tables(a) \X (1..PerTable) : q \in Tables(b) \X (1..PerTable)  BY <1>1 DEF Later
<1>4. \A q \in Tables(a) \X (1..PerTable) : Row(c.rows, q) = Row(a.rows, q)  BY <1>3 DEF Longer
<1> QED  BY <1>2, <1>4 DEF N, Longer

\* The cluster of a table is written, through the window.
TableWritten(a, e, n, G, y, x, w, b) ==
  /\ Drawn(w, b) /\ b = WithTable(a, e, n, x, G, y) /\ w.dirty = FALSE /\ w.win = x /\ w.sect = DataSector(n)

\* The new cluster of a table is cleared and written.
LEMMA TableIsWritten ==
  ASSUME NEW a, NEW E, NEW H, Picture(a, E, H), NEW e \in a.dirs \cup {<<>>}, NEW n, NEW G, NEW y,
         NEW v, TableGrown(a, e, n, G, y, v), NEW x, IsBare(x), NEW r, r = SyncWindow(v),
         NEW s, s = DataSector(n), NEW m, m = SyncWindow(Turned(r.v, s, x))
  PROVE  Goes(r) /\ Goes(m) /\ m = Ok(m.v) /\ \E b : TableWritten(a, e, n, G, y, x, m.v, b)
<1> DEFINE T == Tables(a)
           X == a.rows
           U == MoreTables(T, s)
           Y == MoreRows(X, s, x, U)
           b == WithTable(a, e, n, x, G, y)
           w == r.v
           t == Turned(w, s, x)
<1>1. n \in Clusters /\ a.fat[n] = 0 /\ GrownBy(a.fat, e, n, G, y) /\ Shows(v, T, G, X)
  BY DEF TableGrown
<1>2. s \in DataSectors \ T  BY <1>1, FreeNoTable DEF DataSectors
<1>3. b = WithTable(a, e, n, x, G, y) /\ b.fat = G /\ b.rows = Y
  BY DEF WithTable, MoreRows, MoreTables
<1>4. m = SyncWindow(t) /\ w = r.v  OBVIOUS
<1>11. t = Turned(w, s, x) /\ U = MoreTables(T, s) /\ Y = MoreRows(X, s, x, U)  OBVIOUS
<1> HIDE DEF b, U, Y, T, X, w, t
<1>5. Goes(r) /\ Shows(w, T, G, X) /\ w.dirty = FALSE  BY <1>1, <1>4, SyncShows
<1>6. Shows(t, U, G, Y) /\ t.sect = s /\ t.win = x
  <2>1. TurnedTo(w, T, X, s, x, t, U, Y)  BY <1>2, <1>5, <1>11 DEF TurnedTo
  <2> QED  BY <1>5, <2>1, TurnedShows
<1>7. Goes(m) /\ m = Ok(m.v) /\ Shows(m.v, U, G, Y) /\ m.v.dirty = FALSE /\ m.v.sect = t.sect /\ m.v.win = t.win
  BY <1>4, <1>6, SyncShows
<1>8. TableLaid(a, e, n, y, b)  BY <1>1, <1>3, TableWith
<1>9. Tables(b) = U  BY <1>11, <1>8 DEF TableLaid, T, MoreTables
<1>10. Drawn(m.v, b)  BY <1>3, <1>7, <1>9 DEF Drawn
<1>12. TableWritten(a, e, n, G, y, x, m.v, b)  BY <1>3, <1>6, <1>7, <1>10 DEF TableWritten
<1> HIDE DEF TableWritten
<1> QED  BY <1>5, <1>7, <1>12

\* Places in a table that has been stretched.
LEMMA ExtendsPlaces ==
  ASSUME NEW e, NEW y, Extends(e, y)
  PROVE  /\ RowsOf(e) <= RowsOf(y) \/ e = <<>>
         /\ \A i : HasEntry(e, i) => HasEntry(y, i) /\ PlaceOf(y, i) = PlaceOf(e, i)
         /\ \A i, dj : At(e, i, dj) => At(y, i, dj)
         /\ \A dj : OfTable(e, dj) => OfTable(y, dj)
<1>1. (e = <<>> <=> y = <<>>) /\ Len(e) \in Nat /\ Len(y) \in Nat /\ Len(e) <= Len(y) /\ \A i \in 1..Len(e) : y[i] = e[i]
  BY DEF Extends
<1>2. PerTable \in Nat /\ PerTable > 1  BY TableAssumption
<1>3. ASSUME NEW i, HasEntry(e, i)
      PROVE  /\ HasEntry(y, i) /\ SectorAt(y, i \div PerTable) = SectorAt(e, i \div PerTable)
             /\ ClusterAt(y, i \div PerTable) = ClusterAt(e, i \div PerTable)
  <2>1. CASE e = <<>>
    <3>1. y = e  BY <1>1, <2>1
    <3> QED  BY <1>3, <3>1
  <2>2. CASE e # <<>>
    <3> DEFINE k == i \div PerTable
    <3>1. i \in Nat /\ i < Len(e) * PerTable  BY <1>3, <2>2 DEF HasEntry, RowsOf
    <3>2. k \in Nat /\ \A n \in Nat : i < n * PerTable <=> k < n  BY <3>1, PlacesNext
    <3> HIDE DEF k
    <3>3. k < Len(e) /\ k < Len(y)  BY <1>1, <3>1, <3>2
    <3>4. i < Len(y) * PerTable  BY <1>1, <3>2, <3>3
    <3>5. y # <<>> /\ y[k + 1] = e[k + 1]
      <4>1. k + 1 \in 1..Len(e)  BY <1>1, <3>2, <3>3
      <4> QED  BY <1>1, <2>2, <4>1
    <3>6. SectorAt(y, k) = SectorAt(e, k) /\ ClusterAt(y, k) = ClusterAt(e, k)
      BY <2>2, <3>5 DEF SectorAt, ClusterAt
    <3> QED  BY <3>1, <3>4, <3>5, <3>6 DEF HasEntry, RowsOf, k
  <2> QED  BY <2>1, <2>2
<1>4. \A i : HasEntry(e, i) => HasEntry(y, i) /\ PlaceOf(y, i) = PlaceOf(e, i)
  BY <1>3 DEF PlaceOf
<1>5. \A i, dj : At(e, i, dj) => At(y, i, dj)  BY <1>3 DEF At
<1>6. \A dj : OfTable(e, dj) => OfTable(y, dj)
  <2>1. CASE e = <<>>  BY <1>1, <2>1
  <2>2. CASE e # <<>>
    <3>1. CASE Len(e) = 0
      <4>1. Extends(e, y)  OBVIOUS
      <4> QED  BY <1>1, <2>2, <3>1 DEF OfTable, Extends
    <3>2. CASE Len(e) # 0
      <4>1. 1 \in 1..Len(e)  BY <1>1, <3>2
      <4>2. y[1] = e[1] /\ y # <<>>  BY <1>1, <2>2, <4>1
      <4> QED  BY <2>2, <4>2 DEF OfTable
    <3> QED  BY <3>1, <3>2
  <2> QED  BY <2>1, <2>2
<1>7. RowsOf(e) <= RowsOf(y) \/ e = <<>>  BY <1>1 DEF RowsOf
<1> QED  BY <1>4, <1>5, <1>6, <1>7

\* dir_next stretches the table, or there is no cluster left.
Stretches(a, E, H, e, i, dj, v, d, b, y) ==
  Longer(a, b) /\ Extends(e, y) /\ Sees(v, b, E, H) /\ IsTable(b.dirs, y) /\ At(y, i, d) /\ SameDir(dj, d)
Stretched(a, E, H, e, i, dj, r) ==
  \/ r.res = "FR_DENIED" /\ Sees(r.v, a, E, H) /\ r.dj = dj
  \/ Goes(r) /\ \E b, y : Stretches(a, E, H, e, i, dj, r.v, r.dj, b, y)

\* dir_next moves to the first entry of the cluster it added.
LEMMA EntryEntered ==
  ASSUME NEW v, NEW dj, DjFields(dj), NEW c, NEW r, r = Enter(v, dj, c)
  PROVE  Goes(r) /\ r.v = v /\ SameDir(dj, r.dj) /\ r.dj.index = dj.index + 1 /\ r.dj.clust = c /\ r.dj.sect = DataSector(c)
<1> DEFINE i == dj.index + 1
           s == DataSector(c)
           d == Entered(dj, i, c, s)
<1>1. r = Done(v, d)  BY DEF Enter, Entered
<1>2. d = Entered(dj, i, c, s)  OBVIOUS
<1> HIDE DEF d, i, s
<1>3. Entered(dj, i, c, s) = AtEntry(dj, i, c, s)  BY SetsDir
<1>4. d = AtEntry(dj, i, c, s)  BY <1>2, <1>3
<1>5. SameDir(dj, d) /\ d.index = i /\ d.clust = c /\ d.sect = s  BY <1>4, MovesDir
<1> QED  BY <1>1, <1>5 DEF Done, Ok, With, Goes, i, s

\* A cleared sector holds no object.
LEMMA EmptyIsBare == IsBare(EmptyTable) /\ \A i \in 1..PerTable : EmptyTable[i] = EndOfTable
BY DEF IsBare, EmptyTable, Table, IsEntry, IsObject, Blank, EndOfTable

\* dir_next stretches a table by a cleared cluster.
LEMMA TableStretches ==
  ASSUME NEW v, NEW a, NEW E, NEW H, Sees(v, a, E, H), NEW e \in a.dirs, NEW i, NEW dj, At(e, i, dj), DjFields(dj),
         ~HasEntry(e, i + 1), NEW r, r = StretchTable(CreateChain(v, LastOf(e)), dj), NEW k, k = i + 1
  PROVE  Stretched(a, E, H, e, k, dj, r)
<1> DEFINE g == CreateChain(v, LastOf(e))
           n == g.val
<1>0. Picture(a, E, H) /\ IsTable(a.dirs, e) /\ e \in a.dirs \cup {<<>>}  BY DEF Sees, IsTable
<1>1. r = StretchTable(g, dj) /\ g = CreateChain(v, LastOf(e))  OBVIOUS
<1> HIDE DEF g
<1>2. \/ n = 0 /\ Sees(g.v, a, E, H)
      \/ \E G, y : TableGrown(a, e, n, G, y, g.v)
  BY <1>0, <1>1, TableGrows
<1>3. CASE n = 0 /\ Sees(g.v, a, E, H)
  <2>1. r = Fails(g.v, dj, "FR_DENIED")
    <3>1. n = 0 /\ n # 1 /\ n # Max32  BY <1>3, Numbers
    <3> QED  BY <1>1, <3>1, Zenon DEF StretchTable
  <2> QED  BY <1>3, <2>1 DEF Stretched, Fails, Failed, With
<1>4. ASSUME NEW G, NEW y, TableGrown(a, e, n, G, y, g.v)
      PROVE  Stretched(a, E, H, e, k, dj, r)
  <2> DEFINE s == DataSector(n)
             x == EmptyTable
             p == SyncWindow(g.v)
             t == Turned(p.v, s, x)
             m == SyncWindow(t)
  <2>1. n \in Clusters /\ a.fat[n] = 0 /\ GrownBy(a.fat, e, n, G, y)  BY <1>4 DEF TableGrown
  <2>2. n # 0 /\ n # 1 /\ n # Max32  BY <2>1, Numbers
  <2>3. r = CleanUp(g.v, dj, n)  BY <1>1, <2>2 DEF StretchTable
  <2>4. Cleaned(p.v, n) = t  BY DEF Cleaned, Turned
  <2>5. IsBare(x)  BY EmptyIsBare
  <2>6. s = DataSector(n) /\ p = SyncWindow(g.v) /\ m = SyncWindow(Turned(p.v, s, x))  OBVIOUS
  <2>7. m = SyncWindow(Cleaned(p.v, n))  BY <2>4
  <2> HIDE DEF x, p, t, m, s
  <2>8. Goes(p) /\ Goes(m) /\ m = Ok(m.v) /\ \E b : TableWritten(a, e, n, G, y, x, m.v, b)
    BY <1>0, <1>4, <2>5, <2>6, TableIsWritten
  <2>9. r = Enter(m.v, dj, n)
    <3>1. Clean(p, n) = m  BY <2>7, <2>8 DEF Clean, Goes
    <3>2. r = ThenAt(With(m, dj), LAMBDA w, d : Enter(w, d, n))  BY <2>3, <2>6, <3>1 DEF CleanUp
    <3> QED  BY <2>8, <3>2 DEF ThenAt, With, Goes
  <2>10. Goes(r) /\ r.v = m.v /\ SameDir(dj, r.dj) /\ r.dj.index = dj.index + 1 /\ r.dj.clust = n /\ r.dj.sect = s
    BY <2>6, <2>9, EntryEntered
  <2>11. PICK b : TableWritten(a, e, n, G, y, x, m.v, b)  BY <2>8
  <2>12. Drawn(m.v, b) /\ b = WithTable(a, e, n, x, G, y)  BY <2>11 DEF TableWritten
  <2>13. /\ Picture(b, E, H) /\ Later(a, {}, b) /\ y \in b.dirs /\ Living(b) = Living(a)
         /\ \A q \in Living(a) : HeadOf(b.owns[q]) = HeadOf(a.owns[q])
    <3>1. TablePlaced(a, E, H, n, G, y, b)  BY <1>0, <2>1, <2>5, <2>12, TablePictured
    <3> QED  BY <3>1 DEF TablePlaced
  <2>14. \A q \in Tables(a) \X (1..PerTable) : Row(b.rows, q) = Row(a.rows, q)
    <3>1. TableLaid(a, e, n, y, b)  BY <1>0, <2>1, <2>5, <2>12, TableWith
    <3> QED  BY <3>1 DEF TableLaid
  <2>15. Longer(a, b)  BY <2>13, <2>14 DEF Longer
  <2>16. Chained(a.fat, e) /\ e # <<>> /\ Len(e) > 0 /\ Len(e) \in Nat
    <3>1. Path(a.fat, e)  BY <1>0 DEF Picture, Family
    <3>2. e # <<>> /\ Chained(a.fat, e)  BY <3>1, PathNotEmpty
    <3> QED  BY <3>2, ChainKind
  <2>17. y # <<>> /\ Extends(e, y)  BY <2>1, <2>16, CellsGrown
  <2>18. Len(y) = Len(e) + 1 /\ y[Len(y)] = n  BY <2>1 DEF GrownBy
  <2>19. At(y, k, r.dj)
    <3>1. HasEntry(e, i) /\ dj.index = i  BY DEF At
    <3>2. i \in Nat /\ i < Len(e) * PerTable  BY <2>16, <3>1 DEF HasEntry, RowsOf
    <3>3. ~(k < Len(e) * PerTable) /\ k = i + 1  BY <2>16, <3>2 DEF HasEntry, RowsOf
    <3>4. PerTable \in Nat /\ PerTable > 1  BY TableAssumption
    <3>5. k = Len(e) * PerTable /\ k < (Len(e) + 1) * PerTable
      <4>1. Len(e) * PerTable \in Nat /\ (Len(e) + 1) * PerTable = Len(e) * PerTable + PerTable
        BY <2>16, <3>4
      <4> QED  BY <3>2, <3>3, <3>4, <4>1
    <3>6. k \div PerTable = Len(e)
      <4>1. k \in Nat /\ k \div PerTable \in Nat /\ \A z \in Nat : k < z * PerTable <=> k \div PerTable < z
        BY <3>2, <3>3, PlacesNext
      <4>2. k \div PerTable < Len(e) + 1  BY <2>16, <3>5, <4>1
      <4>3. ~(k \div PerTable < Len(e))  BY <2>16, <3>3, <4>1
      <4> QED  BY <2>16, <4>1, <4>2, <4>3
    <3>7. HasEntry(y, k)  BY <2>16, <2>17, <2>18, <3>2, <3>3, <3>5 DEF HasEntry, RowsOf
    <3>8. SectorAt(y, Len(e)) = s /\ ClusterAt(y, Len(e)) = n
      BY <2>6, <2>16, <2>17, <2>18 DEF SectorAt, ClusterAt
    <3> QED  BY <2>10, <3>1, <3>3, <3>6, <3>7, <3>8 DEF At
  <2>20. Stretches(a, E, H, e, k, dj, r.v, r.dj, b, y)
    BY <2>10, <2>12, <2>13, <2>15, <2>17, <2>19 DEF Stretches, Sees, IsTable
  <2> QED  BY <2>10, <2>20 DEF Stretched
<1> QED  BY <1>2, <1>3, <1>4

----------------------------------------------------------------------------
(* dir_alloc.                                                              *)
\* The n entries before entry i are blank.
Blanks(b, y, i, n) == n \in Nat /\ n <= i /\ \A j \in (i - n)..(i - 1) : Blank(EntryAt(b, y, j))
\* dir_alloc before entry i, or at its end. The table e has become y.
AllocAt(a, E, H, e, dj, nent, i, l, b, y) ==
  /\ Longer(a, b) /\ Extends(e, y) /\ Sees(l.v, b, E, H) /\ IsTable(b.dirs, y) /\ SameDir(dj, l.dj)
  /\ l.res = "more" => At(y, i, l.dj) /\ l.st = [n |-> l.st.n, nent |-> nent] /\ Blanks(b, y, i, l.st.n)
  /\ l.res = "FR_OK" => \E k : At(y, k, l.dj) /\ InWindow(l.v, b, y, k, l.dj) /\ Blanks(b, y, k + 1, nent)
AllocState(a, E, H, e, dj, nent, i, l) == \E b, y : AllocAt(a, E, H, e, dj, nent, i, l, b, y)

\* A directory object that moved twice.
LEMMA DirSameAgain ==
  ASSUME NEW c, NEW d, NEW f, SameDir(c, d), SameDir(d, f)
  PROVE  SameDir(c, f) /\ DjFields(d)
BY DEF SameDir, SameName

\* dir_alloc counts the free entries in a row.
LEMMA BlanksCounted ==
  ASSUME NEW b, NEW y, NEW i \in Nat, NEW n, Blanks(b, y, i, n), NEW m, m = (IF Blank(EntryAt(b, y, i)) THEN n + 1 ELSE 0)
  PROVE  Blanks(b, y, i + 1, m)
<1>1. n \in Nat /\ n <= i /\ \A j \in (i - n)..(i - 1) : Blank(EntryAt(b, y, j))  BY DEF Blanks
<1>2. CASE Blank(EntryAt(b, y, i))
  <2>1. m = n + 1  BY <1>2
  <2>2. \A j \in ((i + 1) - m)..((i + 1) - 1) : Blank(EntryAt(b, y, j))
    <3> TAKE j \in ((i + 1) - m)..((i + 1) - 1)
    <3>1. j = i \/ j \in (i - n)..(i - 1)  BY <1>1, <2>1
    <3> QED  BY <1>1, <1>2, <3>1
  <2> QED  BY <1>1, <2>1, <2>2 DEF Blanks
<1>3. CASE ~Blank(EntryAt(b, y, i))
  <2>1. m = 0  BY <1>3
  <2>2. \A j \in ((i + 1) - m)..((i + 1) - 1) : Blank(EntryAt(b, y, j))  BY <2>1
  <2> QED  BY <2>1, <2>2 DEF Blanks
<1> QED  BY <1>2, <1>3

\* They stay free when the table is stretched.
LEMMA BlanksStay ==
  ASSUME NEW b, NEW E, NEW H, Picture(b, E, H), NEW y, IsTable(b.dirs, y), NEW i \in Nat, HasEntry(y, i),
         NEW k, k = i + 1, NEW m, Blanks(b, y, k, m), NEW c, Longer(b, c), NEW z, Extends(y, z)
  PROVE  Blanks(c, z, k, m)
<1>1. m \in Nat /\ m <= k /\ \A j \in (k - m)..(k - 1) : Blank(EntryAt(b, y, j))  BY DEF Blanks
<1>2. \A j \in (k - m)..(k - 1) : Blank(EntryAt(c, z, j))
  <2> TAKE j \in (k - m)..(k - 1)
  <2>1. HasEntry(y, j)
    <3>1. j \in Nat /\ j <= i  BY <1>1
    <3>2. RowsOf(y) * PerTable \in Int
      <4>1. RowsOf(y) \in Nat  BY TableKnown
      <4> QED  BY <4>1, TableAssumption
    <3> QED  BY <3>1, <3>2 DEF HasEntry
  <2>2. PlaceOf(y, j) \in Tables(b) \X (1..PerTable)  BY <2>1, PlaceKnown
  <2>3. PlaceOf(z, j) = PlaceOf(y, j)  BY <2>1, ExtendsPlaces
  <2>4. EntryAt(c, z, j) = EntryAt(b, y, j)  BY <2>2, <2>3 DEF Longer, EntryAt
  <2> QED  BY <1>1, <2>4
<1> QED  BY <1>1, <1>2 DEF Blanks

\* An entry has been looked at, and there is no more to be looked for, or the next one.
LEMMA AllocSaid ==
  ASSUME NEW v, NEW dj, NEW nent, NEW n, NEW m, m = AllocSays(v, dj, nent, n)
  PROVE  /\ m.v = v /\ m.dj = dj /\ m.st = [n |-> n, nent |-> nent] /\ m.st.n = n
         /\ m.res = (IF n = nent THEN "FR_OK" ELSE "more")
BY DEF AllocSays, Said

\* dir_alloc goes on from one entry.
LEMMA AllocAhead ==
  ASSUME NEW a, NEW E, NEW H, NEW e, NEW dj, NEW nent, NEW i \in Nat, NEW b, NEW y, Longer(a, b), Extends(e, y),
         IsTable(b.dirs, y), NEW d, SameDir(dj, d), At(y, i, d), NEW w, Sees(w, b, E, H),
         NEW n, NEW k, k = i + 1, Blanks(b, y, k, n), NEW st, st = [n |-> n, nent |-> nent],
         NEW stretch, stretch = TRUE, NEW r, r = DirNext(w, d, stretch), NEW x, x = StepOn(r, st)
  PROVE  AllocState(a, E, H, e, dj, nent, k, x)
<1>1. /\ x.v = r.v /\ x.dj = r.dj /\ x.st = st /\ st.n = n
      /\ x.res = (IF r.res = "FR_OK" THEN "more" ELSE r.res)  BY DEF StepOn, Said
<1>2. DjFields(d) /\ SameDir(d, d)  BY DEF SameDir, SameName
<1>3. NextAt(b, E, H, y, i, d, stretch, r)  BY <1>2, DirGoesOn
<1>4. Picture(b, E, H)  BY DEF Sees
<1>5. CASE HasEntry(y, k)
  <2>1. Goes(r) /\ Sees(r.v, b, E, H) /\ SameDir(d, r.dj) /\ At(y, k, r.dj)
    BY <1>3, <1>5 DEF NextAt
  <2>2. SameDir(dj, r.dj)  BY <2>1, DirSameAgain
  <2>3. x.res = "more"  BY <1>1, <2>1 DEF Goes
  <2>4. AllocAt(a, E, H, e, dj, nent, k, x, b, y)  BY <1>1, <2>1, <2>2, <2>3 DEF AllocAt
  <2> QED  BY <2>4 DEF AllocState
<1>6. CASE ~HasEntry(y, k) /\ y = <<>>
  <2>1. r.res = "FR_NO_FILE" /\ Sees(r.v, b, E, H) /\ r.dj = d  BY <1>3, <1>6 DEF NextAt
  <2>2. AllocAt(a, E, H, e, dj, nent, k, x, b, y)  BY <1>1, <2>1 DEF AllocAt
  <2> QED  BY <2>2 DEF AllocState
<1>7. CASE ~HasEntry(y, k) /\ y # <<>>
  <2>1. PICK u : r = StretchTable(CreateChain(u, LastOf(y)), d) /\ Sees(u, b, E, H)
    BY <1>3, <1>7 DEF NextAt
  <2>2. y \in b.dirs  BY <1>7 DEF IsTable
  <2>3. ~HasEntry(y, i + 1)  BY <1>7
  <2>4. Stretched(b, E, H, y, k, d, r)  BY <1>2, <2>1, <2>2, <2>3, TableStretches
  <2>5. CASE r.res = "FR_DENIED" /\ Sees(r.v, b, E, H) /\ r.dj = d
    <3>1. AllocAt(a, E, H, e, dj, nent, k, x, b, y)  BY <1>1, <2>5 DEF AllocAt
    <3> QED  BY <3>1 DEF AllocState
  <2>6. CASE Goes(r) /\ \E c, z : Stretches(b, E, H, y, k, d, r.v, r.dj, c, z)
    <3>1. PICK c, z : Stretches(b, E, H, y, k, d, r.v, r.dj, c, z)  BY <2>6
    <3>2. Longer(b, c) /\ Extends(y, z) /\ Sees(r.v, c, E, H) /\ IsTable(c.dirs, z) /\ At(z, k, r.dj) /\ SameDir(d, r.dj)
      BY <3>1 DEF Stretches
    <3>3. Longer(a, c)  BY <3>2, LongerAgain
    <3>4. Extends(e, z)  BY <3>2, LongerOn
    <3>5. SameDir(dj, r.dj)  BY <3>2, DirSameAgain
    <3>6. HasEntry(y, i)  BY DEF At
    <3>7. Blanks(c, z, k, n)  BY <1>4, <3>2, <3>6, BlanksStay
    <3>8. x.res = "more"  BY <1>1, <2>6 DEF Goes
    <3>9. AllocAt(a, E, H, e, dj, nent, k, x, c, z)
      BY <1>1, <3>2, <3>3, <3>4, <3>5, <3>7, <3>8 DEF AllocAt
    <3> QED  BY <3>9 DEF AllocState
  <2> QED  BY <2>4, <2>5, <2>6 DEF Stretched
<1> QED  BY <1>5, <1>6, <1>7

\* One round of dir_alloc.
LEMMA AllocGoesOn ==
  ASSUME NEW a, NEW E, NEW H, NEW e, NEW dj, NEW nent, NEW i \in Nat, NEW l, AllocState(a, E, H, e, dj, nent, i, l),
         NEW loop, loop = "alloc", NEW x, x = ScanRound(l, loop), NEW k, k = i + 1
  PROVE  AllocState(a, E, H, e, dj, nent, k, x)
<1>1. PICK b, y : AllocAt(a, E, H, e, dj, nent, i, l, b, y)  BY DEF AllocState
<1>2. CASE l.res # "more"
  <2>1. x = l  BY <1>2 DEF ScanRound
  <2>2. AllocAt(a, E, H, e, dj, nent, k, x, b, y)  BY <1>1, <1>2, <2>1 DEF AllocAt
  <2> QED  BY <2>2 DEF AllocState
<1>3. CASE l.res = "more"
  <2>1. /\ Longer(a, b) /\ Extends(e, y) /\ Sees(l.v, b, E, H) /\ IsTable(b.dirs, y) /\ SameDir(dj, l.dj)
        /\ At(y, i, l.dj) /\ l.st = [n |-> l.st.n, nent |-> nent] /\ Blanks(b, y, i, l.st.n)
    BY <1>1, <1>3 DEF AllocAt
  <2>2. RoundAt(b, E, H, y, i, l)  BY <1>3, <2>1 DEF RoundAt
  <2>3. LooksAt(loop, b, E, H, y, i, l.dj, l.st, x)  BY <2>2, RoundLooks
  <2> DEFINE d == l.dj
             st == l.st
             n == l.st.n
             m(w) == Look(loop, w, d, st)
             u == IF Blank(EntryAt(b, y, i)) THEN n + 1 ELSE 0
             s == [n |-> u, nent |-> nent]
  <2>4. PICK w : Sees(w, b, E, H) /\ InWindow(w, b, y, i, d) /\ x = Onward(m(w), loop)
    BY <2>3 DEF LooksAt
  <2>5. m(w) = AllocSays(w, d, nent, u)
    <3>1. m(w) = AllocLook(w, d, st)  BY LooksAre
    <3>2. Entry(w, d) = EntryAt(b, y, i)  BY <2>4 DEF InWindow
    <3>3. st.nent = nent /\ st.n = n  BY <2>1
    <3> QED  BY <3>1, <3>2, <3>3 DEF AllocLook
  <2>6. d = l.dj /\ n = l.st.n /\ s = [n |-> u, nent |-> nent] /\ u = (IF Blank(EntryAt(b, y, i)) THEN n + 1 ELSE 0)  OBVIOUS
  <2> DEFINE q == m(w)
  <2>7. q = AllocSays(w, d, nent, u) /\ x = Onward(q, loop)  BY <2>4, <2>5
  <2> HIDE DEF d, st, n, m, u, s, q
  <2>8. q.v = w /\ q.dj = d /\ q.st = s /\ q.res = (IF u = nent THEN "FR_OK" ELSE "more")
    BY <2>6, <2>7, AllocSaid
  <2>9. Blanks(b, y, i + 1, u)  BY <2>1, <2>6, BlanksCounted
  <2>10. CASE u = nent
    <3>1. q.res # "more" /\ q.res = "FR_OK"  BY <2>8, <2>10
    <3>2. x = q  BY <2>7, <3>1, LoopStops
    <3>3. AllocAt(a, E, H, e, dj, nent, k, x, b, y)
      BY <2>1, <2>4, <2>6, <2>8, <2>9, <2>10, <3>1, <3>2 DEF AllocAt
    <3> QED  BY <3>3 DEF AllocState
  <2>11. CASE u # nent
    <3>1. q.res = "more"  BY <2>8, <2>11
    <3> DEFINE t == loop = "alloc"
               r == DirNext(w, d, t)
    <3>2. x = StepOn(r, s)  BY <2>7, <2>8, <3>1 DEF Onward
    <3>3. t = TRUE /\ r = DirNext(w, d, t)  OBVIOUS
    <3> HIDE DEF t, r
    <3>4. SameDir(dj, d) /\ At(y, i, d)  BY <2>1, <2>6
    <3>5. Blanks(b, y, k, u)  BY <2>9
    <3>6. s = [n |-> u, nent |-> nent]  BY <2>6
    <3> QED  BY <2>1, <2>4, <3>2, <3>3, <3>4, <3>5, <3>6, AllocAhead
  <2> QED  BY <2>10, <2>11
<1> QED  BY <1>2, <1>3

\* What dir_alloc leaves: the table y with nent blank entries to the one that the directory object is at,
\* or an error.
RoomAt(nent, v, dj, b, y) ==
  \E k : At(y, k, dj) /\ InWindow(v, b, y, k, dj) /\ Blanks(b, y, k + 1, nent)
RoomMade(a, E, H, e, dj, nent, r, b, y) ==
  /\ Longer(a, b) /\ Extends(e, y) /\ Sees(r.v, b, E, H) /\ IsTable(b.dirs, y) /\ SameDir(dj, r.dj)
  /\ Goes(r) => RoomAt(nent, r.v, r.dj, b, y)

\* The walk of dir_alloc: room for the entries, or none to be had.
LEMMA DirScanned ==
  ASSUME NEW v, NEW a, NEW E, NEW H, Sees(v, a, E, H), NEW e, IsTable(a.dirs, e), NEW dj, NEW d, SameDir(dj, d),
         NEW i, i = 0, At(e, i, d), NEW nent, NEW loop, loop = "alloc", NEW st, st = [n |-> 0, nent |-> nent],
         NEW r, r = Scan(loop, v, d, st)
  PROVE  \E b, y : RoomMade(a, E, H, e, dj, nent, r, b, y)
<1> DEFINE start == Said(v, d, "more", st)
           N == MaxRounds
<1>1. start.v = v /\ start.dj = d /\ start.res = "more" /\ start.st = st  BY SaidIs
<1> HIDE DEF start
<1>0. Picture(a, E, H)  BY DEF Sees
<1>2. N \in Nat  BY <1>0, RoundsEnough
<1> HIDE DEF N
<1>3. PICK w : /\ w[0] = start /\ \A n \in 1..N : w[n] = ScanRound(w[n - 1], loop)
               /\ ScanEnd(start, loop, N) = w[N]
  BY <1>2, ScanLoop
<1>4. r = With(w[N], w[N].dj)  BY <1>3 DEF Scan, ScanEnd, start, N
<1> DEFINE S == {n \in 0..N : AllocState(a, E, H, e, dj, nent, n, w[n])}
<1>6. 0 \in S
  <2> DEFINE s == w[0]
             j == st.n
  <2>1. s.v = v /\ s.dj = d /\ s.res = "more" /\ s.st = st  BY <1>1, <1>3
  <2>4. j = 0 /\ st = [n |-> j, nent |-> nent] /\ j = st.n  OBVIOUS
  <2> HIDE DEF s, j
  <2>2. Longer(a, a)  BY <1>0, LongerSame
  <2>3. Extends(e, e)  BY <1>0, TableLonger
  <2>5. Blanks(a, e, i, j)  BY <2>4 DEF Blanks
  <2>6. AllocAt(a, E, H, e, dj, nent, i, s, a, e)  BY <2>1, <2>2, <2>3, <2>4, <2>5 DEF AllocAt
  <2>7. AllocState(a, E, H, e, dj, nent, i, s)  BY <2>6 DEF AllocState
  <2> QED  BY <1>2, <2>7 DEF s
<1>7. \A n \in 0..(N - 1) : n \in S => n + 1 \in S
  <2> SUFFICES ASSUME NEW n \in 0..(N - 1), AllocState(a, E, H, e, dj, nent, n, w[n])
               PROVE  AllocState(a, E, H, e, dj, nent, n + 1, w[n + 1])
    BY <1>2
  <2> DEFINE x == w[n]
             y == w[n + 1]
             k == n + 1
  <2>1. y = ScanRound(x, loop)
    <3>1. n + 1 \in 1..N /\ (n + 1) - 1 = n  BY <1>2
    <3> QED  BY <1>3, <3>1
  <2>2. n \in Nat /\ k = n + 1  BY <1>2
  <2>3. AllocState(a, E, H, e, dj, nent, n, x)  OBVIOUS
  <2> HIDE DEF x, y, k
  <2>4. AllocState(a, E, H, e, dj, nent, k, y)  BY <2>1, <2>2, <2>3, AllocGoesOn
  <2> QED  BY <2>4 DEF y, k
<1> HIDE DEF S
<1>8. N \in S  BY <1>2, <1>6, <1>7, LoopKeeps
<1> DEFINE m == w[N]
<1>9. r.v = m.v /\ r.dj = m.dj /\ r.res = m.res  BY <1>4 DEF With
<1>10. AllocState(a, E, H, e, dj, nent, N, m)  BY <1>8 DEF S
<1> HIDE DEF m
<1>11. PICK b, y : AllocAt(a, E, H, e, dj, nent, N, m, b, y)  BY <1>10 DEF AllocState
<1>12. RoomMade(a, E, H, e, dj, nent, r, b, y)
  BY <1>9, <1>11 DEF AllocAt, RoomMade, RoomAt, Goes
<1> QED  BY <1>12

\* dir_alloc.
LEMMA RoomFound ==
  ASSUME NEW v, NEW a, NEW E, NEW H, Sees(v, a, E, H), NEW e, NEW dj, InTable(a, e, dj), NEW nent,
         NEW r, r = DirAlloc(v, dj, nent)
  PROVE  \E b, y : RoomMade(a, E, H, e, dj, nent, r, b, y)
<1> DEFINE i == 0
           q == DirSdi(v, dj, i)
           loop == "alloc"
           st == [n |-> 0, nent |-> nent]
<1>1. r = ThenAt(q, LAMBDA w, d : Scan(loop, w, d, st))  BY DEF DirAlloc
<1>2. i = 0 /\ i \in Nat /\ loop = "alloc" /\ st = [n |-> 0, nent |-> nent] /\ q = DirSdi(v, dj, i)  OBVIOUS
<1> HIDE DEF i, q, loop, st
<1>3. IsTable(a.dirs, e) /\ OfTable(e, dj) /\ DjFields(dj) /\ Picture(a, E, H)
  BY DEF InTable, Sees
<1>4. SameDir(dj, q.dj) /\ Sees(q.v, a, E, H) /\ (Goes(q) => At(e, i, q.dj))
  BY <1>2, <1>3, DirIsAt
<1>5. CASE Goes(q)
  <2> DEFINE u == q.v
             d == q.dj
  <2>1. r = Scan(loop, u, d, st)  BY <1>1, <1>5 DEF ThenAt, Goes
  <2>2. SameDir(dj, d) /\ Sees(u, a, E, H) /\ At(e, i, d)  BY <1>4, <1>5
  <2> HIDE DEF u, d
  <2> QED  BY <1>2, <1>3, <2>1, <2>2, DirScanned
<1>6. CASE ~Goes(q)
  <2>1. r = q  BY <1>1, <1>6 DEF ThenAt, Goes
  <2>2. Longer(a, a)  BY <1>3, LongerSame
  <2>3. Extends(e, e)  BY <1>3, TableLonger
  <2>4. RoomMade(a, E, H, e, dj, nent, r, a, e)
    BY <1>3, <1>4, <1>6, <2>1, <2>2, <2>3 DEF RoomMade
  <2> QED  BY <2>4
<1> QED  BY <1>5, <1>6

----------------------------------------------------------------------------
(* Entries are written.                                                    *)
\* No entry has two numbers.
LEMMA PlacesApart ==
  ASSUME NEW a, NEW E, NEW H, Picture(a, E, H), NEW e, IsTable(a.dirs, e),
         NEW i, HasEntry(e, i), NEW j, HasEntry(e, j), PlaceOf(e, i) = PlaceOf(e, j)
  PROVE  i = j
<1> DEFINE P == PerTable
           q == i \div P
           r == j \div P
           m == i % P
           n == j % P
<1>1. P \in Nat /\ P > 1 /\ i \in Nat /\ j \in Nat  BY TableAssumption DEF HasEntry
<1>2. i = q * P + m /\ m \in 0..(P - 1) /\ q \in Int  BY <1>1, Divided
<1>3. j = r * P + n /\ n \in 0..(P - 1) /\ r \in Int  BY <1>1, Divided
<1>4. q \in 0..(RowsOf(e) - 1) /\ r \in 0..(RowsOf(e) - 1)  BY PlaceKnown
<1>5. SectorAt(e, q) = SectorAt(e, r) /\ m + 1 = n + 1  BY DEF PlaceOf
<1> HIDE DEF q, r, m, n, P
<1>6. q = r
  <2>1. CASE e = <<>>  BY <1>5, <2>1 DEF SectorAt, RootSector
  <2>2. CASE e # <<>>
    <3>1. Path(a.fat, e)  BY <2>2, TableKnown
    <3>2. RowsOf(e) = Len(e) /\ Len(e) \in Nat  BY <2>2, <3>1 DEF RowsOf, Path
    <3>3. q + 1 \in 1..Len(e) /\ r + 1 \in 1..Len(e)  BY <1>4, <3>2
    <3>4. e[q + 1] = e[r + 1]  BY <1>5, <2>2 DEF SectorAt, DataSector
    <3>5. q + 1 = r + 1  BY <3>1, <3>3, <3>4 DEF Path
    <3> QED  BY <1>4, <3>2, <3>5
  <2> QED  BY <2>1, <2>2
<1> QED  BY <1>1, <1>2, <1>3, <1>5, <1>6

\* The window is of the sector of the place p, and the directory object is there.
OnPlace(v, a, p, dj) ==
  p = PlaceAt(dj) /\ v.sect = p[1] /\ p \in Tables(a) \X (1..PerTable) /\ DOMAIN v.win = 1..PerTable
\* At p there may be the entry x of an object that owns o.
CanStand(a, E, H, p, x, o) ==
  IsEntry(x) /\ (IsObject(x) => p \notin E /\ Owner(a.chains, a.dirs, x, o, p \in H) /\ Unowned(a, E, p, o))
StoredAt(a, E, H, p, x, o, w, b) ==
  /\ Sees(w, b, E, H) /\ OnlyAt(a, p, b) /\ Row(b.rows, p) = x /\ b.owns[p] = o /\ (p \in Living(b) <=> IsObject(x))
  /\ w.sect = p[1] /\ w.win[p[2]] = x /\ DOMAIN w.win = 1..PerTable

\* An entry is stored in the buffer at its place.
LEMMA EntryStored ==
  ASSUME NEW v, NEW a, NEW E, NEW H, Sees(v, a, E, H), NEW p, NEW dj, OnPlace(v, a, p, dj),
         NEW x, NEW o, CanStand(a, E, H, p, x, o), NEW w, w = Store(v, dj, x)
  PROVE  \E b : StoredAt(a, E, H, p, x, o, w, b)
<1> DEFINE y == [v.win EXCEPT ![p[2]] = x]
           b == WithRow(a, p, x, o)
<1>0. Drawn(v, a) /\ Picture(a, E, H)  BY DEF Sees
<1>1. p = PlaceAt(dj) /\ v.sect = p[1] /\ p \in Tables(a) \X (1..PerTable) /\ DOMAIN v.win = 1..PerTable
  BY DEF OnPlace
<1>2. p[1] \in Tables(a) /\ p[2] \in 1..PerTable /\ p[2] = Slot(dj)  BY <1>1 DEF PlaceAt
<1>3. Regular(a) /\ HasFields(v)  BY <1>0, <1>1, <1>2, RowSeen
<1>4. w.win = y /\ DOMAIN y = 1..PerTable /\ y[p[2]] = x
  <2>1. w = [v EXCEPT !.win[p[2]] = x, !.dirty = TRUE]  BY <1>2 DEF Store
  <2>2. w.win = [v.win EXCEPT ![p[2]] = x]  BY <1>3, <2>1 DEF HasFields
  <2> QED  BY <1>1, <1>2, <2>2
<1>5. Overwritten(v, y, w)
  <2>1. w = [v EXCEPT !.win[p[2]] = x, !.dirty = TRUE]  BY <1>2 DEF Store
  <2>2. HasFields(w) /\ w.disk = v.disk /\ w.sect = v.sect /\ w.fault = v.fault /\ w.dirty = TRUE
    BY <1>3, <2>1 DEF HasFields
  <2> QED  BY <1>4, <2>2 DEF Overwritten
<1>6. b = WithRow(a, p, x, o)  OBVIOUS
<1> HIDE DEF b
<1>7. Drawn(w, b) /\ w.sect = v.sect
  <2>1. Overwritten(v, [v.win EXCEPT ![p[2]] = x], w) /\ p[1] = v.sect  BY <1>1, <1>5
  <2> QED  BY <1>0, <1>2, <1>6, <2>1, RowDrawn
<1>8. IsEntry(x) /\ (IsObject(x) => p \notin E /\ Owner(a.chains, a.dirs, x, o, p \in H) /\ Unowned(a, E, p, o))
  BY DEF CanStand
<1>9. Picture(b, E, H) /\ OnlyAt(a, p, b) /\ Row(b.rows, p) = x /\ b.owns[p] = o /\ (p \in Living(b) <=> IsObject(x))
  BY <1>0, <1>1, <1>3, <1>6, <1>8, RowPictured
<1>10. StoredAt(a, E, H, p, x, o, w, b)  BY <1>1, <1>4, <1>7, <1>9 DEF StoredAt, Sees
<1> QED  BY <1>10

\* A walk that has its entry in the buffer is on its place.
LEMMA WindowOnPlace ==
  ASSUME NEW v, NEW a, NEW e, NEW i, NEW dj, InWindow(v, a, e, i, dj), NEW p, p = PlaceOf(e, i)
  PROVE  OnPlace(v, a, p, dj) /\ Row(a.rows, p) = EntryAt(a, e, i)
BY DEF InWindow, OnPlace, PlaceAt, EntryAt

\* Entries of no objects are written where there were none.
Filled(a, b) == Later(a, {}, b) /\ Living(b) = Living(a) /\ b.dirs = a.dirs /\ Tables(b) = Tables(a)

\* A volume that did not change.
LEMMA FilledSame ==
  ASSUME NEW a, NEW E, NEW H, Picture(a, E, H)
  PROVE  Filled(a, a)
BY LaterSame DEF Filled

\* Entries filled after each other.
LEMMA FilledOn ==
  ASSUME NEW a, NEW b, Filled(a, b), NEW c, Filled(b, c)
  PROVE  Filled(a, c)
<1> DEFINE z == {}
<1>1. z = {} /\ z = z \cup z  OBVIOUS
<1>2. Later(a, z, b) /\ Later(b, z, c)  BY DEF Filled
<1> HIDE DEF z
<1>3. Later(a, z, c)  BY <1>1, <1>2, LaterOn
<1> QED  BY <1>1, <1>3 DEF Filled

\* A free entry filled by one that is no object.
LEMMA FilledAt ==
  ASSUME NEW a, NEW E, NEW H, Picture(a, E, H), NEW p \in Tables(a) \X (1..PerTable), Blank(Row(a.rows, p)),
         NEW x, ~IsObject(x), NEW o, NEW w, NEW b, StoredAt(a, E, H, p, x, o, w, b)
  PROVE  Filled(a, b)
<1>1. OnlyAt(a, p, b) /\ Row(b.rows, p) = x /\ p \notin Living(b)  BY DEF StoredAt
<1>2. Later(a, {}, b)  BY <1>1, LaterAt
<1>3. p \notin Living(a)
  <2>1. ~IsObject(Row(a.rows, p))  BY ObjectNotBlank
  <2> QED  BY <2>1, EntriesKnown
<1>4. Tables(b) = Tables(a) /\ b.dirs = a.dirs /\ \A q \in Tables(a) \X (1..PerTable) : q # p => (q \in Living(b) <=> q \in Living(a))
  BY <1>1 DEF OnlyAt
<1>5. Living(a) \subseteq Tables(a) \X (1..PerTable) /\ Living(b) \subseteq Tables(a) \X (1..PerTable)
  BY <1>4, PlacesKnown
<1>6. Living(b) = Living(a)  BY <1>1, <1>3, <1>4, <1>5
<1> QED  BY <1>2, <1>4, <1>6 DEF Filled

----------------------------------------------------------------------------
(* The entries of a long name are written.                                 *)
\* Before entry i, or at entry k behind them.
StoreIn(b, E, H, y, dj, k, i, l, c) ==
  /\ Filled(b, c) /\ Sees(l.v, c, E, H) /\ SameDir(dj, l.dj)
  /\ l.res = "more" =>
       At(y, i, l.dj) /\ i <= k /\ l.st = k - i /\ l.st \in 0..20 /\ \A j \in i..k : Blank(EntryAt(c, y, j))
  /\ l.res = "FR_OK" => At(y, k, l.dj) /\ InWindow(l.v, c, y, k, l.dj) /\ Blank(EntryAt(c, y, k))
StoreState(b, E, H, y, dj, k, i, l) == \E c : StoreIn(b, E, H, y, dj, k, i, l, c)
LfnOf(dj, ord) == Lfn(dj.lfn, ord, dj.fn)
LongName(dj) == dj.lfn \in LongNames /\ dj.fn \notin Dots

\* A long name entry can stand anywhere.
LEMMA PartStands ==
  ASSUME NEW dj, LongName(dj), NEW d, SameDir(dj, d), NEW ord \in 1..20, NEW x, x = LfnOf(d, ord)
  PROVE  IsEntry(x) /\ ~IsObject(x) /\ \A a, E, H, p, o : CanStand(a, E, H, p, x, o)
<1>1. d.lfn = dj.lfn /\ d.fn = dj.fn  BY DEF SameDir, SameName
<1> DEFINE n == d.lfn
           s == d.fn
           z == ord = Parts[n]
<1>2. x = [lfn |-> n, ord |-> ord, last |-> z, sum |-> s]  BY DEF LfnOf, Lfn
<1>3. s \notin {Dot, DotDot}  BY <1>1 DEF LongName, Dots
<1> HIDE DEF n, s, z
<1>4. IsEntry(x)  BY <1>2, <1>3 DEF IsEntry, IsLfn
<1>5. IsLfn(x)  BY <1>2 DEF IsLfn
<1>6. ~IsObject(x)  BY <1>4, <1>5, ObjectEntry
<1> QED  BY <1>4, <1>6 DEF CanStand

\* A round of dir_register stores a long name entry, or is done.
LEMMA StoreSaid ==
  ASSUME NEW v, NEW dj, NEW ord, NEW m, m = StoreLook(v, dj, ord)
  PROVE  /\ m.dj = dj
         /\ ord = 0 => m.v = v /\ m.res = "FR_OK"
         /\ ord # 0 => m.v = Store(v, dj, LfnOf(dj, ord)) /\ m.res = "more" /\ m.st = ord - 1
BY DEF StoreLook, Said, LfnOf

\* dir_register goes on to the next long name entry.
LEMMA StoreNext ==
  ASSUME NEW b, NEW E, NEW H, NEW y, IsTable(b.dirs, y), NEW dj, LongName(dj), NEW k, NEW i \in Nat,
         NEW c, Filled(b, c), NEW d, SameDir(dj, d), At(y, i, d), NEW w, Sees(w, c, E, H), InWindow(w, c, y, i, d),
         i < k, HasEntry(y, k), NEW ord, ord = k - i, ord \in 0..20, \A j \in i..k : Blank(EntryAt(c, y, j)),
         NEW loop, loop = "store", NEW m, m = StoreLook(w, d, ord), NEW x, x = Onward(m, loop), NEW n, n = i + 1
  PROVE  StoreState(b, E, H, y, dj, k, n, x)
<1> DEFINE e == LfnOf(d, ord)
           p == PlaceOf(y, i)
           u == m.v
           o == 0
<1>1. ord \in 1..20 /\ ord # 0  BY DEF At, HasEntry
<1>2. m.dj = d /\ m.v = Store(w, d, e) /\ m.res = "more" /\ m.st = ord - 1  BY <1>1, StoreSaid
<1>3. e = LfnOf(d, ord) /\ p = PlaceOf(y, i) /\ u = m.v /\ u = Store(w, d, e)  BY <1>2
<1> HIDE DEF e, p, u, o
<1>4. IsEntry(e) /\ ~IsObject(e) /\ CanStand(c, E, H, p, e, o)  BY <1>1, <1>3, PartStands
<1>5. OnPlace(w, c, p, d) /\ Row(c.rows, p) = EntryAt(c, y, i)  BY <1>3, WindowOnPlace
<1>6. PICK z : StoredAt(c, E, H, p, e, o, u, z)  BY <1>3, <1>4, <1>5, EntryStored
<1>7. Picture(c, E, H) /\ p \in Tables(c) \X (1..PerTable)  BY <1>5 DEF Sees, OnPlace
<1>8. Blank(Row(c.rows, p))
  <2>1. i \in i..k  BY DEF HasEntry
  <2> QED  BY <1>5, <2>1
<1>9. Filled(c, z)  BY <1>4, <1>6, <1>7, <1>8, FilledAt
<1>10. Filled(b, z)  BY <1>9, FilledOn
<1>11. IsTable(c.dirs, y) /\ IsTable(z.dirs, y)  BY <1>9 DEF Filled, IsTable
<1>12. DjFields(d)  BY DEF SameDir, SameName
<1>13. Sees(u, z, E, H)  BY <1>6 DEF StoredAt
<1>14. StepsOn(z, E, H, y, i, m, x)
  <2>1. loop # "alloc" /\ Sees(m.v, z, E, H) /\ At(y, i, m.dj) /\ DjFields(m.dj) /\ m.res = "more" /\ IsTable(z.dirs, y)
    BY <1>2, <1>3, <1>11, <1>12, <1>13
  <2> QED  BY <2>1, LoopStepsOn
<1>15. Sees(x.v, z, E, H) /\ SameDir(d, x.dj) /\ x.st = ord - 1
       /\ (x.res = "more" => At(y, n, x.dj)) /\ x.res # "FR_OK"
  BY <1>2, <1>14 DEF StepsOn
<1>16. SameDir(dj, x.dj)  BY <1>15, DirSameAgain
<1>17. k \in Nat /\ \A j \in i..k : HasEntry(y, j)
  <2>1. k \in Nat  BY DEF HasEntry
  <2>2. RowsOf(y) * PerTable \in Int
    <3>1. RowsOf(y) \in Nat  BY <1>7, <1>11, TableKnown
    <3> QED  BY <3>1, TableAssumption
  <2> QED  BY <2>1, <2>2 DEF HasEntry
<1>18. \A j \in n..k : Blank(EntryAt(z, y, j))
  <2> TAKE j \in n..k
  <2>1. j \in i..k /\ j # i /\ i \in i..k  BY <1>17
  <2>2. HasEntry(y, j) /\ HasEntry(y, i)  BY <1>17, <2>1
  <2> DEFINE q == PlaceOf(y, j)
  <2>3. q \in Tables(c) \X (1..PerTable)  BY <1>7, <1>11, <2>2, PlaceKnown
  <2>4. q # p  BY <1>3, <1>7, <1>11, <2>1, <2>2, PlacesApart
  <2>5. Row(z.rows, q) = Row(c.rows, q)  BY <1>6, <2>3, <2>4 DEF StoredAt, OnlyAt
  <2> QED  BY <2>1, <2>5 DEF EntryAt
<1>19. x.st = k - n /\ x.st \in 0..20 /\ n <= k  BY <1>1, <1>15, <1>17
<1>20. StoreIn(b, E, H, y, dj, k, n, x, z)  BY <1>10, <1>15, <1>16, <1>18, <1>19 DEF StoreIn
<1> QED  BY <1>20 DEF StoreState

\* One round of dir_register.
LEMMA StoreGoesOn ==
  ASSUME NEW b, NEW E, NEW H, NEW y, IsTable(b.dirs, y), NEW dj, LongName(dj), NEW k, HasEntry(y, k), NEW i \in Nat,
         NEW l, StoreState(b, E, H, y, dj, k, i, l), NEW loop, loop = "store", NEW x, x = ScanRound(l, loop),
         NEW n, n = i + 1
  PROVE  StoreState(b, E, H, y, dj, k, n, x)
<1>1. PICK c : StoreIn(b, E, H, y, dj, k, i, l, c)  BY DEF StoreState
<1>2. CASE l.res # "more"
  <2>1. x = l  BY <1>2 DEF ScanRound
  <2>2. StoreIn(b, E, H, y, dj, k, n, x, c)  BY <1>1, <1>2, <2>1 DEF StoreIn
  <2> QED  BY <2>2 DEF StoreState
<1>3. CASE l.res = "more"
  <2>1. /\ Filled(b, c) /\ Sees(l.v, c, E, H) /\ SameDir(dj, l.dj) /\ At(y, i, l.dj) /\ i <= k /\ l.st = k - i
        /\ l.st \in 0..20 /\ \A j \in i..k : Blank(EntryAt(c, y, j))
    BY <1>1, <1>3 DEF StoreIn
  <2>2. IsTable(c.dirs, y)  BY <2>1 DEF Filled, IsTable
  <2>3. RoundAt(c, E, H, y, i, l)  BY <1>3, <2>1, <2>2 DEF RoundAt
  <2>4. LooksAt(loop, c, E, H, y, i, l.dj, l.st, x)  BY <2>3, RoundLooks
  <2> DEFINE d == l.dj
             ord == l.st
             m(w) == Look(loop, w, d, ord)
  <2>5. PICK w : Sees(w, c, E, H) /\ InWindow(w, c, y, i, d) /\ x = Onward(m(w), loop)
    BY <2>4 DEF LooksAt
  <2> DEFINE q == m(w)
  <2>6. q = StoreLook(w, d, ord) /\ x = Onward(q, loop)  BY <2>5, LooksAre
  <2>7. SameDir(dj, d) /\ At(y, i, d) /\ ord = k - i /\ ord \in 0..20  BY <2>1
  <2> HIDE DEF d, ord, m, q
  <2>8. k \in Nat  BY DEF HasEntry
  <2>9. CASE ord = 0
    <3>1. i = k  BY <2>7, <2>8, <2>9
    <3>2. q.v = w /\ q.dj = d /\ q.res = "FR_OK"  BY <2>6, <2>9, StoreSaid
    <3>3. x = q  BY <2>6, <3>2, LoopStops
    <3>4. Blank(EntryAt(c, y, k))
      <4>1. k \in i..k  BY <2>8, <3>1
      <4> QED  BY <2>1, <4>1
    <3>5. x.v = w /\ x.dj = d /\ x.res = "FR_OK"  BY <3>2, <3>3
    <3>6. At(y, k, d) /\ InWindow(w, c, y, k, d)  BY <2>5, <2>7, <3>1
    <3>7. StoreIn(b, E, H, y, dj, k, n, x, c)  BY <2>1, <2>5, <2>7, <3>4, <3>5, <3>6 DEF StoreIn
    <3> QED  BY <3>7 DEF StoreState
  <2>10. CASE ord # 0
    <3>1. i < k  BY <2>1, <2>7, <2>8, <2>10
    <3>2. Filled(b, c) /\ \A j \in i..k : Blank(EntryAt(c, y, j))  BY <2>1
    <3> QED  BY <2>5, <2>6, <2>7, <3>1, <3>2, StoreNext
  <2> QED  BY <2>9, <2>10
<1> QED  BY <1>2, <1>3

\* The rounds of dir_register: the long name stands, the last entry is free.
LEMMA StoreScanned ==
  ASSUME NEW v, NEW b, NEW E, NEW H, Sees(v, b, E, H), NEW y, IsTable(b.dirs, y), NEW dj, LongName(dj), NEW k, HasEntry(y, k),
         NEW i \in Nat, i <= k, NEW d, SameDir(dj, d), At(y, i, d), \A j \in i..k : Blank(EntryAt(b, y, j)),
         NEW loop, loop = "store", NEW st, st = k - i, st \in 0..20, NEW r, r = Scan(loop, v, d, st)
  PROVE  \E c, n : StoreIn(b, E, H, y, dj, k, n, r, c)
<1> DEFINE start == Said(v, d, "more", st)
           N == MaxRounds
<1>1. start.v = v /\ start.dj = d /\ start.res = "more" /\ start.st = st  BY SaidIs
<1> HIDE DEF start
<1>0. Picture(b, E, H)  BY DEF Sees
<1>2. N \in Nat  BY <1>0, RoundsEnough
<1> HIDE DEF N
<1>3. PICK w : /\ w[0] = start /\ \A n \in 1..N : w[n] = ScanRound(w[n - 1], loop)
               /\ ScanEnd(start, loop, N) = w[N]
  BY <1>2, ScanLoop
<1>4. r = With(w[N], w[N].dj)  BY <1>3 DEF Scan, ScanEnd, start, N
<1> DEFINE S == {n \in 0..N : StoreState(b, E, H, y, dj, k, i + n, w[n])}
<1>6. 0 \in S
  <2> DEFINE s == w[0]
  <2>1. s.v = v /\ s.dj = d /\ s.res = "more" /\ s.st = st  BY <1>1, <1>3
  <2> HIDE DEF s
  <2>2. Filled(b, b)  BY <1>0, FilledSame
  <2>3. StoreIn(b, E, H, y, dj, k, i, s, b)  BY <2>1, <2>2 DEF StoreIn
  <2>4. StoreState(b, E, H, y, dj, k, i, s)  BY <2>3 DEF StoreState
  <2>5. i + 0 = i  OBVIOUS
  <2> QED  BY <1>2, <2>4, <2>5 DEF s
<1>7. \A n \in 0..(N - 1) : n \in S => n + 1 \in S
  <2> SUFFICES ASSUME NEW n \in 0..(N - 1), StoreState(b, E, H, y, dj, k, i + n, w[n])
               PROVE  StoreState(b, E, H, y, dj, k, i + (n + 1), w[n + 1])
    BY <1>2
  <2> DEFINE x == w[n]
             z == w[n + 1]
             j == i + n
             h == i + (n + 1)
  <2>1. z = ScanRound(x, loop)
    <3>1. n + 1 \in 1..N /\ (n + 1) - 1 = n  BY <1>2
    <3> QED  BY <1>3, <3>1
  <2>2. j \in Nat /\ h = j + 1  BY <1>2
  <2>3. StoreState(b, E, H, y, dj, k, j, x)  OBVIOUS
  <2> HIDE DEF x, z, j, h
  <2>4. StoreState(b, E, H, y, dj, k, h, z)  BY <2>1, <2>2, <2>3, StoreGoesOn
  <2> QED  BY <2>4 DEF h, z
<1> HIDE DEF S
<1>8. N \in S  BY <1>2, <1>6, <1>7, LoopKeeps
<1> DEFINE m == w[N]
           n == i + N
<1>9. r.v = m.v /\ r.dj = m.dj /\ r.res = m.res  BY <1>4 DEF With
<1>10. StoreState(b, E, H, y, dj, k, n, m)  BY <1>8 DEF S
<1>11. ~(n + 0 < MaxRounds)  BY <1>2 DEF N
<1> HIDE DEF m, n
<1>12. PICK c : StoreIn(b, E, H, y, dj, k, n, m, c)  BY <1>10 DEF StoreState
<1>13. m.res # "more"
  <2>1. m.res = "more" => HasEntry(y, n)  BY <1>12 DEF StoreIn, At
  <2>2. HasEntry(y, n) => n \in Nat /\ n < MaxRounds  BY <1>0, RoundsEnough
  <2> QED  BY <1>11, <2>1, <2>2
<1>14. StoreIn(b, E, H, y, dj, k, n, r, c)  BY <1>9, <1>12, <1>13 DEF StoreIn
<1> QED  BY <1>14

\* dir_register up to where the entry of the object goes.
EntryReady(b, E, H, y, dj, r, c) ==
  /\ Filled(b, c) /\ Sees(r.v, c, E, H) /\ SameDir(dj, r.dj)
  /\ Goes(r) => \E k : At(y, k, r.dj) /\ Blank(EntryAt(c, y, k))

\* dir_register stores the long name where dir_alloc found the room.
LEMMA LongNameStored ==
  ASSUME NEW v, NEW b, NEW E, NEW H, Sees(v, b, E, H), NEW y, IsTable(b.dirs, y), NEW dj, DjFields(dj), dj.fn \notin Dots, OfTable(y, dj),
         NEW ne, ne = EntriesFor(dj), RoomAt(ne, v, dj, b, y), NEW r, r = StoreLfn(v, dj, ne)
  PROVE  \E c : EntryReady(b, E, H, y, dj, r, c)
<1>1. PICK k : At(y, k, dj) /\ InWindow(v, b, y, k, dj) /\ Blanks(b, y, k + 1, ne)
  BY DEF RoomAt
<1>2. HasEntry(y, k) /\ dj.index = k /\ k \in Nat  BY <1>1 DEF At, HasEntry
<1>3. ne \in Nat /\ ne <= k + 1 /\ \A j \in ((k + 1) - ne)..((k + 1) - 1) : Blank(EntryAt(b, y, j))
  BY <1>1 DEF Blanks
<1>4. Picture(b, E, H) /\ SameDir(dj, dj)  BY DEF Sees, SameDir, SameName
<1>5. CASE ne = 1
  <2>1. r = Done(v, dj)  BY <1>5 DEF StoreLfn
  <2>2. r.v = v /\ r.dj = dj  BY <2>1 DEF Done, Ok, With
  <2>3. k \in ((k + 1) - ne)..((k + 1) - 1)  BY <1>2, <1>5
  <2>4. Filled(b, b)  BY <1>4, FilledSame
  <2>5. EntryReady(b, E, H, y, dj, r, b)  BY <1>1, <1>3, <1>4, <2>2, <2>3, <2>4 DEF EntryReady
  <2> QED  BY <2>5
<1>6. CASE ne # 1
  <2>1. dj.lfn \in LongNames /\ ne = Parts[dj.lfn] + 1  BY <1>6 DEF EntriesFor
  <2>2. Parts[dj.lfn] \in 1..20 /\ LongName(dj)  BY <2>1, NameAssumption DEF LongName
  <2> DEFINE st == ne - 1
             i == dj.index - (ne - 1)
             q == DirSdi(v, dj, i)
             loop == "store"
  <2>3. r = ThenAt(q, LAMBDA w, d : Scan(loop, w, d, st))  BY <1>6 DEF StoreLfn
  <2>4. st \in 1..20 /\ i \in Nat /\ i <= k /\ st = k - i /\ i = (k + 1) - ne
    <3>1. ne \in 2..21
      <4> DEFINE z == Parts[dj.lfn]
      <4>1. ne = z + 1 /\ z \in 1..20  BY <2>1, <2>2
      <4> HIDE DEF z
      <4> QED  BY <4>1
    <3> QED  BY <1>2, <1>3, <3>1
  <2>5. q = DirSdi(v, dj, i) /\ loop = "store"  OBVIOUS
  <2> HIDE DEF st, i, q, loop
  <2>6. HasEntry(y, i)
    <3>1. RowsOf(y) * PerTable \in Int
      <4>1. RowsOf(y) \in Nat  BY <1>4, TableKnown
      <4> QED  BY <4>1, TableAssumption
    <3> QED  BY <1>2, <2>4, <3>1 DEF HasEntry
  <2>7. \A j \in i..k : Blank(EntryAt(b, y, j))  BY <1>2, <1>3, <2>4
  <2>8. \E c : EntryReady(b, E, H, y, dj, r, c)
    <3>1. Goes(q) /\ SameDir(dj, q.dj) /\ Sees(q.v, b, E, H) /\ At(y, i, q.dj)
      BY <2>4, <2>5, <2>6, DirIsAt
    <3> DEFINE u == q.v
               d == q.dj
    <3>2. r = Scan(loop, u, d, st)  BY <2>3, <3>1 DEF ThenAt, Goes
    <3>3. SameDir(dj, d) /\ Sees(u, b, E, H) /\ At(y, i, d)  BY <3>1
    <3> HIDE DEF u, d
    <3>4. st \in 0..20  BY <2>4
    <3>5. PICK c, n : StoreIn(b, E, H, y, dj, k, n, r, c)
      BY <1>2, <2>2, <2>4, <2>5, <2>7, <3>2, <3>3, <3>4, StoreScanned
    <3>6. EntryReady(b, E, H, y, dj, r, c)  BY <3>5 DEF StoreIn, EntryReady, Goes
    <3> QED  BY <3>6
  <2> QED  BY <2>8
<1> QED  BY <1>5, <1>6

----------------------------------------------------------------------------
(* The name of a new entry.                                                *)
NumberingOn(a, E, H, e, l) ==
  Sees(l.v, a, E, H) /\ InTable(a, e, l.dj) /\ l.dj.fn \notin Dots /\ l.n \in Nat /\ l.n > 0
NumberAs(dj, f) == [dj EXCEPT !.fn = f]
NameAs(dj, n, b) == [dj EXCEPT !.lfn = n, !.loss = b]

\* A directory object with another short name.
LEMMA NumberSet ==
  ASSUME NEW a, NEW e, NEW dj, InTable(a, e, dj)
  PROVE  /\ \A f, d : d = NumberAs(dj, f) => InTable(a, e, d) /\ d.fn = f
         /\ \A n, b, d : d = NameAs(dj, n, b) => InTable(a, e, d) /\ d.fn = dj.fn
<1>1. IsTable(a.dirs, e) /\ OfTable(e, dj) /\ DjFields(dj)  BY DEF InTable
<1>2. ASSUME NEW f, NEW d, d = NumberAs(dj, f) PROVE InTable(a, e, d) /\ d.fn = f
  <2>1. DjFields(d) /\ d.sclust = dj.sclust /\ d.fn = f  BY <1>1, <1>2 DEF NumberAs, DjFields
  <2> QED  BY <1>1, <2>1 DEF InTable, OfTable
<1>3. ASSUME NEW n, NEW b, NEW d, d = NameAs(dj, n, b) PROVE InTable(a, e, d) /\ d.fn = dj.fn
  <2>1. DjFields(d) /\ d.sclust = dj.sclust /\ d.fn = dj.fn  BY <1>1, <1>3 DEF NameAs, DjFields
  <2> QED  BY <1>1, <2>1 DEF InTable, OfTable
<1> QED  BY <1>2, <1>3

\* gen_numname before its first round.
LEMMA NumberStarts ==
  ASSUME NEW v, NEW a, NEW E, NEW H, Sees(v, a, E, H), NEW e, NEW dj, InTable(a, e, dj), NEW n \in Nat, n > 0,
         NEW l, l = Numbering(v, dj, n)
  PROVE  NumberingOn(a, E, H, e, l)
<1> DEFINE f == <<dj.fn[1], n>>
           d == NumberAs(dj, f)
<1>1. l.v = v /\ l.dj = d /\ l.n = n  BY DEF Numbering, NumberAs
<1>2. f \notin Dots  BY DEF Dots, Dot, DotDot
<1>3. d = NumberAs(dj, f)  OBVIOUS
<1> HIDE DEF f, d
<1>4. InTable(a, e, d) /\ d.fn = f  BY <1>3, NumberSet
<1> QED  BY <1>1, <1>2, <1>4 DEF NumberingOn

\* One round of gen_numname.
LEMMA NumberGoesOn ==
  ASSUME NEW a, NEW E, NEW H, NEW e, NEW l, NumberingOn(a, E, H, e, l), NEW x, x = NumberRound(l)
  PROVE  NumberingOn(a, E, H, e, x)
<1>1. Sees(l.v, a, E, H) /\ InTable(a, e, l.dj) /\ l.dj.fn \notin Dots /\ l.n \in Nat /\ l.n > 0
  BY DEF NumberingOn
<1>2. CASE l.res # "more"  BY <1>2 DEF NumberRound
<1>3. CASE l.res = "more"
  <2> DEFINE r == DirFind(l.v, l.dj)
             n == l.n + 1
  <2>1. x = Numbered(r, l.n)  BY <1>3 DEF NumberRound
  <2>2. IsTable(a.dirs, e) /\ OfTable(e, l.dj) /\ DjFields(l.dj)  BY <1>1 DEF InTable
  <2>3. r = DirFind(l.v, l.dj) /\ n \in Nat /\ n > 0 /\ n = l.n + 1  BY <1>1
  <2> HIDE DEF r, n
  <2>4. FindsIn(a, E, H, e, l.dj, r)  BY <1>1, <2>2, <2>3, DirFound
  <2>5. Sees(r.v, a, E, H) /\ SameLoop("find", l.dj, r.dj)  BY <2>4 DEF FindsIn
  <2>6. InTable(a, e, r.dj) /\ r.dj.fn \notin Dots
    <3>1. DjFields(r.dj) /\ r.dj.sclust = l.dj.sclust /\ r.dj.fn = l.dj.fn  BY <2>5 DEF SameLoop
    <3> QED  BY <1>1, <2>2, <3>1 DEF InTable, OfTable
  <2>7. CASE r.res = "FR_OK"
    <3>1. x = Numbering(r.v, r.dj, n)  BY <2>1, <2>3, <2>7 DEF Numbered
    <3> QED  BY <2>3, <2>5, <2>6, <3>1, NumberStarts
  <2>8. CASE r.res # "FR_OK"
    <3>1. x.v = r.v /\ x.dj = r.dj /\ x.n = l.n
      <4>1. CASE r.res = "FR_NO_FILE"  BY <2>1, <4>1 DEF Numbered
      <4>2. CASE r.res # "FR_NO_FILE"  BY <2>1, <2>8, <4>2 DEF Numbered
      <4> QED  BY <4>1, <4>2
    <3> QED  BY <1>1, <2>5, <2>6, <3>1 DEF NumberingOn
  <2> QED  BY <2>7, <2>8
<1> QED  BY <1>2, <1>3

\* A hundred rounds of gen_numname.
LEMMA LotGoesOn ==
  ASSUME NEW a, NEW E, NEW H, NEW e, NEW l, NumberingOn(a, E, H, e, l), NEW x, x = NumberRounds(l)
  PROVE  NumberingOn(a, E, H, e, x)
<1>1. CASE l.res # "more"  BY <1>1 DEF NumberRounds
<1>2. CASE l.res = "more"
  <2> DEFINE N == 11
  <2>1. x = NumberEnd(l, N)  BY <1>2 DEF NumberRounds, NumberEnd
  <2>2. N \in Nat  OBVIOUS
  <2> HIDE DEF N
  <2>3. PICK w : w[0] = l /\ (\A n \in 1..N : w[n] = NumberRound(w[n - 1])) /\ NumberEnd(l, N) = w[N]
    BY <2>2, NumberLoop
  <2> DEFINE S == {n \in 0..N : NumberingOn(a, E, H, e, w[n])}
  <2>4. 0 \in S  BY <2>2, <2>3
  <2>5. \A n \in 0..(N - 1) : n \in S => n + 1 \in S
    <3> SUFFICES ASSUME NEW n \in 0..(N - 1), NumberingOn(a, E, H, e, w[n]) PROVE NumberingOn(a, E, H, e, w[n + 1])
      BY <2>2
    <3>1. n + 1 \in 1..N /\ (n + 1) - 1 = n  BY <2>2
    <3>2. w[n + 1] = NumberRound(w[n])  BY <2>3, <3>1
    <3> QED  BY <3>2, NumberGoesOn
  <2> HIDE DEF S
  <2>6. N \in S  BY <2>2, <2>4, <2>5, LoopKeeps
  <2> QED  BY <2>1, <2>3, <2>6 DEF S
<1> QED  BY <1>1, <1>2

NamedIn(a, E, H, e, r) == Sees(r.v, a, E, H) /\ InTable(a, e, r.dj) /\ r.dj.fn \notin Dots

\* The numbered short name is in no table entry, or there is none left.
LEMMA NameNumbered ==
  ASSUME NEW v, NEW a, NEW E, NEW H, Sees(v, a, E, H), NEW e, NEW dj, InTable(a, e, dj), NEW r, r = NumberedName(v, dj)
  PROVE  NamedIn(a, E, H, e, r)
<1> DEFINE one == 1
           l == Numbering(v, dj, one)
           N == 9
           m == LotsEnd(l, N)
<1>1. r = IF m.res = "more" THEN Fails(m.v, m.dj, "FR_DENIED") ELSE With(m, m.dj)
  BY DEF NumberedName, LotsEnd
<1>2. one \in Nat /\ one > 0 /\ l = Numbering(v, dj, one) /\ N \in Nat /\ m = LotsEnd(l, N)  OBVIOUS
<1> HIDE DEF one, l, N, m
<1>3. NumberingOn(a, E, H, e, l)  BY <1>2, NumberStarts
<1>4. PICK w : w[0] = l /\ (\A n \in 1..N : w[n] = NumberRounds(w[n - 1])) /\ LotsEnd(l, N) = w[N]
  BY <1>2, LotsLoop
<1> DEFINE S == {n \in 0..N : NumberingOn(a, E, H, e, w[n])}
<1>5. 0 \in S  BY <1>2, <1>3, <1>4
<1>6. \A n \in 0..(N - 1) : n \in S => n + 1 \in S
  <2> SUFFICES ASSUME NEW n \in 0..(N - 1), NumberingOn(a, E, H, e, w[n]) PROVE NumberingOn(a, E, H, e, w[n + 1])
    BY <1>2
  <2>1. n + 1 \in 1..N /\ (n + 1) - 1 = n  BY <1>2
  <2>2. w[n + 1] = NumberRounds(w[n])  BY <1>4, <2>1
  <2> QED  BY <2>2, LotGoesOn
<1> HIDE DEF S
<1>7. N \in S  BY <1>2, <1>5, <1>6, LoopKeeps
<1>8. NumberingOn(a, E, H, e, m)  BY <1>2, <1>4, <1>7 DEF S
<1>9. r.v = m.v /\ r.dj = m.dj  BY <1>1 DEF Fails, Failed, With
<1> QED  BY <1>8, <1>9 DEF NumberingOn, NamedIn

\* dir_register has its short name.
LEMMA NameIsGiven ==
  ASSUME NEW v, NEW a, NEW E, NEW H, Sees(v, a, E, H), NEW e, NEW dj, InTable(a, e, dj), dj.fn \notin Dots,
         NEW r, r = Named(v, dj)
  PROVE  NamedIn(a, E, H, e, r)
<1>1. CASE ~dj.loss
  <2>1. r.v = v /\ r.dj = dj  BY <1>1 DEF Named, Done, Ok, With
  <2> QED  BY <2>1 DEF NamedIn
<1>2. CASE dj.loss
  <2> DEFINE n == NoName
             b == FALSE
             t == TRUE
             l == dj.lfn
             c == NameAs(dj, n, b)
             q == NumberedName(v, c)
             d == NameAs(q.dj, l, t)
  <2>1. r = ThenAt(q, LAMBDA w, z : Done(w, NameAs(z, l, t)))  BY <1>2 DEF Named, NameAs
  <2>2. c = NameAs(dj, n, b) /\ q = NumberedName(v, c) /\ d = NameAs(q.dj, l, t)  OBVIOUS
  <2> HIDE DEF n, b, t, l, c, q
  <2>3. InTable(a, e, c)  BY <2>2, NumberSet
  <2>4. NamedIn(a, E, H, e, q)  BY <2>2, <2>3, NameNumbered
  <2>5. CASE Goes(q)
    <3>1. r.v = q.v /\ r.dj = d  BY <2>1, <2>5 DEF ThenAt, Goes, Done, Ok, With
    <3> HIDE DEF d
    <3>2. InTable(a, e, d) /\ d.fn = q.dj.fn  BY <2>2, <2>4, NumberSet DEF NamedIn
    <3> QED  BY <2>4, <3>1, <3>2 DEF NamedIn
  <2>6. CASE ~Goes(q)
    <3>1. r = q  BY <2>1, <2>6 DEF ThenAt, Goes
    <3> QED  BY <2>4, <3>1
  <2> QED  BY <2>5, <2>6
<1> QED  BY <1>1, <1>2

----------------------------------------------------------------------------
(* dir_register.                                                           *)
\* p has the entry of a new object, of an empty file.
NewObject(a, H, v, dj, b, p) ==
  /\ Sees(v, b, {}, H) /\ Later(a, {p}, b) /\ p \notin Living(a) /\ dj.fn \notin Dots
  /\ p \in Tables(a) \X (1..PerTable) => Blank(Row(a.rows, p))
  /\ p = PlaceAt(dj) /\ OnPlace(v, b, p, dj) /\ b.owns[p] = <<>>
  /\ ObjectSeen(v, b, p, Sfn(dj.fn, FALSE, FALSE, 0, 0))
Registered(a, H, r) ==
  \/ ~Goes(r) /\ \E b : Later(a, {}, b) /\ Sees(r.v, b, {}, H)
  \/ Goes(r) /\ \E b, p : NewObject(a, H, r.v, r.dj, b, p)

\* The entry of a new object, still without a chain.
LEMMA NewEntry ==
  ASSUME NEW n, n \notin Dots, NEW x, x = Sfn(n, FALSE, FALSE, 0, 0)
  PROVE  /\ IsEntry(x) /\ IsObject(x) /\ x.sfn = n /\ x.isDir = FALSE /\ x.clust = 0 /\ x.size = 0 /\ x.ro = FALSE
         /\ \A C, D, h : Owner(C, D, x, <<>>, h)
<1>1. /\ x = [sfn |-> n, isDir |-> FALSE, ro |-> FALSE, clust |-> 0, size |-> 0]
      /\ x.sfn = n /\ x.isDir = FALSE /\ x.clust = 0 /\ x.size = 0 /\ x.ro = FALSE  BY DEF Sfn
<1>2. "sfn" \in DOMAIN x /\ x = Sfn(x.sfn, x.isDir, x.ro, x.clust, x.size)  BY <1>1 DEF Sfn
<1>3. 0 \in 0..(NFatEnt - 1) /\ 0 \in Nat  BY Numbers
<1>4. IsObject(x)  BY <1>1, <1>2 DEF IsObject, Dots
<1>5. IsEntry(x)  BY <1>1, <1>2, <1>3 DEF IsEntry
<1>6. \A C, D, h : Owner(C, D, x, <<>>, h)
  <2> DEFINE e == <<>>
  <2>1. HeadOf(e) = 0 /\ Len(e) = 0 /\ SectorsFor(0) = 0  BY NoSectors DEF HeadOf
  <2> HIDE DEF e
  <2>2. \A C, D, h : Owner(C, D, x, e, h)
    <3>1. e = <<>>  BY DEF e
    <3> QED  BY <1>1, <2>1, <3>1 DEF Owner
  <2> QED  BY <2>2 DEF e
<1> QED  BY <1>1, <1>4, <1>5, <1>6

\* The entry of the object is written.
LEMMA ObjectStored ==
  ASSUME NEW v, NEW a, NEW H, Sees(v, a, {}, H), NEW y, IsTable(a.dirs, y), NEW dj, dj.fn \notin Dots, NEW k, At(y, k, dj),
         Blank(EntryAt(a, y, k)), NEW l, l = Load(v, dj), NEW x, x = Sfn(dj.fn, FALSE, FALSE, 0, 0),
         NEW w, w = Store(l.v, dj, x)
  PROVE  \E b, p : NewObject(a, H, w, dj, b, p)
<1> DEFINE E == {}
           p == PlaceOf(y, k)
           o == <<>>
           u == l.v
           n == dj.fn
<1>0. o = <<>> /\ p = PlaceOf(y, k) /\ E = {} /\ Sees(v, a, E, H) /\ w = Store(u, dj, x) /\ x = Sfn(n, FALSE, FALSE, 0, 0) /\ n \notin Dots
  OBVIOUS
<1>1. Goes(l) /\ Sees(u, a, E, H) /\ InWindow(u, a, y, k, dj)  BY Loaded
<1> HIDE DEF E, p, o, u, n
<1>2. Picture(a, E, H)  BY <1>1 DEF Sees
<1>3. OnPlace(u, a, p, dj) /\ Row(a.rows, p) = EntryAt(a, y, k)  BY <1>0, <1>1, WindowOnPlace
<1>4. p \in Tables(a) \X (1..PerTable) /\ Blank(Row(a.rows, p)) /\ p = PlaceAt(dj)
  BY <1>3 DEF OnPlace
<1>5. IsEntry(x) /\ IsObject(x) /\ \A C, D, h : Owner(C, D, x, o, h)  BY <1>0, NewEntry
<1>6. CanStand(a, E, H, p, x, o)
  <2>1. Unowned(a, E, p, o)  BY <1>0 DEF Unowned
  <2>2. p \notin E  BY <1>0
  <2> QED  BY <1>5, <2>1, <2>2 DEF CanStand
<1>7. PICK b : StoredAt(a, E, H, p, x, o, w, b)  BY <1>0, <1>1, <1>3, <1>6, EntryStored
<1>8. /\ Sees(w, b, E, H) /\ OnlyAt(a, p, b) /\ Row(b.rows, p) = x /\ b.owns[p] = o /\ p \in Living(b)
      /\ w.sect = p[1] /\ w.win[p[2]] = x /\ DOMAIN w.win = 1..PerTable
  BY <1>5, <1>7 DEF StoredAt
<1>9. Later(a, {p}, b)  BY <1>2, <1>4, <1>5, <1>8, LaterAt
<1>10. p \notin Living(a)
  <2>1. ~IsObject(Row(a.rows, p))  BY <1>4, ObjectNotBlank
  <2> QED  BY <1>2, <1>4, <2>1, EntriesKnown
<1>11. p \in Tables(b) \X (1..PerTable) /\ p[1] \in Tables(b) /\ p[2] \in 1..PerTable
  BY <1>4, <1>8 DEF OnlyAt
<1>12. OnPlace(w, b, p, dj)  BY <1>4, <1>8, <1>11 DEF OnPlace
<1>13. ObjectSeen(w, b, p, x)  BY <1>5, <1>8, <1>11 DEF ObjectSeen
<1>14. NewObject(a, H, w, dj, b, p)
  <2>1. b.owns[p] = <<>> /\ Sees(w, b, {}, H) /\ ObjectSeen(w, b, p, Sfn(dj.fn, FALSE, FALSE, 0, 0))
    BY <1>0, <1>8, <1>13
  <2> QED  BY <1>4, <1>9, <1>10, <1>12, <2>1 DEF NewObject
<1> QED  BY <1>14

\* An object that is new in what came later.
LEMMA NewLater ==
  ASSUME NEW a, NEW E, NEW H, Picture(a, E, H), NEW c, Later(a, {}, c), Living(c) = Living(a), NEW v, NEW dj, NEW b, NEW p, NewObject(c, H, v, dj, b, p)
  PROVE  NewObject(a, H, v, dj, b, p)
<1> DEFINE z == {}
           s == {p}
<1>1. s = z \cup s /\ Later(a, z, c) /\ Later(c, s, b)  BY DEF NewObject
<1> HIDE DEF z, s
<1>2. Later(a, s, b)  BY <1>1, LaterOn
<1>3. ASSUME p \in Tables(a) \X (1..PerTable) PROVE Blank(Row(a.rows, p))
  <2>1. p \in Tables(c) \X (1..PerTable)  BY <1>3 DEF Later
  <2>2. Blank(Row(c.rows, p))  BY <2>1 DEF NewObject
  <2>3. ~Blank(Row(a.rows, p)) => Row(c.rows, p) = Row(a.rows, p)  BY <1>3 DEF Later
  <2> QED  BY <2>2, <2>3
<1> QED  BY <1>2, <1>3 DEF NewObject, s

\* A volume that changed twice with no object touched.
LEMMA LaterFailed ==
  ASSUME NEW a, NEW b, NEW c, Later(a, {}, b), Later(b, {}, c)
  PROVE  Later(a, {}, c)
<1> DEFINE z == {}
<1>1. z = z \cup z /\ Later(a, z, b) /\ Later(b, z, c)  OBVIOUS
<1> HIDE DEF z
<1>2. Later(a, z, c)  BY <1>1, LaterOn
<1> QED  BY <1>2 DEF z

RegisterLast(v, dj) == ThenAt(Load(v, dj), LAMBDA z, t : Done(Store(z, t, Sfn(t.fn, FALSE, FALSE, 0, 0)), t))
RegisterIn(v, dj) == ThenAt(StoreLfn(v, dj, EntriesFor(dj)), LAMBDA y, s : RegisterLast(y, s))
RegisterAs(v, dj) == ThenAt(DirAlloc(v, dj, EntriesFor(dj)), LAMBDA x, d : RegisterIn(x, d))

\* dir_register names the object and then enters it.
LEMMA RegisterParts ==
  ASSUME NEW v, NEW dj
  PROVE  DirRegister(v, dj) = ThenAt(Named(v, dj), LAMBDA w, d : RegisterAs(w, d))
BY DEF DirRegister, RegisterAs, RegisterIn, RegisterLast

\* dir_register stores the short name entry.
LEMMA LastRegistered ==
  ASSUME NEW v, NEW a, NEW H, Sees(v, a, {}, H), NEW y, IsTable(a.dirs, y), NEW dj, dj.fn \notin Dots, NEW k, At(y, k, dj),
         Blank(EntryAt(a, y, k)), NEW r, r = RegisterLast(v, dj)
  PROVE  Goes(r) /\ \E b, p : NewObject(a, H, r.v, r.dj, b, p)
<1> DEFINE E == {}
           l == Load(v, dj)
           x == Sfn(dj.fn, FALSE, FALSE, 0, 0)
           w == Store(l.v, dj, x)
<1>1. Sees(v, a, E, H) /\ l = Load(v, dj) /\ x = Sfn(dj.fn, FALSE, FALSE, 0, 0) /\ w = Store(l.v, dj, x)  OBVIOUS
<1>2. r = ThenAt(l, LAMBDA z, t : Done(Store(z, t, Sfn(t.fn, FALSE, FALSE, 0, 0)), t))
  BY DEF RegisterLast
<1> HIDE DEF E, l
<1>3. Goes(l) /\ l.dj = dj  BY <1>1, Loaded
<1>4. r = Done(w, dj)  BY <1>2, <1>3 DEF ThenAt, Goes
<1> HIDE DEF x, w
<1>5. Goes(r) /\ r.v = w /\ r.dj = dj  BY <1>4 DEF Done, Ok, With, Goes
<1>6. \E b, p : NewObject(a, H, w, dj, b, p)  BY <1>1, ObjectStored
<1> QED  BY <1>5, <1>6

\* dir_register where there is room.
LEMMA InRegistered ==
  ASSUME NEW v, NEW a, NEW H, Sees(v, a, {}, H), NEW y, IsTable(a.dirs, y), NEW dj, DjFields(dj), dj.fn \notin Dots,
         OfTable(y, dj), RoomAt(EntriesFor(dj), v, dj, a, y), NEW r, r = RegisterIn(v, dj)
  PROVE  Registered(a, H, r)
<1> DEFINE E == {}
           ne == EntriesFor(dj)
           s == StoreLfn(v, dj, ne)
<1>1. Sees(v, a, E, H) /\ ne = EntriesFor(dj) /\ s = StoreLfn(v, dj, ne) /\ RoomAt(ne, v, dj, a, y)  OBVIOUS
<1>2. r = ThenAt(s, LAMBDA z, t : RegisterLast(z, t))  BY DEF RegisterIn
<1> HIDE DEF E, ne, s
<1>3. PICK c : EntryReady(a, E, H, y, dj, s, c)  BY <1>1, LongNameStored
<1>4. Filled(a, c) /\ Sees(s.v, c, E, H) /\ SameDir(dj, s.dj) /\ (Goes(s) => \E k : At(y, k, s.dj) /\ Blank(EntryAt(c, y, k)))
  BY <1>3 DEF EntryReady
<1>5. Later(a, {}, c) /\ Living(c) = Living(a) /\ c.dirs = a.dirs /\ Picture(a, E, H)
  BY <1>1, <1>4 DEF Filled, Sees
<1>6. Sees(s.v, c, {}, H)  BY <1>4 DEF E
<1>7. CASE Goes(s)
  <2> DEFINE w == s.v
             d == s.dj
  <2>1. r = RegisterLast(w, d)  BY <1>2, <1>7 DEF ThenAt, Goes
  <2>2. Sees(w, c, {}, H) /\ SameDir(dj, d)  BY <1>4, <1>6
  <2>3. PICK k : At(y, k, d) /\ Blank(EntryAt(c, y, k))  BY <1>4, <1>7
  <2> HIDE DEF w, d
  <2>4. IsTable(c.dirs, y) /\ d.fn \notin Dots  BY <1>5, <2>2 DEF SameDir, SameName
  <2>5. Goes(r) /\ \E b, p : NewObject(c, H, r.v, r.dj, b, p)
    BY <2>1, <2>2, <2>3, <2>4, LastRegistered
  <2>6. PICK b, p : NewObject(c, H, r.v, r.dj, b, p)  BY <2>5
  <2> DEFINE u == r.v
             t == r.dj
  <2>7. NewObject(c, H, u, t, b, p)  BY <2>6
  <2> HIDE DEF u, t
  <2>8. NewObject(a, H, u, t, b, p)  BY <1>5, <2>7, NewLater
  <2> QED  BY <2>5, <2>8 DEF Registered, u, t
<1>8. CASE ~Goes(s)
  <2>1. r = s  BY <1>2, <1>8 DEF ThenAt, Goes
  <2> QED  BY <1>5, <1>6, <1>8, <2>1 DEF Registered
<1> QED  BY <1>7, <1>8

\* What is registered in what came later.
LEMMA RegisteredLater ==
  ASSUME NEW a, NEW E, NEW H, Picture(a, E, H), NEW c, Later(a, {}, c), Living(c) = Living(a), NEW r, Registered(c, H, r)
  PROVE  Registered(a, H, r)
<1> DEFINE v == r.v
           dj == r.dj
<1>1. v = r.v /\ dj = r.dj  OBVIOUS
<1> HIDE DEF v, dj
<1>2. CASE Goes(r)
  <2>1. PICK b, p : NewObject(c, H, v, dj, b, p)  BY <1>1, <1>2 DEF Registered
  <2>2. NewObject(a, H, v, dj, b, p)  BY <2>1, NewLater
  <2> QED  BY <1>1, <1>2, <2>2 DEF Registered
<1>3. CASE ~Goes(r)
  <2>1. PICK b : Later(c, {}, b) /\ Sees(r.v, b, {}, H)  BY <1>3 DEF Registered
  <2>2. Later(a, {}, b)  BY <2>1, LaterFailed
  <2> QED  BY <1>3, <2>1, <2>2 DEF Registered
<1> QED  BY <1>2, <1>3

\* dir_register: an entry with no chain more, or none when there is no room.
LEMMA DirRegisters ==
  ASSUME NEW v, NEW a, NEW H, Sees(v, a, {}, H), NEW e, NEW dj, InTable(a, e, dj), dj.fn \notin Dots,
         NEW r, r = DirRegister(v, dj)
  PROVE  Registered(a, H, r)
<1> DEFINE E == {}
           n == Named(v, dj)
<1>1. Sees(v, a, E, H) /\ n = Named(v, dj)  OBVIOUS
<1>2. r = ThenAt(n, LAMBDA w, d : RegisterAs(w, d))  BY RegisterParts
<1> HIDE DEF E, n
<1>3. NamedIn(a, E, H, e, n) /\ Picture(a, E, H)  BY <1>1, NameIsGiven DEF Sees
<1>4. Later(a, {}, a) /\ Longer(a, a)  BY <1>3, LaterSame, LongerSame
<1>5. CASE ~Goes(n)
  <2>1. r = n  BY <1>2, <1>5 DEF ThenAt, Goes
  <2>2. Sees(n.v, a, {}, H)  BY <1>3 DEF NamedIn, E
  <2> QED  BY <1>4, <1>5, <2>1, <2>2 DEF Registered
<1>6. CASE Goes(n)
  <2> DEFINE w == n.v
             d == n.dj
             ne == EntriesFor(d)
             q == DirAlloc(w, d, ne)
  <2>1. r = ThenAt(q, LAMBDA x, z : RegisterIn(x, z))
    BY <1>2, <1>6 DEF ThenAt, Goes, RegisterAs
  <2>2. Sees(w, a, E, H) /\ InTable(a, e, d) /\ d.fn \notin Dots  BY <1>3 DEF NamedIn
  <2>3. q = DirAlloc(w, d, ne) /\ ne = EntriesFor(d)  OBVIOUS
  <2> HIDE DEF w, d, ne, q
  <2>4. PICK b, y : RoomMade(a, E, H, e, d, ne, q, b, y)  BY <2>2, <2>3, RoomFound
  <2>5. /\ Longer(a, b) /\ Extends(e, y) /\ Sees(q.v, b, E, H) /\ IsTable(b.dirs, y) /\ SameDir(d, q.dj)
        /\ Goes(q) => RoomAt(ne, q.v, q.dj, b, y)
    BY <2>4 DEF RoomMade
  <2>6. Later(a, {}, b) /\ Living(b) = Living(a) /\ Sees(q.v, b, {}, H)  BY <2>5 DEF Longer, E
  <2>7. CASE ~Goes(q)
    <3>1. r = q  BY <2>1, <2>7 DEF ThenAt, Goes
    <3> QED  BY <2>6, <2>7, <3>1 DEF Registered
  <2>8. CASE Goes(q)
    <3> DEFINE x == q.v
               z == q.dj
    <3>1. r = RegisterIn(x, z)  BY <2>1, <2>8 DEF ThenAt, Goes
    <3>2. Sees(x, b, {}, H) /\ SameDir(d, z) /\ RoomAt(ne, x, z, b, y)  BY <2>5, <2>6, <2>8
    <3> HIDE DEF x, z
    <3>3. DjFields(z) /\ z.fn = d.fn /\ z.lfn = d.lfn /\ z.sclust = d.sclust
      BY <3>2 DEF SameDir, SameName
    <3>4. EntriesFor(z) = ne  BY <2>3, <3>3 DEF EntriesFor
    <3>5. OfTable(y, z)
      <4>1. OfTable(y, d)  BY <2>2, <2>5, ExtendsPlaces DEF InTable
      <4> QED  BY <3>3, <4>1 DEF OfTable
    <3>6. RoomAt(EntriesFor(z), x, z, b, y) /\ z.fn \notin Dots  BY <2>2, <3>2, <3>3, <3>4
    <3>7. Registered(b, H, r)  BY <2>5, <3>1, <3>2, <3>3, <3>5, <3>6, InRegistered
    <3> QED  BY <1>3, <2>6, <3>7, RegisteredLater
  <2> QED  BY <2>7, <2>8
<1> QED  BY <1>5, <1>6

----------------------------------------------------------------------------
(* dir_remove.                                                             *)
\* The objects at places of R are gone, and nothing else is but entries of no objects.
Emptier(a, R, c) ==
  /\ Tables(c) = Tables(a) /\ c.fat = a.fat /\ c.chains = a.chains /\ c.dirs = a.dirs
  /\ Living(c) = Living(a) \ R
  /\ \A q \in Living(c) : Row(c.rows, q) = Row(a.rows, q) /\ c.owns[q] = a.owns[q]

\* A volume that did not change.
LEMMA EmptierSame ==
  ASSUME NEW a, NEW R, R = {}
  PROVE  Emptier(a, R, a)
BY DEF Emptier

\* One entry is deleted.
LEMMA EmptierAt ==
  ASSUME NEW a, NEW b, NEW R, R = {}, Emptier(a, R, b), NEW p \in Tables(b) \X (1..PerTable), NEW c, OnlyAt(b, p, c), p \notin Living(c),
         NEW S, S = {p}
  PROVE  Emptier(a, S, c) /\ (p \notin Living(a) => Emptier(a, R, c))
<1>1. /\ Tables(b) = Tables(a) /\ b.fat = a.fat /\ b.chains = a.chains /\ b.dirs = a.dirs /\ Living(b) = Living(a)
      /\ \A q \in Living(b) : Row(b.rows, q) = Row(a.rows, q) /\ b.owns[q] = a.owns[q]
  BY DEF Emptier
<1>2. /\ Tables(c) = Tables(b) /\ c.fat = b.fat /\ c.chains = b.chains /\ c.dirs = b.dirs
      /\ \A q \in Tables(b) \X (1..PerTable) : q # p =>
           (q \in Living(c) <=> q \in Living(b)) /\ Row(c.rows, q) = Row(b.rows, q)
           /\ (q \in Living(b) => c.owns[q] = b.owns[q])
  BY DEF OnlyAt
<1>3. Living(b) \subseteq Tables(b) \X (1..PerTable) /\ Living(c) \subseteq Tables(b) \X (1..PerTable)
  BY <1>2, PlacesKnown
<1>4. Living(c) = Living(b) \ {p}  BY <1>2, <1>3
<1>5. \A q \in Living(c) : q # p /\ q \in Living(b) /\ q \in Tables(b) \X (1..PerTable)
  BY <1>3, <1>4
<1>6. \A q \in Living(c) : Row(c.rows, q) = Row(a.rows, q) /\ c.owns[q] = a.owns[q]
  BY <1>1, <1>2, <1>5
<1> QED  BY <1>1, <1>2, <1>4, <1>6 DEF Emptier

DeleteIn(a, E, H, k, y, i, l, c) ==
  /\ Sees(l.v, c, E, H) /\ DjFields(l.dj) /\ l.res \in {"more", "FR_OK"}
  /\ l.res = "more" => At(y, i, l.dj) /\ i <= k /\ l.st = k /\ Emptier(a, {}, c)
  /\ l.res = "FR_OK" => Emptier(a, {PlaceOf(y, k)}, c)
DeleteState(a, E, H, k, y, i, l) == \E c : DeleteIn(a, E, H, k, y, i, l, c)
NoObjects(a, y, i, k) == \A j \in i..(k - 1) : PlaceOf(y, j) \notin Living(a)

\* A deleted entry can stand anywhere.
LEMMA DeletedStands == ~IsObject(Deleted) /\ IsEntry(Deleted) /\ \A a, E, H, p, o : CanStand(a, E, H, p, Deleted, o)
BY DEF CanStand, IsEntry, IsObject, Blank, Deleted

\* A round of dir_remove deletes the entry it is at.
LEMMA DeleteSaid ==
  ASSUME NEW v, NEW dj, NEW i, NEW m, m = DeleteLook(v, dj, i)
  PROVE  m.dj = dj /\ m.v = Store(v, dj, Deleted) /\ m.st = i /\ m.res = (IF dj.index >= i THEN "FR_OK" ELSE "more")
BY DEF DeleteLook, Said

\* One round of dir_remove.
LEMMA DeleteGoesOn ==
  ASSUME NEW a, NEW E, NEW H, NEW y, IsTable(a.dirs, y), NEW k, HasEntry(y, k), NEW i \in Nat, NoObjects(a, y, i, k),
         NEW l, DeleteState(a, E, H, k, y, i, l), NEW loop, loop = "delete", NEW x, x = ScanRound(l, loop), NEW n, n = i + 1
  PROVE  DeleteState(a, E, H, k, y, n, x)
<1>1. PICK c : DeleteIn(a, E, H, k, y, i, l, c)  BY DEF DeleteState
<1>2. CASE l.res # "more"
  <2>1. x = l  BY <1>2 DEF ScanRound
  <2>2. DeleteIn(a, E, H, k, y, n, x, c)  BY <1>1, <1>2, <2>1 DEF DeleteIn
  <2> QED  BY <2>2 DEF DeleteState
<1>3. CASE l.res = "more"
  <2> DEFINE R == {}
             d == l.dj
             st == l.st
             m(w) == Look(loop, w, d, st)
             p == PlaceOf(y, i)
             S == {p}
             e == Deleted
             o == 0
  <2>1. /\ Sees(l.v, c, E, H) /\ DjFields(d) /\ At(y, i, d) /\ i <= k /\ st = k /\ Emptier(a, R, c) /\ At(y, i, l.dj)
    BY <1>1, <1>3 DEF DeleteIn
  <2>2. IsTable(c.dirs, y)  BY <2>1 DEF Emptier, IsTable
  <2>3. RoundAt(c, E, H, y, i, l)  BY <1>3, <2>1, <2>2 DEF RoundAt
  <2>4. LooksAt(loop, c, E, H, y, i, l.dj, l.st, x)  BY <2>3, RoundLooks
  <2>5. PICK w : Sees(w, c, E, H) /\ InWindow(w, c, y, i, d) /\ x = Onward(m(w), loop)
    BY <2>4 DEF LooksAt
  <2> DEFINE q == m(w)
             u == q.v
  <2>6. q = DeleteLook(w, d, st) /\ x = Onward(q, loop) /\ R = {} /\ S = {p} /\ u = q.v /\ p = PlaceOf(y, i) /\ e = Deleted
    BY <2>5, LooksAre
  <2> HIDE DEF d, st, m, q, R, S, p, u, e, o
  <2>7. q.dj = d /\ q.v = Store(w, d, e) /\ q.st = st /\ q.res = (IF d.index >= st THEN "FR_OK" ELSE "more")
    BY <2>6, DeleteSaid
  <2>8. k \in Nat /\ d.index = i  BY <2>1 DEF HasEntry, At
  <2>9. OnPlace(w, c, p, d)  BY <2>5, <2>6, WindowOnPlace
  <2>10. CanStand(c, E, H, p, e, o) /\ ~IsObject(e)  BY <2>6, DeletedStands
  <2>11. u = Store(w, d, e)  BY <2>6, <2>7
  <2>12. PICK z : StoredAt(c, E, H, p, e, o, u, z)  BY <2>5, <2>9, <2>10, <2>11, EntryStored
  <2>13. Sees(u, z, E, H) /\ OnlyAt(c, p, z) /\ p \notin Living(z)  BY <2>10, <2>12 DEF StoredAt
  <2>14. p \in Tables(c) \X (1..PerTable)  BY <2>9 DEF OnPlace
  <2>15. Emptier(a, S, z) /\ (p \notin Living(a) => Emptier(a, R, z))
    BY <2>1, <2>6, <2>13, <2>14, EmptierAt
  <2>16. CASE i = k
    <3>1. q.res = "FR_OK"  BY <2>1, <2>7, <2>8, <2>16
    <3>2. x = q  BY <2>6, <3>1, LoopStops
    <3>3. Emptier(a, {PlaceOf(y, k)}, z)  BY <2>6, <2>15, <2>16
    <3>4. x.v = u /\ x.dj = d /\ x.res = "FR_OK"  BY <2>6, <2>7, <3>1, <3>2
    <3>5. DeleteIn(a, E, H, k, y, n, x, z)  BY <2>1, <2>13, <3>3, <3>4 DEF DeleteIn
    <3> QED  BY <3>5 DEF DeleteState
  <2>17. CASE i # k
    <3>1. i < k  BY <2>1, <2>8, <2>17
    <3>2. q.res = "more"  BY <2>1, <2>7, <2>8, <3>1
    <3>3. p \notin Living(a)
      <4>1. i \in i..(k - 1)  BY <2>8, <3>1
      <4> QED  BY <2>6, <4>1 DEF NoObjects
    <3>4. Emptier(a, {}, z) /\ IsTable(z.dirs, y)
      <4>1. Emptier(a, R, z)  BY <2>15, <3>3
      <4> QED  BY <2>6, <4>1 DEF Emptier, IsTable
    <3>5. loop # "alloc" /\ Sees(q.v, z, E, H) /\ At(y, i, q.dj) /\ DjFields(q.dj)
      BY <2>1, <2>6, <2>7, <2>13
    <3>6. StepsOn(z, E, H, y, i, q, x)  BY <2>6, <3>2, <3>4, <3>5, LoopStepsOn
    <3>7. HasEntry(y, i + 1)
      <4>1. RowsOf(y) * PerTable \in Int
        <5>1. Picture(c, E, H)  BY <2>5 DEF Sees
        <5>2. RowsOf(y) \in Nat  BY <2>2, <5>1, TableKnown
        <5> QED  BY <5>2, TableAssumption
      <4> QED  BY <2>8, <3>1, <4>1 DEF HasEntry
    <3>8. Sees(x.v, z, E, H) /\ SameDir(d, x.dj) /\ x.st = k /\ x.res = "more" /\ At(y, n, x.dj)
      BY <2>1, <2>7, <3>6, <3>7 DEF StepsOn
    <3>9. n <= k /\ DjFields(x.dj)  BY <2>8, <3>1, <3>8 DEF SameDir, SameName
    <3>10. DeleteIn(a, E, H, k, y, n, x, z)  BY <3>4, <3>8, <3>9 DEF DeleteIn
    <3> QED  BY <3>10 DEF DeleteState
  <2> QED  BY <2>16, <2>17
<1> QED  BY <1>2, <1>3

\* The rounds of dir_remove, from the long name to the object.
LEMMA DeleteScanned ==
  ASSUME NEW v, NEW a, NEW E, NEW H, Sees(v, a, E, H), NEW y, IsTable(a.dirs, y), NEW k, HasEntry(y, k),
         NEW i \in Nat, i <= k, NoObjects(a, y, i, k), NEW d, DjFields(d), At(y, i, d),
         NEW loop, loop = "delete", NEW r, r = Scan(loop, v, d, k)
  PROVE  Goes(r) /\ \E c : Sees(r.v, c, E, H) /\ Emptier(a, {PlaceOf(y, k)}, c)
<1> DEFINE start == Said(v, d, "more", k)
           N == MaxRounds
<1>1. start.v = v /\ start.dj = d /\ start.res = "more" /\ start.st = k  BY SaidIs
<1> HIDE DEF start
<1>0. Picture(a, E, H)  BY DEF Sees
<1>2. N \in Nat  BY <1>0, RoundsEnough
<1> HIDE DEF N
<1>3. PICK w : /\ w[0] = start /\ \A n \in 1..N : w[n] = ScanRound(w[n - 1], loop)
               /\ ScanEnd(start, loop, N) = w[N]
  BY <1>2, ScanLoop
<1>4. r = With(w[N], w[N].dj)  BY <1>3 DEF Scan, ScanEnd, start, N
<1> DEFINE S == {n \in 0..N : DeleteState(a, E, H, k, y, i + n, w[n])}
<1>6. 0 \in S
  <2> DEFINE s == w[0]
             R == {}
  <2>1. s.v = v /\ s.dj = d /\ s.res = "more" /\ s.st = k /\ R = {}  BY <1>1, <1>3
  <2> HIDE DEF s, R
  <2>2. Emptier(a, R, a)  BY <2>1, EmptierSame
  <2>3. DeleteIn(a, E, H, k, y, i, s, a)  BY <2>1, <2>2 DEF DeleteIn
  <2>4. DeleteState(a, E, H, k, y, i, s)  BY <2>3 DEF DeleteState
  <2>5. i + 0 = i  OBVIOUS
  <2> QED  BY <1>2, <2>4, <2>5 DEF s
<1>7. \A n \in 0..(N - 1) : n \in S => n + 1 \in S
  <2> SUFFICES ASSUME NEW n \in 0..(N - 1), DeleteState(a, E, H, k, y, i + n, w[n])
               PROVE  DeleteState(a, E, H, k, y, i + (n + 1), w[n + 1])
    BY <1>2
  <2> DEFINE x == w[n]
             z == w[n + 1]
             j == i + n
             h == i + (n + 1)
  <2>1. z = ScanRound(x, loop)
    <3>1. n + 1 \in 1..N /\ (n + 1) - 1 = n  BY <1>2
    <3> QED  BY <1>3, <3>1
  <2>2. j \in Nat /\ h = j + 1 /\ i <= j  BY <1>2
  <2>3. DeleteState(a, E, H, k, y, j, x)  OBVIOUS
  <2> HIDE DEF x, z, j, h
  <2>4. NoObjects(a, y, j, k)
    <3>1. k \in Nat  BY DEF HasEntry
    <3>2. \A g \in j..(k - 1) : g \in i..(k - 1)  BY <2>2, <3>1
    <3> QED  BY <3>2 DEF NoObjects
  <2>5. DeleteState(a, E, H, k, y, h, z)  BY <2>1, <2>2, <2>3, <2>4, DeleteGoesOn
  <2> QED  BY <2>5 DEF h, z
<1> HIDE DEF S
<1>8. N \in S  BY <1>2, <1>6, <1>7, LoopKeeps
<1> DEFINE m == w[N]
           n == i + N
<1>9. r.v = m.v /\ r.res = m.res  BY <1>4 DEF With
<1>10. DeleteState(a, E, H, k, y, n, m)  BY <1>8 DEF S
<1>11. ~(n + 0 < MaxRounds)  BY <1>2 DEF N
<1> HIDE DEF m, n
<1>12. PICK c : DeleteIn(a, E, H, k, y, n, m, c)  BY <1>10 DEF DeleteState
<1>13. m.res # "more"
  <2>1. m.res = "more" => HasEntry(y, n)  BY <1>12 DEF DeleteIn, At
  <2>2. HasEntry(y, n) => n \in Nat /\ n < MaxRounds  BY <1>0, RoundsEnough
  <2> QED  BY <1>11, <2>1, <2>2
<1> QED  BY <1>9, <1>12, <1>13 DEF DeleteIn, Goes

\* An object that a directory object is at, and the parts of its long name.
Stands(a, y, k, dj) ==
  /\ IsTable(a.dirs, y) /\ OfTable(y, dj) /\ DjFields(dj) /\ HasEntry(y, k) /\ dj.index = k
  /\ dj.lfnIdx # NoLfn => dj.lfnIdx \in 0..k /\ NoObjects(a, y, dj.lfnIdx, k)

\* dir_remove deletes one object and its long name.
LEMMA DirRemoved ==
  ASSUME NEW v, NEW a, NEW E, NEW H, Sees(v, a, E, H), NEW y, NEW k, NEW dj, Stands(a, y, k, dj),
         NEW p, p = PlaceOf(y, k), NEW r, r = DirRemove(v, dj)
  PROVE  Goes(r) /\ \E c : Sees(r.v, c, E, H) /\ Emptier(a, {p}, c)
<1> DEFINE i == IF dj.lfnIdx = NoLfn THEN dj.index ELSE dj.lfnIdx
           q == DirSdi(v, dj, i)
           loop == "delete"
           m == ThenAt(q, LAMBDA w, d : Scan(loop, w, d, dj.index))
<1>1. r = IF m.res = "FR_NO_FILE" THEN [m EXCEPT !.res = "FR_INT_ERR"] ELSE m  BY DEF DirRemove
<1>2. m = ThenAt(q, LAMBDA w, d : Scan(loop, w, d, dj.index)) /\ q = DirSdi(v, dj, i) /\ loop = "delete"  OBVIOUS
<1>3. IsTable(a.dirs, y) /\ OfTable(y, dj) /\ DjFields(dj) /\ HasEntry(y, k) /\ dj.index = k
  BY DEF Stands
<1>4. k \in Nat  BY <1>3 DEF HasEntry
<1>5. i \in Nat /\ i <= k /\ NoObjects(a, y, i, k)
  <2>1. CASE dj.lfnIdx = NoLfn  BY <1>3, <1>4, <2>1 DEF NoObjects
  <2>2. CASE dj.lfnIdx # NoLfn  BY <1>4, <2>2 DEF Stands
  <2> QED  BY <2>1, <2>2
<1> HIDE DEF i, q, loop, m
<1>6. HasEntry(y, i)
  <2>1. RowsOf(y) * PerTable \in Int
    <3>1. RowsOf(y) \in Nat  BY <1>3, TableKnown DEF Sees
    <3> QED  BY <3>1, TableAssumption
  <2> QED  BY <1>3, <1>4, <1>5, <2>1 DEF HasEntry
<1>7. Goes(q) /\ SameDir(dj, q.dj) /\ Sees(q.v, a, E, H) /\ At(y, i, q.dj)
  BY <1>2, <1>3, <1>5, <1>6, DirIsAt
<1> DEFINE w == q.v
           d == q.dj
<1>8. m = Scan(loop, w, d, k)  BY <1>2, <1>3, <1>7 DEF ThenAt, Goes
<1>9. Sees(w, a, E, H) /\ DjFields(d) /\ At(y, i, d)  BY <1>7 DEF SameDir, SameName
<1> HIDE DEF w, d
<1>10. Goes(m) /\ \E c : Sees(m.v, c, E, H) /\ Emptier(a, {PlaceOf(y, k)}, c)
  BY <1>2, <1>3, <1>5, <1>8, <1>9, DeleteScanned
<1>11. r = m  BY <1>1, <1>10 DEF Goes
<1> QED  BY <1>10, <1>11

\* What follow_path finds.
LEMMA FoundStands ==
  ASSUME NEW v, NEW a, NEW E, NEW H, Sees(v, a, E, H), NEW e, NEW dj, HasObject(a, e, dj, v), NEW p, p = PlaceAt(dj)
  PROVE  \E k : Stands(a, e, k, dj) /\ p = PlaceOf(e, k)
<1>1. PICK j : At(e, j, dj) /\ InWindow(v, a, e, j, dj) /\ FoundHere("find", a, e, j, dj)
  BY DEF HasObject, FoundAtEntry
<1>2. IsTable(a.dirs, e) /\ OfTable(e, dj) /\ DjFields(dj)  BY DEF HasObject, InTable
<1>3. HasEntry(e, j) /\ dj.index = j /\ j \in Nat  BY <1>1 DEF At, HasEntry
<1>4. p = PlaceOf(e, j)  BY <1>1 DEF InWindow, PlaceAt
<1>5. ASSUME dj.lfnIdx # NoLfn PROVE dj.lfnIdx \in 0..j /\ NoObjects(a, e, dj.lfnIdx, j)
  <2>1. dj.lfnIdx \in 0..j /\ \A n \in dj.lfnIdx..(j - 1) : IsLfn(EntryAt(a, e, n))
    BY <1>1, <1>5 DEF FoundHere, LfnRun
  <2>2. ASSUME NEW n \in dj.lfnIdx..(j - 1) PROVE PlaceOf(e, n) \notin Living(a)
    <3>1. IsLfn(EntryAt(a, e, n))  BY <2>1
    <3>2. HasEntry(e, n)
      <4>1. RowsOf(e) * PerTable \in Int
        <5>1. RowsOf(e) \in Nat  BY <1>2, TableKnown DEF Sees
        <5> QED  BY <5>1, TableAssumption
      <4> QED  BY <1>3, <2>1, <4>1 DEF HasEntry
    <3>3. IsEntry(EntryAt(a, e, n)) /\ (PlaceOf(e, n) \in Living(a) <=> IsObject(EntryAt(a, e, n)))
      BY <1>2, <3>2, PlaceKnown DEF Sees
    <3> QED  BY <3>1, <3>3, ObjectEntry
  <2> QED  BY <2>1, <2>2 DEF NoObjects
<1> QED  BY <1>2, <1>3, <1>4, <1>5 DEF Stands

----------------------------------------------------------------------------
(* The calls that change no more than an entry that is there.              *)

\* A call that changed nothing.
LEMMA VolumeKept ==
  ASSUME NEW v, NEW a, NEW H, Sees(v, a, {}, H)
  PROVE  VolumeMade(a, H, v)
<1>1. FilesStay(a, {}, a)  BY DEF FilesStay
<1>2. Sees(v, a, {}, H) /\ FilesStay(a, {}, a) /\ {} \cap H = {}  BY <1>1
<1> QED  BY <1>2 DEF VolumeMade

\* sync leaves the volume it showed.
LEMMA SyncKeeps ==
  ASSUME NEW v, NEW a, NEW E, NEW H, Sees(v, a, E, H), NEW r, r = SyncFs(v)
  PROVE  Goes(r) /\ Sees(r.v, a, E, H)
<1>1. Shows(v, Tables(a), a.fat, a.rows) /\ Picture(a, E, H)  BY DEF Sees, Drawn
<1>2. Goes(r) /\ Shows(r.v, Tables(a), a.fat, a.rows)  BY <1>1, FsSync
<1> QED  BY <1>1, <1>2 DEF Sees, Drawn

\* A call that ends with sync.
LEMMA SyncedMade ==
  ASSUME NEW a, NEW H, NEW v, VolumeMade(a, H, v), NEW r, r = SyncFs(v)
  PROVE  VolumeMade(a, H, r.v)
<1>1. PICK b, P : Sees(v, b, {}, H) /\ FilesStay(a, P, b) /\ P \cap H = {}  BY DEF VolumeMade
<1> DEFINE E == {}
<1>2. Sees(v, b, E, H)  BY <1>1
<1> HIDE DEF E
<1>3. Sees(r.v, b, E, H)  BY <1>2, SyncKeeps
<1>4. Sees(r.v, b, {}, H)  BY <1>3 DEF E
<1> QED  BY <1>1, <1>4 DEF VolumeMade

\* f_stat.
LEMMA StatCall ==
  ASSUME NEW v, NEW a, NEW H, Sees(v, a, {}, H), NEW path, IsPath(path), NEW r, r = FStat(v, path)
  PROVE  VolumeMade(a, H, r.v)
<1> DEFINE q == FollowPath(v, path)
<1>0. q = FollowPath(v, path)  OBVIOUS
<1>1. r.v = q.v
  <2>1. r = ThenAt(q, LAMBDA w, d :
              IF d.root THEN Failed(w, "FR_INVALID_NAME")
              ELSE File(Ok(w), NoFile, FileInfo(Entry(w, d))))  BY DEF FStat
  <2> HIDE DEF q
  <2> QED  BY <2>1 DEF ThenAt, Failed, File, Ok
<1> HIDE DEF q
<1>2. Sees(q.v, a, {}, H)  BY <1>0, PathLeads
<1> DEFINE w == q.v
<1>3. Sees(w, a, {}, H)  BY <1>2
<1> HIDE DEF w
<1>4. VolumeMade(a, H, w)  BY <1>3, VolumeKept
<1> QED  BY <1>1, <1>4 DEF w

\* wflag is set.
Dirty(v) == [v EXCEPT !.dirty = TRUE]

\* The buffer is marked as changed.
LEMMA DirtyKeeps ==
  ASSUME NEW v, NEW a, NEW E, NEW H, Sees(v, a, E, H), v.sect \in Tables(a), NEW w, w = Dirty(v)
  PROVE  Sees(w, a, E, H) /\ w.sect = v.sect
<1>1. Drawn(v, a) /\ Picture(a, E, H)  BY DEF Sees
<1>2. HasFields(v)  BY <1>1, RowSeen
<1>3. Overwritten(v, v.win, w)  BY <1>2 DEF Dirty, Overwritten, HasFields
<1> QED  BY <1>1, <1>3, DirtyDrawn DEF Sees

\* f_utime.
LEMMA UtimeCall ==
  ASSUME NEW v, NEW a, NEW H, Sees(v, a, {}, H), NEW path, IsPath(path), NEW r, r = FUtime(v, path)
  PROVE  VolumeMade(a, H, r.v)
<1> DEFINE q == FollowPath(v, path)
           u == q.v
           w == Dirty(u)
           s == SyncFs(w)
           E == {}
<1>0. q = FollowPath(v, path) /\ w = Dirty(u) /\ s = SyncFs(w)  OBVIOUS
<1>1. \/ Goes(q) /\ ~q.dj.root /\ r = s
      \/ r.v = u
  <2>1. r = ThenAt(q, LAMBDA x, d :
              IF d.root THEN Failed(x, "FR_INVALID_NAME") ELSE SyncFs([x EXCEPT !.dirty = TRUE]))
    BY DEF FUtime
  <2>2. s = SyncFs([q.v EXCEPT !.dirty = TRUE])  BY DEF Dirty
  <2> HIDE DEF q, s
  <2> QED  BY <2>1, <2>2 DEF ThenAt, Failed, Goes
<1> HIDE DEF q
<1>2. /\ Sees(u, a, E, H) /\ q.dj.root = (path = <<>>)
      /\ Goes(q) /\ path # <<>> => ObjectSeen(u, a, PlaceAt(q.dj), Entry(u, q.dj))
  BY <1>0, PathLeads
<1> HIDE DEF u, w, s, E
<1>3. CASE Goes(q) /\ ~q.dj.root /\ r = s
  <2>1. u.sect \in Tables(a)  BY <1>2, <1>3 DEF ObjectSeen
  <2>2. Sees(w, a, E, H)  BY <1>0, <1>2, <2>1, DirtyKeeps
  <2>3. Sees(w, a, {}, H)  BY <2>2 DEF E
  <2> QED  BY <1>0, <1>3, <2>3, VolumeKept, SyncedMade
<1>4. CASE r.v = u
  <2>1. Sees(u, a, {}, H)  BY <1>2 DEF E
  <2> QED  BY <1>4, <2>1, VolumeKept
<1> QED  BY <1>1, <1>3, <1>4

----------------------------------------------------------------------------
(* f_getlabel and f_setlabel.                                              *)
LabelState(a, H, r) ==
  /\ Sees(r.v, a, {}, H)
  /\ Goes(r) => \E e : FoundAtEntry("label", a, e, r.dj, r.v) /\ IsTable(a.dirs, e)

\* The search for the label of the volume.
LEMMA LabelFound ==
  ASSUME NEW v, NEW a, NEW H, Sees(v, a, {}, H), NEW r, r = FindLabel(v)
  PROVE  LabelState(a, H, r)
<1> DEFINE E == {}
           dj == RootDir(FALSE)
           z == 0
           q == DirSdi(v, dj, z)
           w == q.v
           d == q.dj
           loop == "label"
           st == <<>>
           s == Scan(loop, w, d, st)
<1>0. q = DirSdi(v, dj, z) /\ s = Scan(loop, w, d, st) /\ loop \in Readers /\ loop = "label" /\ Sees(v, a, E, H)
      /\ z \in Nat
  BY DEF Readers
<1>1. DjFields(dj) /\ dj.sclust = 0  BY DEF DjFields, RootDir
<1>2. r = ThenAt(q, LAMBDA x, y : Scan("label", x, y, <<>>))  BY DEF FindLabel, ReadLabel
<1>3. s = Scan("label", q.v, q.dj, <<>>)  OBVIOUS
<1> HIDE DEF s, q
<1>4. r = IF Goes(q) THEN s ELSE q  BY <1>2, <1>3 DEF ThenAt, Goes
<1> HIDE DEF dj, z
<1>5. PICK e : IsTable(a.dirs, e) /\ OfTable(e, dj)
  <2>1. Picture(a, E, H)  BY <1>0 DEF Sees
  <2> HIDE DEF E
  <2> QED  BY <1>1, <2>1, RootTable
<1> HIDE DEF E
<1>6. SameDir(dj, d) /\ Sees(w, a, E, H) /\ (Goes(q) => At(e, z, d))
  BY <1>0, <1>1, <1>5, DirIsAt
<1> HIDE DEF w, d, loop, st
<1>7. CASE Goes(q)
  <2>1. DjFields(d) /\ At(e, z, d)  BY <1>6, <1>7 DEF SameDir, SameName
  <2>2. Seeker(loop, a, e, z, d, st)  BY <1>0 DEF Seeker
  <2>3. Sees(s.v, a, E, H) /\ (s.res = "FR_OK" => FoundAtEntry(loop, a, e, s.dj, s.v))
    BY <1>0, <1>5, <1>6, <2>1, <2>2, ScanIsDone
  <2>4. r = s  BY <1>4, <1>7
  <2>5. Sees(r.v, a, {}, H) /\ (Goes(r) => FoundAtEntry("label", a, e, r.dj, r.v))
    BY <1>0, <2>3, <2>4 DEF E, Goes
  <2> QED  BY <1>5, <2>5 DEF LabelState
<1>8. CASE ~Goes(q)
  <2>1. r = q  BY <1>4, <1>8
  <2>2. Sees(r.v, a, {}, H)  BY <1>6, <2>1 DEF E, w
  <2> QED  BY <1>8, <2>1, <2>2 DEF LabelState
<1> QED  BY <1>7, <1>8

\* f_getlabel.
LEMMA GetlabelCall ==
  ASSUME NEW v, NEW a, NEW H, Sees(v, a, {}, H), NEW r, r = FGetlabel(v)
  PROVE  VolumeMade(a, H, r.v)
<1> DEFINE q == FindLabel(v)
           w == q.v
<1>0. q = FindLabel(v)  OBVIOUS
<1>1. r.v = w
  <2>1. r = LabelRead(q)  BY DEF FGetlabel
  <2> HIDE DEF q
  <2> QED  BY <2>1 DEF LabelRead, File, Ok
<1> HIDE DEF q
<1>2. Sees(w, a, {}, H)  BY <1>0, LabelFound DEF LabelState
<1> HIDE DEF w
<1> QED  BY <1>1, <1>2, VolumeKept

\* What is made of what came later.
LEMMA StaysOn ==
  ASSUME NEW a, NEW P, NEW b, FilesStay(a, P, b), NEW R, NEW c, FilesStay(b, R, c), NEW Q, Q = P \cup R
  PROVE  FilesStay(a, Q, c)
<1> SUFFICES ASSUME NEW q \in Living(a) \ Q, ~Row(a.rows, q).isDir
             PROVE  q \in Living(c) /\ Row(c.rows, q) = Row(a.rows, q) /\ c.owns[q] = a.owns[q]
  BY DEF FilesStay
<1>1. q \notin P /\ q \notin R  OBVIOUS
<1>2. q \in Living(b) /\ Row(b.rows, q) = Row(a.rows, q) /\ b.owns[q] = a.owns[q]
  BY <1>1 DEF FilesStay
<1> QED  BY <1>1, <1>2 DEF FilesStay

\* A call after a change that left the open files alone.
LEMMA MadeOn ==
  ASSUME NEW a, NEW P, NEW b, FilesStay(a, P, b), NEW H, P \cap H = {}, NEW v, VolumeMade(b, H, v)
  PROVE  VolumeMade(a, H, v)
<1>1. PICK c, R : Sees(v, c, {}, H) /\ FilesStay(b, R, c) /\ R \cap H = {}  BY DEF VolumeMade
<1> DEFINE Q == P \cup R
<1>2. Q = P \cup R  OBVIOUS
<1>3. Q \cap H = {}  BY <1>1
<1> HIDE DEF Q
<1>4. FilesStay(a, Q, c)  BY <1>1, <1>2, StaysOn
<1> QED  BY <1>1, <1>3, <1>4 DEF VolumeMade

\* A call after a change that touched no object.
LEMMA MadeLater ==
  ASSUME NEW a, NEW b, Later(a, {}, b), NEW H, NEW v, VolumeMade(b, H, v)
  PROVE  VolumeMade(a, H, v)
<1> DEFINE S == {}
<1>1. Later(a, S, b) /\ S \cap H = {}  OBVIOUS
<1> HIDE DEF S
<1>2. FilesStay(a, S, b)  BY <1>1, LaterFiles
<1> QED  BY <1>1, <1>2, MadeOn

\* An entry of no object becomes another.
LEMMA BareStored ==
  ASSUME NEW v, NEW a, NEW H, Sees(v, a, {}, H), NEW p, NEW dj, OnPlace(v, a, p, dj), p \notin Living(a),
         NEW x, IsEntry(x), ~IsObject(x), NEW w, w = Store(v, dj, x)
  PROVE  VolumeMade(a, H, w)
<1> DEFINE E == {}
           o == <<>>
<1>1. Sees(v, a, E, H)  OBVIOUS
<1> HIDE DEF E, o
<1>2. CanStand(a, E, H, p, x, o)  BY DEF CanStand
<1>3. PICK b : StoredAt(a, E, H, p, x, o, w, b)  BY <1>1, <1>2, EntryStored
<1>4. Sees(w, b, {}, H) /\ OnlyAt(a, p, b)  BY <1>3 DEF StoredAt, E
<1>5. FilesStay(a, {}, b)
  <2> SUFFICES ASSUME NEW q \in Living(a)
               PROVE  q \in Living(b) /\ Row(b.rows, q) = Row(a.rows, q) /\ b.owns[q] = a.owns[q]
    BY DEF FilesStay
  <2>1. q \in Tables(a) \X (1..PerTable) /\ q # p  BY PlacesKnown
  <2> QED  BY <1>4, <2>1 DEF OnlyAt
<1> QED  BY <1>4, <1>5 DEF VolumeMade

\* A label, or a deleted entry, is no object.
LEMMA LabelEntry ==
  ASSUME NEW name, NEW x, x = Deleted \/ x = Label(name)
  PROVE  IsEntry(x) /\ ~IsObject(x)
<1>1. CASE x = Deleted  BY <1>1, DeletedStands
<1>2. CASE x = Label(name)
  <2>1. DOMAIN x = {"label"} /\ x.label = name  BY <1>2 DEF Label
  <2> QED  BY <1>2, <2>1 DEF IsEntry, IsLabel, IsObject
<1> QED  BY <1>1, <1>2

\* f_setlabel enters a label where there was none.
LEMMA NewLabelMade ==
  ASSUME NEW v, NEW a, NEW H, Sees(v, a, {}, H), NEW name, NEW r, r = NewLabel(v, name)
  PROVE  VolumeMade(a, H, r.v)
<1> DEFINE E == {}
           dj == RootDir(FALSE)
           n == 1
           q == DirAlloc(v, dj, n)
           w == q.v
           d == q.dj
           x == Label(name)
           u == Store(w, d, x)
           s == SyncFs(u)
<1>0. Sees(v, a, E, H) /\ q = DirAlloc(v, dj, n) /\ s = SyncFs(u) /\ u = Store(w, d, x) /\ x = Label(name)  OBVIOUS
<1>1. DjFields(dj) /\ dj.sclust = 0  BY DEF DjFields, RootDir
<1>2. r = ThenAt(q, LAMBDA y, c : SyncFs(Store(y, c, Label(name))))  BY DEF NewLabel
<1>3. s = SyncFs(Store(q.v, q.dj, Label(name)))  OBVIOUS
<1> HIDE DEF s, q
<1>4. r = IF Goes(q) THEN s ELSE q  BY <1>2, <1>3 DEF ThenAt, Goes
<1> HIDE DEF dj, n
<1>5. PICK e : IsTable(a.dirs, e) /\ OfTable(e, dj)
  <2>1. Picture(a, E, H)  BY <1>0 DEF Sees
  <2> HIDE DEF E
  <2> QED  BY <1>1, <2>1, RootTable
<1> HIDE DEF E
<1>6. InTable(a, e, dj)  BY <1>1, <1>5 DEF InTable
<1>7. PICK b, y : RoomMade(a, E, H, e, dj, n, q, b, y)  BY <1>0, <1>6, RoomFound
<1>8. Later(a, {}, b) /\ Sees(w, b, E, H) /\ IsTable(b.dirs, y) /\ (Goes(q) => RoomAt(n, w, d, b, y))
  BY <1>7 DEF RoomMade, Longer
<1>9. Sees(w, b, {}, H)  BY <1>8 DEF E
<1>10. VolumeMade(b, H, r.v)
  <2> HIDE DEF w, d, x, u
  <2>1. CASE Goes(q)
    <3>1. PICK k : At(y, k, d) /\ InWindow(w, b, y, k, d) /\ Blanks(b, y, k + 1, n)
      BY <1>8, <2>1 DEF RoomAt
    <3> DEFINE p == PlaceOf(y, k)
    <3>2. OnPlace(w, b, p, d) /\ Row(b.rows, p) = EntryAt(b, y, k)  BY <3>1, WindowOnPlace
    <3>3. Picture(b, E, H) /\ HasEntry(y, k)  BY <1>8, <3>1 DEF Sees, At
    <3>4. k \in Nat /\ Blank(EntryAt(b, y, k))
      <4>1. k \in Nat  BY <3>3 DEF HasEntry
      <4>2. \A j \in ((k + 1) - n)..((k + 1) - 1) : Blank(EntryAt(b, y, j))  BY <3>1 DEF Blanks
      <4>3. k \in ((k + 1) - n)..((k + 1) - 1)  BY <4>1 DEF n
      <4> QED  BY <4>1, <4>2, <4>3
    <3>5. IsEntry(EntryAt(b, y, k)) /\ (p \in Living(b) <=> IsObject(EntryAt(b, y, k)))
      BY <1>8, <3>3, PlaceKnown
    <3>6. p \notin Living(b)  BY <3>4, <3>5, ObjectEntry
    <3> HIDE DEF p
    <3>7. IsEntry(x) /\ ~IsObject(x)  BY <1>0, LabelEntry
    <3>8. VolumeMade(b, H, u)  BY <1>0, <1>9, <3>2, <3>6, <3>7, BareStored
    <3>9. VolumeMade(b, H, s.v)  BY <1>0, <3>8, SyncedMade
    <3> QED  BY <1>4, <2>1, <3>9
  <2>2. CASE ~Goes(q)
    <3>1. VolumeMade(b, H, w)  BY <1>9, VolumeKept
    <3> QED  BY <1>4, <2>2, <3>1 DEF w
  <2> QED  BY <2>1, <2>2
<1> DEFINE z == r.v
<1>11. VolumeMade(b, H, z)  BY <1>10
<1> HIDE DEF z
<1>12. VolumeMade(a, H, z)  BY <1>8, <1>11, MadeLater
<1> QED  BY <1>12 DEF z

\* f_setlabel.
LEMMA SetlabelCall ==
  ASSUME NEW v, NEW a, NEW H, Sees(v, a, {}, H), NEW name, NEW r, r = FSetlabel(v, name)
  PROVE  VolumeMade(a, H, r.v)
<1> DEFINE E == {}
           q == FindLabel(v)
           w == q.v
           d == q.dj
           x == IF name = NoName THEN Deleted ELSE Label(name)
           u == Store(w, d, x)
           s == SyncFs(u)
           t == NewLabel(w, name)
<1>0. q = FindLabel(v) /\ u = Store(w, d, x) /\ s = SyncFs(u) /\ t = NewLabel(w, name)  OBVIOUS
<1>1. \/ Goes(q) /\ r = s
      \/ r.v = w
      \/ r = t
  <2>1. r = ChangeLabel(q, name)  BY DEF FSetlabel
  <2>2. s = SyncFs(Store(q.v, q.dj, IF name = NoName THEN Deleted ELSE Label(name))) /\ t = NewLabel(q.v, name)
    OBVIOUS
  <2> HIDE DEF q, s, t
  <2>3. CASE q.res = "FR_OK"  BY <2>1, <2>2, <2>3 DEF ChangeLabel, Goes
  <2>4. CASE q.res = "FR_NO_FILE"  BY <2>1, <2>2, <2>4 DEF ChangeLabel, Ok
  <2>5. CASE q.res \notin {"FR_OK", "FR_NO_FILE"}
    <3>1. r = q  BY <2>1, <2>5 DEF ChangeLabel
    <3> QED  BY <3>1
  <2> QED  BY <2>3, <2>4, <2>5
<1>2. IsEntry(x) /\ ~IsObject(x)
  <2>1. x = Deleted \/ x = Label(name)  OBVIOUS
  <2> HIDE DEF x
  <2> QED  BY <2>1, LabelEntry
<1> HIDE DEF q
<1>3. LabelState(a, H, q)  BY <1>0, LabelFound
<1>4. Sees(w, a, {}, H) /\ (Goes(q) => \E e : FoundAtEntry("label", a, e, d, w) /\ IsTable(a.dirs, e))
  BY <1>3 DEF LabelState
<1> HIDE DEF w, d, x, u, s, t
<1>5. CASE Goes(q) /\ r = s
  <2>1. PICK e : FoundAtEntry("label", a, e, d, w) /\ IsTable(a.dirs, e)  BY <1>4, <1>5
  <2>2. PICK j : At(e, j, d) /\ InWindow(w, a, e, j, d) /\ FoundHere("label", a, e, j, d)
    BY <2>1 DEF FoundAtEntry
  <2> DEFINE p == PlaceOf(e, j)
  <2>3. OnPlace(w, a, p, d)  BY <2>2, WindowOnPlace
  <2>4. Picture(a, {}, H) /\ HasEntry(e, j) /\ IsLabel(EntryAt(a, e, j))
    BY <1>4, <2>2 DEF Sees, At, FoundHere
  <2>5. Picture(a, E, H)  BY <2>4
  <2> HIDE DEF E
  <2>6. IsEntry(EntryAt(a, e, j)) /\ (p \in Living(a) <=> IsObject(EntryAt(a, e, j)))
    BY <2>1, <2>4, <2>5, PlaceKnown
  <2>7. p \notin Living(a)  BY <2>4, <2>6, ObjectEntry
  <2> HIDE DEF p
  <2>8. VolumeMade(a, H, u)  BY <1>0, <1>2, <1>4, <2>3, <2>7, BareStored
  <2> QED  BY <1>0, <1>5, <2>8, SyncedMade
<1>6. CASE r.v = w  BY <1>4, <1>6, VolumeKept
<1>7. CASE r = t  BY <1>0, <1>4, <1>7, NewLabelMade
<1> QED  BY <1>1, <1>5, <1>6, <1>7

----------------------------------------------------------------------------
(* f_open.                                                                 *)
\* The chain of a file is not that of the root directory.
LEMMA FileNotRoot ==
  ASSUME NEW a, NEW E, NEW H, Picture(a, E, H), NEW z \in a.chains \ a.dirs
  PROVE  Fat32 => z[1] # 2
<1> SUFFICES ASSUME Fat32, z[1] = 2 PROVE FALSE  OBVIOUS
<1>1. PICK e \in a.dirs : e[1] = 2  BY DEF Picture
<1>2. Family(a.fat, a.chains) /\ e \in a.chains /\ e # z  BY <1>1 DEF Picture
<1>3. Path(a.fat, e) /\ Path(a.fat, z) /\ Cells(e) \cap Cells(z) = {}  BY <1>2 DEF Family
<1>4. e[1] \in Cells(e) /\ z[1] \in Cells(z)  BY <1>3, PathNotEmpty
<1> QED  BY <1>1, <1>3, <1>4

\* The chain of a file that nobody holds.
LEMMA ChainOfFile ==
  ASSUME NEW a, NEW H, Picture(a, {}, H), NEW p \in Living(a) \ H, NEW e, e = Row(a.rows, p), ~e.isDir, e.clust # 0
  PROVE  /\ a.owns[p] \in a.chains \ a.dirs /\ a.owns[p][1] = e.clust
         /\ \A q \in Living(a) : a.owns[q] = a.owns[p] => q = p
<1>1. Owner(a.chains, a.dirs, e, a.owns[p], p \in H)
      /\ \A q, s \in Living(a) \ {} : a.owns[q] = a.owns[s] /\ a.owns[q] # <<>> => q = s
  BY DEF Picture
<1>2. a.owns[p] \in (a.chains \ a.dirs) \cup {<<>>} /\ e.clust = HeadOf(a.owns[p])
  BY <1>1 DEF Owner
<1>3. a.owns[p] # <<>>  BY <1>2 DEF HeadOf
<1> QED  BY <1>1, <1>2, <1>3 DEF HeadOf

\* An entry in the window, of a file that is open or is to be.
FileSeen(v, a, H, p, dj) ==
  /\ Sees(v, a, {}, H) /\ p = <<v.sect, Slot(dj)>> /\ ObjectSeen(v, a, p, Entry(v, dj)) /\ ~Entry(v, dj).isDir
  /\ p \notin H
EmptiedAt(a, H, p, r) == Goes(r) /\ \E b : FilesStay(a, {p}, b) /\ FileSeen(r.v, b, H, p, r.dj)

\* The object just stored is in the buffer.
LEMMA StoredSeen ==
  ASSUME NEW a, NEW E, NEW H, NEW p, NEW x, NEW o, NEW w, NEW b, StoredAt(a, E, H, p, x, o, w, b),
         p \in Tables(a) \X (1..PerTable), IsObject(x), IsEntry(x)
  PROVE  ObjectSeen(w, b, p, x)
<1>1. Tables(b) = Tables(a) /\ Row(b.rows, p) = x /\ p \in Living(b) /\ w.sect = p[1] /\ w.win[p[2]] = x
      /\ DOMAIN w.win = 1..PerTable
  BY DEF StoredAt, OnlyAt
<1> QED  BY <1>1 DEF ObjectSeen

\* A change of one entry leaves the other files alone.
LEMMA OnlyFilesStay ==
  ASSUME NEW a, NEW p, NEW b, OnlyAt(a, p, b)
  PROVE  FilesStay(a, {p}, b)
<1> SUFFICES ASSUME NEW q \in Living(a), q # p
             PROVE  q \in Living(b) /\ Row(b.rows, q) = Row(a.rows, q) /\ b.owns[q] = a.owns[q]
  BY DEF FilesStay
<1>1. q \in Tables(a) \X (1..PerTable)  BY PlacesKnown
<1> QED  BY <1>1 DEF OnlyAt

\* The window returns to the entry after something has been done to the FAT.
Returns(v, s, dj, c) == With(MoveWindow(LastSet(v, c), s), dj)

\* f_open loads the sector of the entry again after it freed the chain.
LEMMA WindowReturns ==
  ASSUME NEW v, NEW a, NEW E, NEW H, Sees(v, a, E, H), NEW p \in Living(a), NEW s, s = p[1], NEW dj, NEW c,
         NEW r, r = Returns(v, s, dj, c)
  PROVE  Goes(r) /\ Sees(r.v, a, E, H) /\ r.dj = dj /\ ObjectSeen(r.v, a, p, Row(a.rows, p))
<1> DEFINE T == Tables(a)
           F == a.fat
           X == a.rows
           w == LastSet(v, c)
           m == MoveWindow(w, s)
<1>1. Shows(v, T, F, X) /\ Picture(a, E, H)  BY DEF Sees, Drawn
<1>2. p \in T \X (1..PerTable) /\ IsObject(Row(X, p))  BY PlacesKnown
<1>3. IsEntry(Row(X, p))  BY <1>1, <1>2, EntriesKnown
<1>4. r = With(m, dj) /\ m = MoveWindow(w, s) /\ w = LastSet(v, c)  BY DEF Returns
<1>5. s \in T /\ p[2] \in 1..PerTable  BY <1>2
<1>6. s \notin FirstCopy  BY <1>1, <1>5, SectorsApart DEF Shows
<1>7. HoldEntries(T, X)  BY <1>1 DEF Picture
<1> HIDE DEF T, F, X, w, m
<1>8. Shows(w, T, F, X)  BY <1>1, <1>4, CountSet
<1>9. s \in FirstCopy \cup T  BY <1>5
<1>10. Goes(m) /\ m = Ok(m.v) /\ Shows(m.v, T, F, X) /\ m.v.sect = s /\ m.v.win = Holding(F, X, s)
  BY <1>4, <1>8, <1>9, WindowAt
<1>11. m.v.win = X[s]  BY <1>6, <1>10 DEF Holding
<1>12. Goes(r) /\ r.v = m.v /\ r.dj = dj  BY <1>4, <1>10 DEF With, Goes
<1>13. Drawn(m.v, a)  BY <1>10 DEF Drawn, T, F, X
<1>14. DOMAIN X[s] = 1..PerTable  BY <1>5, <1>7 DEF HoldEntries
<1>15. X[s][p[2]] = Row(X, p)  BY DEF Row
<1>16. ObjectSeen(m.v, a, p, Row(X, p))
  BY <1>2, <1>3, <1>5, <1>10, <1>11, <1>14, <1>15 DEF ObjectSeen, X, T
<1> QED  BY <1>1, <1>12, <1>13, <1>16 DEF Sees, X

\* The chain of a file that has been emptied is removed.
LEMMA OldRemoved ==
  ASSUME NEW v, NEW a, NEW H, Sees(v, a, {}, H), NEW p \in Living(a), NEW z \in a.chains \ a.dirs,
         \A q \in Living(a) : a.owns[q] # z, NEW dj, p = PlaceAt(dj), NEW cl, cl = z[1],
         ~Row(a.rows, p).isDir, p \notin H, NEW r, r = RemoveOld(v, dj, cl)
  PROVE  Goes(r) /\ \E b : FilesStay(a, {}, b) /\ FileSeen(r.v, b, H, p, r.dj)
<1> DEFINE E == {}
           m == RemoveChain(v, cl)
           w == m.v
           n == cl - 1
           s == dj.sect
           t == Returns(w, s, dj, n)
<1>0. Sees(v, a, E, H) /\ m = RemoveChain(v, cl) /\ t = Returns(w, s, dj, n)  OBVIOUS
<1>1. r = ThenAt(With(m, dj), LAMBDA x, d : With(MoveWindow([x EXCEPT !.last = cl - 1], dj.sect), d))
  BY DEF RemoveOld
<1>2. t = With(MoveWindow([m.v EXCEPT !.last = cl - 1], dj.sect), dj)  BY DEF Returns, LastSet
<1> HIDE DEF t, m
<1>3. Goes(m) => r = t  BY <1>1, <1>2 DEF ThenAt, With, Goes
<1> HIDE DEF w, n
<1>4. Picture(a, E, H)  BY <1>0 DEF Sees
<1> HIDE DEF E
<1>5. Fat32 => z[1] # 2  BY <1>4, FileNotRoot
<1>6. z \in a.chains /\ m = RemoveChain(v, z[1]) /\ \A q \in Living(a) \ E : a.owns[q] # z
  BY <1>0
<1>7. Goes(m) /\ \E b : Sees(m.v, b, E, H) /\ Remain(a, PlacesOf(a, z), b) /\ b.dirs = a.dirs \ {z}
  BY <1>0, <1>5, <1>6, ChainTaken
<1>8. PICK b : Sees(m.v, b, E, H) /\ Remain(a, PlacesOf(a, z), b) /\ b.dirs = a.dirs \ {z}
  BY <1>7
<1>9. PlacesOf(a, z) = {}  BY DEF PlacesOf
<1>10. Living(b) = Living(a) /\ \A q \in Living(b) : Row(b.rows, q) = Row(a.rows, q) /\ b.owns[q] = a.owns[q]
  BY <1>8, <1>9 DEF Remain
<1>11. p \in Living(b) /\ s = p[1] /\ Row(b.rows, p) = Row(a.rows, p)  BY <1>10 DEF PlaceAt
<1> HIDE DEF s
<1>12. Sees(w, b, E, H)  BY <1>8 DEF w
<1>13. Goes(t) /\ Sees(t.v, b, E, H) /\ t.dj = dj /\ ObjectSeen(t.v, b, p, Row(b.rows, p))
  BY <1>0, <1>11, <1>12, WindowReturns
<1>14. p = <<t.v.sect, Slot(dj)>> /\ Entry(t.v, dj) = Row(b.rows, p)
  BY <1>11, <1>13 DEF ObjectSeen, PlaceAt, Entry
<1>15. FilesStay(a, {}, b)  BY <1>10 DEF FilesStay
<1>16. Sees(t.v, b, {}, H)  BY <1>13 DEF E
<1>17. FileSeen(t.v, b, H, p, t.dj)  BY <1>11, <1>13, <1>14, <1>16 DEF FileSeen
<1> QED  BY <1>3, <1>7, <1>13, <1>15, <1>17

\* f_open with FA_CREATE_ALWAYS empties the file it found.
LEMMA EmptiedMade ==
  ASSUME NEW v, NEW a, NEW H, NEW p, NEW dj, FileSeen(v, a, H, p, dj), p = PlaceAt(dj), NEW e, e = Entry(v, dj),
         NEW r, r = Emptied(v, dj, e)
  PROVE  EmptiedAt(a, H, p, r)
<1> DEFINE E == {}
           o == <<>>
           x == Sfn(e.sfn, FALSE, FALSE, 0, 0)
           w == Store(v, dj, x)
           cl == e.clust
           t == RemoveOld(w, dj, cl)
<1>0. Sees(v, a, E, H) /\ w = Store(v, dj, x) /\ t = RemoveOld(w, dj, cl) /\ Picture(a, {}, H)
  BY DEF FileSeen, Sees
<1>1. ObjectSeen(v, a, p, e) /\ ~e.isDir /\ p \notin H  BY DEF FileSeen
<1>2. p \in Living(a) /\ e = Row(a.rows, p) /\ IsObject(e)  BY <1>1 DEF ObjectSeen
<1>3. p \in Tables(a) \X (1..PerTable)  BY <1>2, PlacesKnown
<1>4. OnPlace(v, a, p, dj)  BY <1>1, <1>3 DEF ObjectSeen, OnPlace
<1>5. e.sfn \notin Dots  BY <1>2 DEF IsObject, Dots
<1>6. /\ IsEntry(x) /\ IsObject(x) /\ x.isDir = FALSE
      /\ \A C, D, h : Owner(C, D, x, <<>>, h)
  BY <1>5, NewEntry
<1>7. r = IF cl = 0 THEN Done(w, dj) ELSE t  BY DEF Emptied
<1> HIDE DEF x, w, t, cl
<1>8. CanStand(a, E, H, p, x, o)
  <2>1. Unowned(a, E, p, o)  BY DEF Unowned
  <2>2. Owner(a.chains, a.dirs, x, o, p \in H)  BY <1>6
  <2> QED  BY <1>6, <2>1, <2>2 DEF CanStand
<1> HIDE DEF E, o
<1>9. PICK b : StoredAt(a, E, H, p, x, o, w, b)  BY <1>0, <1>4, <1>8, EntryStored
<1>10. ObjectSeen(w, b, p, x)  BY <1>3, <1>6, <1>9, StoredSeen
<1>11. Sees(w, b, {}, H) /\ OnlyAt(a, p, b) /\ Row(b.rows, p) = x /\ b.owns[p] = <<>> /\ p \in Living(b)
  BY <1>6, <1>9 DEF StoredAt, E, o
<1>12. FilesStay(a, {p}, b)  BY <1>11, OnlyFilesStay
<1>13. CASE cl = 0
  <2>1. r = Done(w, dj)  BY <1>7, <1>13
  <2>2. Goes(r) /\ r.v = w /\ r.dj = dj  BY <2>1 DEF Done, With, Ok, Goes
  <2>3. p = <<w.sect, Slot(dj)>> /\ Entry(w, dj) = x  BY <1>10 DEF ObjectSeen, PlaceAt, Entry
  <2>4. FileSeen(w, b, H, p, dj)  BY <1>1, <1>6, <1>10, <1>11, <2>3 DEF FileSeen
  <2> QED  BY <1>12, <2>2, <2>4 DEF EmptiedAt
<1>14. CASE cl # 0
  <2> DEFINE z == a.owns[p]
  <2>1. z \in a.chains \ a.dirs /\ z[1] = cl /\ \A q \in Living(a) : a.owns[q] = z => q = p
    <3>1. p \in Living(a) \ H /\ e.clust # 0  BY <1>1, <1>2, <1>14 DEF cl
    <3> QED  BY <1>0, <1>1, <1>2, <3>1, ChainOfFile DEF cl
  <2>2. Path(a.fat, z)  BY <1>0, <2>1 DEF Picture, Family
  <2>3. z # <<>>  BY <2>2, PathNotEmpty
  <2> HIDE DEF z
  <2>4. z \in b.chains \ b.dirs  BY <1>11, <2>1 DEF OnlyAt
  <2>5. ASSUME NEW q \in Living(b) PROVE b.owns[q] # z
    <3>1. CASE q = p  BY <1>11, <2>3, <3>1
    <3>2. CASE q # p
      <4>1. q \in Tables(a) \X (1..PerTable)  BY <1>11, PlacesKnown DEF OnlyAt
      <4>2. q \in Living(a) /\ b.owns[q] = a.owns[q]  BY <1>11, <3>2, <4>1 DEF OnlyAt
      <4> QED  BY <2>1, <3>2, <4>2
    <3> QED  BY <3>1, <3>2
  <2>6. r = RemoveOld(w, dj, cl) /\ cl = z[1] /\ ~Row(b.rows, p).isDir
    BY <1>0, <1>6, <1>7, <1>11, <1>14, <2>1
  <2>7. \A q \in Living(b) : b.owns[q] # z  BY <2>5
  <2>8. Goes(r) /\ \E c : FilesStay(b, {}, c) /\ FileSeen(r.v, c, H, p, r.dj)
    BY <1>1, <1>11, <2>4, <2>6, <2>7, OldRemoved
  <2>9. PICK c : FilesStay(b, {}, c) /\ FileSeen(r.v, c, H, p, r.dj)  BY <2>8
  <2> DEFINE P == {p}
             R == {}
             Q == {p}
  <2>10. FilesStay(a, P, b) /\ FilesStay(b, R, c) /\ Q = P \cup R  BY <1>12, <2>9
  <2> HIDE DEF P, R, Q
  <2>11. FilesStay(a, Q, c)  BY <2>10, StaysOn
  <2> QED  BY <2>8, <2>9, <2>11 DEF EmptiedAt, Q
<1> QED  BY <1>13, <1>14

\* What is made of the file that a path leads to, or of a new one.
FoundMade(a, H, r) ==
  \E b, P : /\ Sees(r.v, b, {}, H) /\ FilesStay(a, P, b) /\ P \cap H = {}
            /\ Goes(r) => \E p : FileSeen(r.v, b, H, p, r.dj)

\* f_open found a file and left it as it was.
LEMMA FoundAsIs ==
  ASSUME NEW r, NEW a, NEW H, Sees(r.v, a, {}, H), Goes(r) => \E p : FileSeen(r.v, a, H, p, r.dj)
  PROVE  FoundMade(a, H, r)
<1>1. FilesStay(a, {}, a) /\ {} \cap H = {}  BY DEF FilesStay
<1> QED  BY <1>1 DEF FoundMade

ExistingWays(v, dj, e, r) ==
  \/ r = Emptied(v, dj, e) /\ ~e.isDir
  \/ r = Done(v, dj) /\ ~e.isDir
  \/ r.v = v /\ ~Goes(r)

\* The ways through f_open for an object that exists.
LEMMA ExistingIs ==
  ASSUME NEW v, NEW dj, NEW e, e.isDir \in BOOLEAN, NEW mode, NEW r, r = OpenExisting(v, dj, e, mode)
  PROVE  ExistingWays(v, dj, e, r)
<1>0. \A s : s # "FR_OK" => Fails(v, dj, s).v = v /\ ~Goes(Fails(v, dj, s))
  BY DEF Fails, With, Failed, Goes
<1>1. CASE Creates(mode) /\ (e.isDir \/ e.ro)
  <2>1. r = Fails(v, dj, "FR_DENIED")  BY <1>1 DEF OpenExisting
  <2> QED  BY <1>0, <2>1 DEF ExistingWays
<1>2. CASE Creates(mode) /\ ~(e.isDir \/ e.ro)
  <2>1. r = IF "FA_CREATE_NEW" \in mode THEN Fails(v, dj, "FR_EXIST")
            ELSE IF "FA_CREATE_ALWAYS" \in mode THEN Emptied(v, dj, e) ELSE Done(v, dj)
    BY <1>2 DEF OpenExisting
  <2> QED  BY <1>0, <1>2, <2>1 DEF ExistingWays
<1>3. CASE ~Creates(mode) /\ e.isDir
  <2>1. r = Fails(v, dj, "FR_NO_FILE")  BY <1>3 DEF OpenExisting
  <2> QED  BY <1>0, <2>1 DEF ExistingWays
<1>4. CASE ~Creates(mode) /\ ~e.isDir
  <2>1. r = IF "FA_WRITE" \in mode /\ e.ro THEN Fails(v, dj, "FR_DENIED") ELSE Done(v, dj)
    BY <1>4 DEF OpenExisting
  <2> QED  BY <1>0, <1>4, <2>1 DEF ExistingWays
<1> QED  BY <1>1, <1>2, <1>3, <1>4

\* f_open of an object that exists.
LEMMA ExistingMade ==
  ASSUME NEW v, NEW a, NEW H, Sees(v, a, {}, H), NEW p, NEW dj, p = PlaceAt(dj), NEW e, e = Entry(v, dj),
         ObjectSeen(v, a, p, e), p \notin H, NEW mode, NEW r, r = OpenExisting(v, dj, e, mode)
  PROVE  FoundMade(a, H, r)
<1>1. e.isDir \in BOOLEAN
  <2>1. IsEntry(e) /\ IsObject(e)  BY DEF ObjectSeen
  <2> QED  BY <2>1, ObjectEntry
<1>2. \/ r = Emptied(v, dj, e) /\ ~e.isDir
      \/ r = Done(v, dj) /\ ~e.isDir
      \/ r.v = v /\ ~Goes(r)
  <2>1. ExistingWays(v, dj, e, r)  BY <1>1, ExistingIs
  <2> QED  BY <2>1 DEF ExistingWays
<1>3. ~e.isDir => FileSeen(v, a, H, p, dj)
  <2>1. p = <<v.sect, Slot(dj)>>  BY DEF ObjectSeen, PlaceAt
  <2> QED  BY <2>1 DEF FileSeen
<1>4. CASE r = Emptied(v, dj, e) /\ ~e.isDir
  <2>1. EmptiedAt(a, H, p, r)  BY <1>3, <1>4, EmptiedMade
  <2>2. PICK b : FilesStay(a, {p}, b) /\ FileSeen(r.v, b, H, p, r.dj)  BY <2>1 DEF EmptiedAt
  <2>3. Sees(r.v, b, {}, H) /\ {p} \cap H = {}  BY <2>2 DEF FileSeen
  <2> QED  BY <2>2, <2>3 DEF FoundMade
<1>5. CASE r = Done(v, dj) /\ ~e.isDir
  <2>1. r.v = v /\ r.dj = dj  BY <1>5 DEF Done, With, Ok
  <2>2. FileSeen(r.v, a, H, p, r.dj) /\ Sees(r.v, a, {}, H)  BY <1>3, <1>5, <2>1
  <2> QED  BY <2>2, FoundAsIs
<1>6. CASE r.v = v /\ ~Goes(r)
  <2>1. Sees(r.v, a, {}, H)  BY <1>6
  <2> QED  BY <1>6, <2>1, FoundAsIs
<1> QED  BY <1>2, <1>4, <1>5, <1>6

\* f_open of a name that does not exist.
LEMMA NewMade ==
  ASSUME NEW v, NEW a, NEW H, Sees(v, a, {}, H), H \subseteq Living(a), NEW e, NEW dj, HasName(a, e, dj),
         NEW r, r = OpenNew(v, dj)
  PROVE  FoundMade(a, H, r)
<1> DEFINE g == DirRegister(v, dj)
           w == g.v
           d == g.dj
           x == Entry(w, d)
           t == Emptied(w, d, x)
<1>0. g = DirRegister(v, dj) /\ x = Entry(w, d) /\ t = Emptied(w, d, x)  OBVIOUS
<1>1. r = IF Goes(g) THEN t ELSE g
  <2>1. r = ThenAt(g, LAMBDA y, c : Emptied(y, c, Entry(y, c)))  BY DEF OpenNew
  <2>2. t = Emptied(g.v, g.dj, Entry(g.v, g.dj))  OBVIOUS
  <2> HIDE DEF g, t
  <2> QED  BY <2>1, <2>2 DEF ThenAt, Goes
<1> HIDE DEF g
<1>2. InTable(a, e, dj) /\ dj.fn \notin Dots  BY DEF HasName
<1>3. Registered(a, H, g)  BY <1>0, <1>2, DirRegisters
<1>4. CASE ~Goes(g)
  <2>1. PICK b : Later(a, {}, b) /\ Sees(g.v, b, {}, H)  BY <1>3, <1>4 DEF Registered
  <2> DEFINE S == {}
  <2>2. Later(a, S, b)  BY <2>1
  <2> HIDE DEF S
  <2>3. FilesStay(a, S, b)  BY <2>2, LaterFiles
  <2>4. r = g /\ FilesStay(a, {}, b) /\ {} \cap H = {}  BY <1>1, <1>4, <2>3 DEF S
  <2> QED  BY <1>4, <2>1, <2>4 DEF FoundMade
<1>5. CASE Goes(g)
  <2>1. PICK b, p : NewObject(a, H, g.v, g.dj, b, p)  BY <1>3, <1>5 DEF Registered
  <2>2. NewObject(a, H, w, d, b, p)  BY <2>1
  <2> HIDE DEF w, d, x, t
  <2>3. /\ Sees(w, b, {}, H) /\ Later(a, {p}, b) /\ p \notin Living(a) /\ p = PlaceAt(d)
        /\ ObjectSeen(w, b, p, Sfn(d.fn, FALSE, FALSE, 0, 0))
    BY <2>2 DEF NewObject
  <2>4. p = <<w.sect, Slot(d)>> /\ x = Sfn(d.fn, FALSE, FALSE, 0, 0)
    BY <1>0, <2>3 DEF ObjectSeen, PlaceAt, Entry
  <2>5. ~x.isDir /\ p \notin H  BY <2>3, <2>4 DEF Sfn
  <2>6. FileSeen(w, b, H, p, d)  BY <1>0, <2>3, <2>4, <2>5 DEF FileSeen
  <2>7. EmptiedAt(b, H, p, t)  BY <1>0, <2>3, <2>6, EmptiedMade
  <2>8. PICK c : FilesStay(b, {p}, c) /\ FileSeen(t.v, c, H, p, t.dj)  BY <2>7 DEF EmptiedAt
  <2> DEFINE P == {p}
             Q == P \cup P
  <2>9. FilesStay(b, P, c) /\ Later(a, P, b) /\ Q = P \cup P  BY <2>3, <2>8
  <2>10. Q \cap H = {}  BY <2>5
  <2> HIDE DEF P, Q
  <2>11. FilesStay(a, P, b)  BY <2>9, LaterFiles
  <2>12. FilesStay(a, Q, c)  BY <2>9, <2>11, StaysOn
  <2>13. Sees(t.v, c, {}, H) /\ r = t  BY <1>1, <1>5, <2>8 DEF FileSeen
  <2> QED  BY <2>8, <2>10, <2>12, <2>13 DEF FoundMade
<1> QED  BY <1>4, <1>5

\* What a path leads to is free: it is no file that is held.
PathFree(H, q) == Goes(q) /\ ~q.dj.root => PlaceAt(q.dj) \notin H

\* f_open as far as its search and what it creates.
LEMMA FoundIsMade ==
  ASSUME NEW v, NEW a, NEW H, Sees(v, a, {}, H), H \subseteq Living(a), NEW path, IsPath(path),
         NEW q, q = FollowPath(v, path), PathFree(H, q), NEW mode, NEW r, r = Found(q, mode)
  PROVE  FoundMade(a, H, r)
<1>1. /\ Sees(q.v, a, {}, H) /\ q.dj.root = (path = <<>>)
      /\ Goes(q) /\ path # <<>> => ObjectSeen(q.v, a, PlaceAt(q.dj), Entry(q.v, q.dj))
      /\ q.res = "FR_NO_FILE" => \E e : HasName(a, e, q.dj)
  BY PathLeads
<1> DEFINE w == q.v
           d == q.dj
           e == Entry(w, d)
           p == PlaceAt(d)
<1>2. CASE Goes(q) /\ q.dj.root
  <2>1. r = Fails(q.v, q.dj, "FR_INVALID_NAME")  BY <1>2 DEF Found, Goes
  <2>2. r.v = q.v /\ ~Goes(r)  BY <2>1 DEF Fails, With, Failed, Goes
  <2> QED  BY <1>1, <2>2, FoundAsIs
<1>3. CASE Goes(q) /\ ~q.dj.root
  <2>1. r = OpenExisting(w, d, e, mode)  BY <1>3 DEF Found, Goes
  <2>2. Sees(w, a, {}, H) /\ p = PlaceAt(d) /\ e = Entry(w, d) /\ ObjectSeen(w, a, p, e) /\ p \notin H
    BY <1>1, <1>3 DEF PathFree
  <2> HIDE DEF w, d, e, p
  <2> QED  BY <2>1, <2>2, ExistingMade
<1>4. CASE q.res = "FR_NO_FILE" /\ Creates(mode)
  <2>1. r = OpenNew(w, d)  BY <1>4 DEF Found
  <2>2. PICK y : HasName(a, y, d)  BY <1>1, <1>4
  <2>3. Sees(w, a, {}, H)  BY <1>1
  <2> HIDE DEF w, d
  <2> QED  BY <2>1, <2>2, <2>3, NewMade
<1>5. CASE ~Goes(q) /\ ~(q.res = "FR_NO_FILE" /\ Creates(mode))
  <2>1. r = q  BY <1>5 DEF Found, Goes
  <2> QED  BY <1>1, <1>5, <2>1, FoundAsIs
<1> QED  BY <1>2, <1>3, <1>4, <1>5

\* f_open: a file that fits its chain, or an error.
LEMMA OpenCall ==
  ASSUME NEW v, NEW a, NEW H, Sees(v, a, {}, H), H \subseteq Living(a), NEW path, IsPath(path),
         PathFree(H, FollowPath(v, path)), NEW mode \in SUBSET Modes, NEW r, r = FOpen(v, path, mode)
  PROVE  OpenMade(a, H, r)
<1> DEFINE q == FollowPath(v, path)
           f == Found(q, mode)
           flag == FlagOf(mode, q.res = "FR_NO_FILE")
<1>1. r = Opened(f, flag)  BY DEF FOpen, OpenFollowed
<1>2. "FA__ERROR" \notin flag /\ "FA__DIRTY" \notin flag  BY DEF FlagOf, Modes
<1>3. q = FollowPath(v, path) /\ f = Found(q, mode) /\ PathFree(H, q)  OBVIOUS
<1> HIDE DEF q, f, flag
<1>4. FoundMade(a, H, f)  BY <1>3, FoundIsMade
<1>5. PICK b, P : /\ Sees(f.v, b, {}, H) /\ FilesStay(a, P, b) /\ P \cap H = {}
                  /\ Goes(f) => \E p : FileSeen(f.v, b, H, p, f.dj)
  BY <1>4 DEF FoundMade
<1>6. CASE Goes(f)
  <2>1. PICK p : FileSeen(f.v, b, H, p, f.dj)  BY <1>5, <1>6
  <2>2. p = <<f.v.sect, Slot(f.dj)>> /\ ObjectSeen(f.v, b, p, Entry(f.v, f.dj)) /\ ~Entry(f.v, f.dj).isDir /\ p \notin H
    BY <2>1 DEF FileSeen
  <2>3. Goes(r) /\ r.v = f.v /\ ObjectFits(b, r.fp) /\ Place(r.fp) = p
    BY <1>1, <1>2, <1>5, <1>6, <2>2, OpenedFits
  <2>4. Sees(r.v, b, {}, H) /\ Place(r.fp) \notin H  BY <1>5, <2>2, <2>3
  <2> QED  BY <1>5, <2>3, <2>4 DEF OpenMade
<1>7. CASE ~Goes(f)
  <2>1. r = File(f, NoFile, 0)  BY <1>1, <1>7 DEF Opened, Goes
  <2>2. r.v = f.v /\ ~Goes(r)  BY <1>7, <2>1 DEF File, Goes
  <2> QED  BY <1>5, <2>2 DEF OpenMade
<1> QED  BY <1>6, <1>7

----------------------------------------------------------------------------
(* f_unlink.                                                               *)
\* What an entry that nobody holds says of its chain.
LEMMA ChainOfObject ==
  ASSUME NEW a, NEW H, Picture(a, {}, H), NEW p \in Living(a) \ H, NEW e, e = Row(a.rows, p), NEW x, x = a.owns[p]
  PROVE  /\ e.clust = HeadOf(x) /\ (x = <<>> \/ x \in a.chains) /\ (x \in a.dirs => e.isDir)
         /\ \A q \in Living(a) : a.owns[q] = x /\ x # <<>> => q = p
         /\ x # <<>> => (Fat32 => x[1] # 2) /\ x[1] = e.clust /\ e.clust # 0
<1>1. /\ Owner(a.chains, a.dirs, e, x, p \in H) /\ a.dirs \subseteq a.chains /\ Family(a.fat, a.chains)
      /\ \A q, s \in Living(a) \ {} : a.owns[q] = a.owns[s] /\ a.owns[q] # <<>> => q = s
  BY DEF Picture
<1>2. ASSUME x \in a.chains PROVE x # <<>> /\ HeadOf(x) = x[1] /\ x[1] # 0
  <2>1. Path(a.fat, x)  BY <1>1, <1>2 DEF Family
  <2> QED  BY <2>1, PathNotEmpty, Numbers DEF Clusters
<1>3. CASE e.isDir
  <2>1. x \in a.dirs /\ e.clust = HeadOf(x) /\ (Fat32 => HeadOf(x) # 2)  BY <1>1, <1>3 DEF Owner
  <2> QED  BY <1>1, <1>2, <1>3, <2>1
<1>4. CASE ~e.isDir
  <2>1. x \in (a.chains \ a.dirs) \cup {<<>>} /\ e.clust = HeadOf(x)  BY <1>1, <1>4 DEF Owner
  <2>2. CASE x = <<>>
    <3>1. <<>> \notin a.chains  BY <1>2, <2>2
    <3> QED  BY <1>1, <2>1, <2>2, <3>1
  <2>3. CASE x \in a.chains \ a.dirs
    <3>1. Fat32 => x[1] # 2
      <4> DEFINE E == {}
      <4>1. Picture(a, E, H)  OBVIOUS
      <4> HIDE DEF E
      <4> QED  BY <2>3, <4>1, FileNotRoot
    <3> QED  BY <1>1, <1>2, <2>1, <2>3, <3>1
  <2> QED  BY <2>1, <2>2, <2>3
<1> QED  BY <1>3, <1>4

\* f_unlink deletes the entry and frees the chain behind it.
LEMMA ObjectUnlinked ==
  ASSUME NEW v, NEW a, NEW H, Sees(v, a, {}, H), NEW y, NEW k, NEW dj, Stands(a, y, k, dj), NEW p, p = PlaceOf(y, k),
         p \in Living(a) \ H, PlacesOf(a, a.owns[p]) \cap H = {}, NEW c, c = Row(a.rows, p).clust,
         NEW r, r = Unlinked(v, dj, c)
  PROVE  VolumeMade(a, H, r.v)
<1> DEFINE E == {}
           x == a.owns[p]
           g == DirRemove(v, dj)
           w == g.v
           n == RemoveChain(w, c)
           m == IF c = 0 THEN Ok(w) ELSE n
           u == m.v
           s == SyncFs(u)
           P == {p} \cup PlacesOf(a, x)
<1>0. Sees(v, a, E, H) /\ Picture(a, {}, H) /\ g = DirRemove(v, dj) /\ n = RemoveChain(w, c) /\ s = SyncFs(u)
  BY DEF Sees
<1>1. r = IF Goes(g) THEN (IF Goes(m) THEN s ELSE m) ELSE g
  <2>1. r = Then(g, LAMBDA z : Then(IF c = 0 THEN Ok(z) ELSE RemoveChain(z, c), LAMBDA q : SyncFs(q)))
    BY DEF Unlinked
  <2>2. m = (IF c = 0 THEN Ok(g.v) ELSE RemoveChain(g.v, c)) /\ s = SyncFs(m.v)  OBVIOUS
  <2> HIDE DEF g, m, s
  <2> QED  BY <2>1, <2>2 DEF Then, Goes
<1>2. /\ c = HeadOf(x) /\ (x = <<>> \/ x \in a.chains) /\ \A q \in Living(a) : a.owns[q] = x /\ x # <<>> => q = p
      /\ x # <<>> => (Fat32 => x[1] # 2) /\ x[1] = c /\ c # 0
  <2> DEFINE e == Row(a.rows, p)
  <2>1. e = Row(a.rows, p) /\ x = a.owns[p] /\ c = e.clust  OBVIOUS
  <2> HIDE DEF e, x
  <2> QED  BY <1>0, <2>1, ChainOfObject
<1> HIDE DEF E, g, x
<1>3. Goes(g) /\ \E b : Sees(g.v, b, E, H) /\ Emptier(a, {p}, b)  BY <1>0, DirRemoved
<1>4. PICK b : Sees(w, b, E, H) /\ Emptier(a, {p}, b)  BY <1>3
<1>5. /\ Tables(b) = Tables(a) /\ b.chains = a.chains /\ b.dirs = a.dirs /\ Living(b) = Living(a) \ {p}
      /\ \A q \in Living(b) : Row(b.rows, q) = Row(a.rows, q) /\ b.owns[q] = a.owns[q]
  BY <1>4 DEF Emptier
<1>6. P \cap H = {}  BY DEF x
<1>7. CASE x = <<>>
  <2>1. c = 0  BY <1>2, <1>7 DEF HeadOf
  <2>2. m = Ok(w) /\ Goes(m) /\ u = w  BY <2>1 DEF Ok, Goes
  <2>3. FilesStay(a, P, b)  BY <1>5 DEF FilesStay
  <2>4. Sees(u, b, {}, H)  BY <1>4, <2>2 DEF E
  <2> HIDE DEF m, u, s, P
  <2>5. VolumeMade(a, H, u)  BY <1>6, <2>3, <2>4 DEF VolumeMade
  <2>6. VolumeMade(a, H, s.v)  BY <1>0, <2>5, SyncedMade
  <2> QED  BY <1>1, <1>3, <2>2, <2>6
<1>8. CASE x # <<>>
  <2>1. m = n /\ x \in b.chains /\ x[1] = c /\ (Fat32 => x[1] # 2)  BY <1>2, <1>5, <1>8
  <2>2. \A q \in Living(b) \ E : b.owns[q] # x  BY <1>2, <1>5, <1>8
  <2> HIDE DEF w, n, m, u, s, P
  <2>3. n = RemoveChain(w, x[1])  BY <1>0, <2>1
  <2>4. Goes(n) /\ \E f : Sees(n.v, f, E, H) /\ Remain(b, PlacesOf(b, x), f) /\ f.dirs = b.dirs \ {x}
    BY <1>4, <2>1, <2>2, <2>3, ChainTaken
  <2>5. PICK f : Sees(n.v, f, E, H) /\ Remain(b, PlacesOf(b, x), f)  BY <2>4
  <2>6. PlacesOf(b, x) = PlacesOf(a, x)  BY <1>5 DEF PlacesOf
  <2>7. FilesStay(a, P, f)
    <3> SUFFICES ASSUME NEW q \in Living(a) \ P
                 PROVE  q \in Living(f) /\ Row(f.rows, q) = Row(a.rows, q) /\ f.owns[q] = a.owns[q]
      BY DEF FilesStay
    <3>1. q # p /\ q \notin PlacesOf(b, x)  BY <2>6 DEF P
    <3>2. q \in Living(b) /\ q \in Living(f)  BY <1>5, <2>5, <3>1 DEF Remain
    <3> QED  BY <1>5, <2>5, <3>2 DEF Remain
  <2>8. Sees(u, f, {}, H)  BY <2>1, <2>5 DEF E, u
  <2>9. VolumeMade(a, H, u)  BY <1>6, <2>7, <2>8 DEF VolumeMade
  <2>10. VolumeMade(a, H, s.v)  BY <1>0, <2>9, SyncedMade
  <2> QED  BY <1>1, <1>3, <2>1, <2>4, <2>10
<1> QED  BY <1>7, <1>8

\* A directory is looked at before it is removed.
LEMMA RemovableKeeps ==
  ASSUME NEW v, NEW a, NEW H, Sees(v, a, {}, H), NEW p \in Living(a), NEW e, e = Row(a.rows, p),
         NEW r, r = Removable(v, e)
  PROVE  Sees(r.v, a, {}, H)
<1> DEFINE E == {}
           dj == StartsAt(RootDir(FALSE), e.clust)
           z == 2
           q == DirSdi(v, dj, z)
           w == q.v
           d == q.dj
           loop == "read"
           st == FromHere
           s == Scan(loop, w, d, st)
           m == EmptyDir(v, e.clust)
<1>0. Sees(v, a, E, H) /\ Picture(a, {}, H) /\ q = DirSdi(v, dj, z) /\ s = Scan(loop, w, d, st)
      /\ loop \in Readers /\ loop = "read" /\ z \in Nat
  BY DEF Sees, Readers
<1>1. r.v = v \/ (e.isDir /\ r = m)
  <2> HIDE DEF m
  <2>1. CASE e.ro  BY <2>1 DEF Removable, Failed
  <2>2. CASE ~e.ro /\ e.isDir
    <3>1. r = IF e.clust < 2 THEN Failed(v, "FR_INT_ERR") ELSE m  BY <2>2 DEF Removable, m
    <3> QED  BY <2>2, <3>1 DEF Failed
  <2>3. CASE ~e.ro /\ ~e.isDir
    <3>1. r = Ok(v)  BY <2>3 DEF Removable
    <3> QED  BY <3>1 DEF Ok
  <2> QED  BY <2>1, <2>2, <2>3
<1>2. m.v = (IF Goes(q) THEN s ELSE q).v
  <2>1. m = SubDirFree(ThenAt(q, LAMBDA x, c : DirRead(x, c)))  BY DEF EmptyDir, StartsAt
  <2>2. s = DirRead(q.v, q.dj)  BY DEF DirRead
  <2> HIDE DEF q, s, m
  <2>3. ThenAt(q, LAMBDA x, c : DirRead(x, c)) = IF Goes(q) THEN s ELSE q
    BY <2>2 DEF ThenAt, Goes
  <2> DEFINE t == IF Goes(q) THEN s ELSE q
  <2>4. m = SubDirFree(t)  BY <2>1, <2>3
  <2> HIDE DEF t
  <2>5. m.v = t.v  BY <2>4 DEF SubDirFree, Failed, Ok
  <2> QED  BY <2>5 DEF t
<1>3. CASE r.v = v  BY <1>3
<1>4. CASE e.isDir /\ r = m
  <2>1. DjFields(dj) /\ dj.sclust = e.clust
    <3> DEFINE root == RootDir(FALSE)
               c == e.clust
    <3>1. DjFields(root) /\ dj = StartsAt(root, c)  BY DEF DjFields, RootDir
    <3> HIDE DEF root, dj, c
    <3>2. DjFields(dj) /\ dj.sclust = c  BY <3>1, NameSet
    <3> QED  BY <3>2 DEF c
  <2>2. p \in Tables(a) \X (1..PerTable) /\ IsObject(e)  BY PlacesKnown
  <2> DEFINE y == a.owns[p]
  <2> HIDE DEF dj
  <2>3. InTable(a, y, dj)  BY <1>0, <1>4, <2>1, <2>2, TableOfEntry
  <2>4. IsTable(a.dirs, y) /\ OfTable(y, dj)  BY <2>3 DEF InTable
  <2> HIDE DEF E, z, q, y
  <2>5. SameDir(dj, d) /\ Sees(w, a, E, H) /\ (Goes(q) => At(y, z, d))
    BY <1>0, <2>1, <2>4, DirIsAt
  <2> HIDE DEF w, d, loop, st, s
  <2>6. CASE Goes(q)
    <3>1. DjFields(d) /\ At(y, z, d)  BY <2>5, <2>6 DEF SameDir, SameName
    <3>2. Seeker(loop, a, y, z, d, st)  BY <1>0 DEF Seeker
    <3>3. Sees(s.v, a, E, H)  BY <1>0, <2>4, <2>5, <3>1, <3>2, ScanIsDone
    <3> QED  BY <1>2, <1>4, <2>6, <3>3 DEF E
  <2>7. CASE ~Goes(q)  BY <1>2, <1>4, <2>5, <2>7 DEF E, w
  <2> QED  BY <2>6, <2>7
<1> QED  BY <1>1, <1>3, <1>4

\* A path is free for f_unlink: neither the file it leads to is held nor one in the directory.
ShownPlaces(d, c) == {DataSector(b) : b \in ClustersFrom(d, c)} \X (1..PerTable)
AllFree(H, q) ==
  Goes(q) /\ ~q.dj.root =>
    PlaceAt(q.dj) \notin H
    /\ (Entry(q.v, q.dj).isDir => ShownPlaces(ShownDisk(q.v), Entry(q.v, q.dj).clust) \cap H = {})

\* The entries of a table are those the disk shows for it.
LEMMA PlacesShown ==
  ASSUME NEW v, NEW a, NEW H, Sees(v, a, {}, H), NEW x \in a.dirs, NEW d, d = ShownDisk(v), NEW c, c = HeadOf(x)
  PROVE  PlacesOf(a, x) \subseteq ShownPlaces(d, c)
<1>1. Shows(v, Tables(a), a.fat, a.rows) /\ Picture(a, {}, H)  BY DEF Sees, Drawn
<1>2. FatOn(d, a.fat)  BY <1>1, ShownSeen
<1>3. Chained(a.fat, x)
  <2>1. Path(a.fat, x)  BY <1>1 DEF Picture, Family
  <2> QED  BY <2>1, PathNotEmpty
<1>4. Chain(d, c) = x  BY <1>2, <1>3, ChainIs
<1>5. ClustersFrom(d, c) = Cells(x)  BY <1>4 DEF ClustersFrom, Cells
<1> QED  BY <1>5 DEF PlacesOf, ShownPlaces

\* f_unlink.
LEMMA UnlinkCall ==
  ASSUME NEW v, NEW a, NEW H, Sees(v, a, {}, H), NEW path, IsPath(path), path # <<>>,
         AllFree(H, FollowPath(v, path)), NEW r, r = FUnlink(v, path)
  PROVE  VolumeMade(a, H, r.v)
<1> DEFINE q == FollowPath(v, path)
           w == q.v
           d == q.dj
           e == Entry(w, d)
           c == e.clust
           m == Removable(w, e)
           n == Unlinked(m.v, d, c)
           p == PlaceAt(d)
<1>0. q = FollowPath(v, path) /\ m = Removable(w, e) /\ n = Unlinked(m.v, d, c) /\ AllFree(H, q) /\ p = PlaceAt(d)
  OBVIOUS
<1>1. r = IF Goes(q) THEN (IF Goes(m) THEN n ELSE m) ELSE q
  <2>1. r = ThenAt(q, LAMBDA x, y : UnlinkAt(x, y, Entry(x, y)))  BY DEF FUnlink
  <2>2. UnlinkAt(w, d, e) = Then(m, LAMBDA x : Unlinked(x, d, c))  BY DEF UnlinkAt
  <2> HIDE DEF m, c
  <2>3. UnlinkAt(w, d, e) = IF Goes(m) THEN n ELSE m  BY <2>2 DEF Then, Goes
  <2>4. Goes(q) => r = UnlinkAt(w, d, e)  BY <2>1 DEF ThenAt, Goes
  <2>5. ~Goes(q) => r = q
    <3> HIDE DEF q
    <3> QED  BY <2>1 DEF ThenAt, Goes
  <2> HIDE DEF q, n, w, d, e
  <2> QED  BY <2>3, <2>4, <2>5
<1> HIDE DEF q
<1>2. /\ Sees(w, a, {}, H) /\ q.dj.root = FALSE
      /\ Goes(q) => (\E f : HasObject(a, f, d, w)) /\ ObjectSeen(w, a, p, e)
  <2>1. /\ Sees(q.v, a, {}, H) /\ q.dj.root = (path = <<>>)
        /\ Goes(q) /\ path # <<>> =>
             (\E f : HasObject(a, f, q.dj, q.v)) /\ ObjectSeen(q.v, a, PlaceAt(q.dj), Entry(q.v, q.dj))
    BY <1>0, PathLeads
  <2> QED  BY <2>1
<1>3. Goes(q) => p \notin H /\ (e.isDir => ShownPlaces(ShownDisk(w), c) \cap H = {})
  BY <1>0, <1>2 DEF AllFree
<1> HIDE DEF w, d, e, m, n, p
<1>4. CASE ~Goes(q)
  <2>1. r.v = w  BY <1>1, <1>4 DEF w
  <2> QED  BY <1>2, <2>1, VolumeKept
<1>5. CASE Goes(q)
  <2>1. p \in Living(a) \ H /\ e = Row(a.rows, p)  BY <1>2, <1>3, <1>5 DEF ObjectSeen
  <2> DEFINE u == m.v
             x == a.owns[p]
  <2>2. Sees(u, a, {}, H)  BY <1>0, <1>2, <2>1, RemovableKeeps
  <2> HIDE DEF u
  <2>3. CASE ~Goes(m)
    <3>1. r.v = u  BY <1>1, <1>5, <2>3 DEF u
    <3> QED  BY <2>2, <3>1, VolumeKept
  <2>4. CASE Goes(m)
    <3>1. r = n  BY <1>1, <1>5, <2>4
    <3>2. PICK f : HasObject(a, f, d, w)  BY <1>2, <1>5
    <3>3. PICK k : Stands(a, f, k, d) /\ p = PlaceOf(f, k)
      <4> DEFINE E == {}
      <4>1. Sees(w, a, E, H)  BY <1>2
      <4> HIDE DEF E
      <4> QED  BY <1>0, <3>2, <4>1, FoundStands
    <3>4. x \in a.dirs => e.isDir /\ c = HeadOf(x)
      <4>1. Picture(a, {}, H) /\ x = a.owns[p]  BY <2>2 DEF Sees
      <4> HIDE DEF x
      <4> QED  BY <2>1, <4>1, ChainOfObject
    <3>5. PlacesOf(a, x) \cap H = {}
      <4>1. CASE x \in a.dirs
        <5> DEFINE z == ShownDisk(w)
        <5>1. Sees(w, a, {}, H) /\ z = ShownDisk(w) /\ c = HeadOf(x)  BY <1>2, <3>4, <4>1
        <5>2. ShownPlaces(z, c) \cap H = {}  BY <1>3, <1>5, <3>4, <4>1
        <5> HIDE DEF z, c, x
        <5>3. PlacesOf(a, x) \subseteq ShownPlaces(z, c)  BY <4>1, <5>1, PlacesShown
        <5> QED  BY <5>2, <5>3
      <4>2. CASE x \notin a.dirs  BY <4>2 DEF PlacesOf
      <4> QED  BY <4>1, <4>2
    <3>6. c = Row(a.rows, p).clust /\ n = Unlinked(u, d, c) /\ PlacesOf(a, a.owns[p]) \cap H = {}
      BY <1>0, <2>1, <3>5 DEF u
    <3> HIDE DEF c, x
    <3>7. VolumeMade(a, H, n.v)  BY <2>1, <2>2, <3>3, <3>6, ObjectUnlinked
    <3> QED  BY <3>1, <3>7
  <2> QED  BY <2>3, <2>4
<1> QED  BY <1>4, <1>5

----------------------------------------------------------------------------
(* f_mkdir clears the window behind the new table, but leaves the sector.  *)
(* The next access is to another one, so nobody sees it.                   *)

\* Two loops that go on alike end alike.
LEMMA LoopsMeet ==
  ASSUME NEW N \in Nat, N > 0, NEW f, NEW g, f[1] = g[1], \A n \in 1..(N - 1) : f[n] = g[n] => f[n + 1] = g[n + 1]
  PROVE  f[N] = g[N]
<1> DEFINE S == {n \in 0..N : n = 0 \/ f[n] = g[n]}
<1>1. 0 \in S  OBVIOUS
<1>2. \A n \in 0..(N - 1) : n \in S => n + 1 \in S
  <2> SUFFICES ASSUME NEW n \in 0..(N - 1), n \in S PROVE f[n + 1] = g[n + 1]  OBVIOUS
  <2>1. CASE n = 0  BY <2>1
  <2>2. CASE n # 0  BY <2>2
  <2> QED  BY <2>1, <2>2
<1> HIDE DEF S
<1>3. N \in S  BY <1>1, <1>2, LoopKeeps
<1> QED  BY <1>3 DEF S

\* w is u with another window.
Blanked(u) == [u EXCEPT !.win = EmptyTable]
Hidden(u, w) == HasFields(u) /\ u.dirty = FALSE /\ IsTrace(u.fault) /\ w = Blanked(u)

\* move_window to another sector is not changed by what the buffer holds.
LEMMA WindowAgain ==
  ASSUME NEW u, NEW w, Hidden(u, w), NEW s, s # u.sect
  PROVE  MoveWindow(w, s) = MoveWindow(u, s)
<1>1. HasFields(u) /\ u.dirty = FALSE /\ IsTrace(u.fault) /\ w = [u EXCEPT !.win = EmptyTable]
  BY DEF Hidden, Blanked
<1>2. w.dirty = FALSE /\ w.sect = u.sect /\ w.disk = u.disk /\ w.fault = u.fault
  BY <1>1 DEF HasFields
<1>3. u.fault # Fault("read", 0)
  <2>1. u.fault.kind = "trace"  BY <1>1 DEF IsTrace
  <2> QED  BY <2>1 DEF Fault
<1>4. \A x : [w EXCEPT !.win = x] = [u EXCEPT !.win = x]  BY <1>1 DEF HasFields
<1>5. DiskRead(w, s) = DiskRead(u, s)
  <2>1. DiskRead(w, s) = Ok(Closer([w EXCEPT !.win = w.disk[s]], {"read"}))
    BY <1>2, <1>3 DEF DiskRead
  <2>2. DiskRead(u, s) = Ok(Closer([u EXCEPT !.win = u.disk[s]], {"read"}))
    BY <1>3 DEF DiskRead
  <2> QED  BY <1>2, <1>4, <2>1, <2>2
<1>6. SyncWindow(u) = Ok(u) /\ SyncWindow(w) = Ok(w)  BY <1>1, <1>2 DEF SyncWindow
<1> DEFINE d == DiskRead(u, s)
           x == IF d.res = "FR_OK" THEN Ok([d.v EXCEPT !.sect = s]) ELSE d
<1>7. \A v : SyncWindow(v) = Ok(v) /\ DiskRead(v, s) = d /\ v.sect # s => MoveWindow(v, s) = x
  <2> TAKE v
  <2> HIDE DEF d
  <2> QED  BY DEF MoveWindow, ReadAfter, ReadIn, Ok
<1> HIDE DEF d, x
<1>8. d = DiskRead(u, s)  BY DEF d
<1> QED  BY <1>2, <1>5, <1>6, <1>7, <1>8

\* Nor is a walk that starts in another sector.
LEMMA ScanAgain ==
  ASSUME NEW u, NEW w, Hidden(u, w), MaxRounds \in Nat, MaxRounds > 0, NEW d, d.sect # u.sect, NEW loop, NEW st
  PROVE  Scan(loop, w, d, st) = Scan(loop, u, d, st)
<1> DEFINE k == Said(u, d, "more", st)
           l == Said(w, d, "more", st)
           N == MaxRounds
           s == d.sect
<1>1. /\ Scan(loop, w, d, st) = With(ScanEnd(l, loop, N), ScanEnd(l, loop, N).dj)
      /\ Scan(loop, u, d, st) = With(ScanEnd(k, loop, N), ScanEnd(k, loop, N).dj)
  BY DEF Scan, ScanEnd
<1>2. s # u.sect  OBVIOUS
<1> HIDE DEF s
<1>3. MoveWindow(w, s) = MoveWindow(u, s)  BY <1>2, WindowAgain
<1>4. Load(w, d) = Load(u, d)  BY <1>3 DEF Load, s
<1>5. ScanRound(l, loop) = ScanRound(k, loop)
  <2>1. l.v = w /\ l.dj = d /\ l.res = "more" /\ l.st = st /\ k.v = u /\ k.dj = d /\ k.res = "more" /\ k.st = st
    BY DEF Said
  <2> HIDE DEF k, l
  <2> QED  BY <1>4, <2>1 DEF ScanRound
<1> HIDE DEF k, l, N
<1>6. N \in Nat /\ N > 0  BY DEF N
<1>7. PICK f : f[0] = l /\ (\A n \in 1..N : f[n] = ScanRound(f[n - 1], loop)) /\ ScanEnd(l, loop, N) = f[N]
  BY <1>6, ScanLoop
<1>8. PICK g : g[0] = k /\ (\A n \in 1..N : g[n] = ScanRound(g[n - 1], loop)) /\ ScanEnd(k, loop, N) = g[N]
  BY <1>6, ScanLoop
<1>9. f[1] = g[1]
  <2>1. 1 \in 1..N /\ 1 - 1 = 0  BY <1>6
  <2> QED  BY <1>5, <1>7, <1>8, <2>1
<1>10. \A n \in 1..(N - 1) : f[n] = g[n] => f[n + 1] = g[n + 1]
  <2> TAKE n \in 1..(N - 1)
  <2>1. n + 1 \in 1..N /\ (n + 1) - 1 = n  BY <1>6
  <2> QED  BY <1>7, <1>8, <2>1
<1>11. f[N] = g[N]  BY <1>6, <1>9, <1>10, LoopsMeet
<1> QED  BY <1>1, <1>7, <1>8, <1>11 DEF N

\* dir_sdi of the first entry does not look at the volume.
LEMMA StartAgain ==
  ASSUME NEW u, NEW w, NEW dj, NEW z, z = 0, NEW q, q = DirSdi(u, dj, z)
  PROVE  DirSdi(w, dj, z) = [v |-> w, dj |-> q.dj, res |-> q.res]
<1> DEFINE d == [dj EXCEPT !.index = z]
<1>1. \A v : DirSdi(v, dj, z) = SeekAt(v, d, z)  BY DEF DirSdi
<1>2. \A s : SeekEnd(s, 0) = s
  <2> TAKE s
  <2> DEFINE n == 0
  <2>1. n \in Nat /\ n = 0  OBVIOUS
  <2> HIDE DEF n
  <2>2. \E f : f[0] = s /\ SeekEnd(s, n) = f[n]  BY <2>1, SeekLoop
  <2> QED  BY <2>1, <2>2
<1>3. z \div PerTable = 0
  <2>1. z \in Nat  OBVIOUS
  <2> QED  BY <2>1, PlacesNext
<1> HIDE DEF d
<1>4. \A v, c : SeekFrom(v, d, c, z) = Done(v, [d EXCEPT !.clust = c, !.sect = DataSector(c)])
  <2> TAKE v, c
  <2>1. SeekFrom(v, d, c, z) = Reached(SeekEnd(Seeking(v, c, "FR_OK"), 0), d)
    BY <1>3 DEF SeekFrom, SeekEnd
  <2>2. SeekFrom(v, d, c, z) = Reached(Seeking(v, c, "FR_OK"), d)  BY <1>2, <2>1
  <2> QED  BY <2>2 DEF Reached, Seeking
<1> DEFINE c == IF d.sclust = 0 THEN 2 ELSE d.sclust
           fails == d.sclust = 1 \/ d.sclust >= NFatEnt
           root == d.sclust = 0 /\ ~Fat32
           none == z >= RootTables * PerTable
           x == IF fails THEN d ELSE
                IF root THEN IF none THEN d ELSE [d EXCEPT !.clust = 0, !.sect = RootSector(z \div PerTable)]
                ELSE [d EXCEPT !.clust = c, !.sect = DataSector(c)]
           says == IF fails \/ (root /\ none) THEN "FR_INT_ERR" ELSE "FR_OK"
<1>5. \A v : SeekAt(v, d, z) = [v |-> v, dj |-> x, res |-> says]
  <2> TAKE v
  <2>0. (\A y : Done(v, y) = [v |-> v, dj |-> y, res |-> "FR_OK"])
        /\ Fails(v, d, "FR_INT_ERR") = [v |-> v, dj |-> d, res |-> "FR_INT_ERR"]
    BY DEF Done, Fails, With, Ok, Failed
  <2>1. CASE fails
    <3>0. d.sclust = 1 \/ d.sclust >= NFatEnt  BY <2>1
    <3>1. SeekAt(v, d, z) = Fails(v, d, "FR_INT_ERR")
      <4>1. d.sclust # 0
        <5> SUFFICES ASSUME d.sclust = 0 PROVE FALSE  OBVIOUS
        <5>1. 0 >= NFatEnt  BY <3>0
        <5> QED  BY <5>1, Numbers
      <4> QED  BY <3>0, <4>1, Zenon DEF SeekAt
    <3> HIDE DEF fails
    <3> QED  BY <2>0, <2>1, <3>1
  <2>2. CASE ~fails /\ root
    <3>1. ~(d.sclust = 1 \/ d.sclust >= NFatEnt) /\ d.sclust = 0 /\ ~Fat32  BY <2>2
    <3>2. SeekAt(v, d, z) = SeekStatic(v, d, z)  BY <3>1 DEF SeekAt
    <3> HIDE DEF fails, root
    <3> QED  BY <2>0, <2>2, <3>2 DEF SeekStatic
  <2>3. CASE ~fails /\ ~root
    <3>1. SeekAt(v, d, z) = SeekFrom(v, d, c, z)  BY <2>3, Zenon DEF SeekAt
    <3>2. SeekAt(v, d, z) = Done(v, [d EXCEPT !.clust = c, !.sect = DataSector(c)])
      BY <1>4, <3>1
    <3> HIDE DEF fails, root, c, none
    <3> QED  BY <2>0, <2>3, <3>2
  <2> QED  BY <2>1, <2>2, <2>3
<1> HIDE DEF x, says
<1>6. q = [v |-> u, dj |-> x, res |-> says]  BY <1>1, <1>5
<1> QED  BY <1>1, <1>5, <1>6

\* Where a table begins is not in the window that is hidden.
StartsOff(u, w, c) ==
  /\ Hidden(u, w) /\ MaxRounds \in Nat /\ MaxRounds > 0
  /\ \A d : DjFields(d) /\ d.sclust = c =>
       Goes(DirSdi(u, d, 0)) /\ DirSdi(u, d, 0).dj.sect # u.sect /\ DirSdi(u, d, 0).v = u

\* Nor are dir_find and dir_alloc.
LEMMA FindAgain ==
  ASSUME NEW u, NEW w, NEW c, StartsOff(u, w, c), NEW d, DjFields(d), d.sclust = c
  PROVE  /\ DirFind(w, d) = DirFind(u, d)
         /\ \A nent : DirAlloc(w, d, nent) = DirAlloc(u, d, nent)
<1> DEFINE z == 0
           q == DirSdi(u, d, z)
           p == DirSdi(w, d, z)
           find == "find"
           alloc == "alloc"
           from == FromHere
           st(n) == [n |-> 0, nent |-> n]
<1>1. q = DirSdi(u, d, z) /\ p = DirSdi(w, d, z) /\ z = 0  OBVIOUS
<1>2. Goes(q) /\ q.dj.sect # u.sect /\ q.v = u  BY DEF StartsOff
<1>3. /\ DirFind(u, d) = ThenAt(q, LAMBDA x, y : Scan(find, x, y, from))
      /\ DirFind(w, d) = ThenAt(p, LAMBDA x, y : Scan(find, x, y, from))
  BY DEF DirFind
<1>4. /\ \A n : DirAlloc(u, d, n) = ThenAt(q, LAMBDA x, y : Scan(alloc, x, y, st(n)))
      /\ \A n : DirAlloc(w, d, n) = ThenAt(p, LAMBDA x, y : Scan(alloc, x, y, st(n)))
  BY DEF DirAlloc
<1> HIDE DEF z, q, p, find, alloc, from, st
<1>5. p = [v |-> w, dj |-> q.dj, res |-> q.res]  BY <1>1, StartAgain
<1>6. p.v = w /\ p.dj = q.dj /\ Goes(p)  BY <1>2, <1>5 DEF Goes
<1>7. Hidden(u, w) /\ MaxRounds \in Nat /\ MaxRounds > 0  BY DEF StartsOff
<1> DEFINE dj == q.dj
<1>8. dj.sect # u.sect  BY <1>2
<1> HIDE DEF dj
<1>9. \A loop, s : Scan(loop, w, dj, s) = Scan(loop, u, dj, s)  BY <1>7, <1>8, ScanAgain
<1>10. DirFind(u, d) = Scan(find, u, dj, from) /\ DirFind(w, d) = Scan(find, w, dj, from)
  BY <1>2, <1>3, <1>6 DEF ThenAt, Goes, dj
<1>11. \A n : DirAlloc(u, d, n) = Scan(alloc, u, dj, st(n)) /\ DirAlloc(w, d, n) = Scan(alloc, w, dj, st(n))
  BY <1>2, <1>4, <1>6 DEF ThenAt, Goes, dj
<1> QED  BY <1>9, <1>10, <1>11

\* Nor is gen_numname.
LEMMA NumberAgain ==
  ASSUME NEW u, NEW w, NEW c, StartsOff(u, w, c), NEW d, DjFields(d), d.sclust = c
  PROVE  NumberedName(w, d) = NumberedName(u, d)
<1> DEFINE b == [d EXCEPT !.fn = <<d.fn[1], 1>>]
           k == Numbering(u, d, 1)
           l == Numbering(w, d, 1)
           N == 9
           M == 11
<1>1. DjFields(b) /\ b.sclust = c  BY DEF DjFields
<1>2. k.v = u /\ k.dj = b /\ k.res = "more" /\ k.n = 1 /\ l.v = w /\ l.dj = b /\ l.res = "more" /\ l.n = 1
  BY DEF Numbering
<1>3. \A v : NumberedName(v, d) =
        LET end == LotsEnd(Numbering(v, d, 1), N)
        IN  IF end.res = "more" THEN Fails(end.v, end.dj, "FR_DENIED") ELSE With(end, end.dj)
  BY DEF NumberedName, LotsEnd
<1>4. k = Numbering(u, d, 1) /\ l = Numbering(w, d, 1)  OBVIOUS
<1>5. N \in Nat /\ N > 0 /\ M \in Nat /\ M > 0  OBVIOUS
<1>a. \A x : x.res = "more" => NumberRounds(x) = NumberEnd(x, M)  BY DEF NumberRounds, NumberEnd
<1> HIDE DEF b, k, l, N, M
<1>6. DirFind(w, b) = DirFind(u, b)  BY <1>1, FindAgain
<1>7. NumberRound(l) = NumberRound(k)  BY <1>2, <1>6 DEF NumberRound
<1>8. NumberEnd(l, M) = NumberEnd(k, M)
  <2>1. PICK f : f[0] = l /\ (\A n \in 1..M : f[n] = NumberRound(f[n - 1])) /\ NumberEnd(l, M) = f[M]
    BY <1>5, NumberLoop
  <2>2. PICK g : g[0] = k /\ (\A n \in 1..M : g[n] = NumberRound(g[n - 1])) /\ NumberEnd(k, M) = g[M]
    BY <1>5, NumberLoop
  <2>3. f[1] = g[1]
    <3>1. 1 \in 1..M /\ 1 - 1 = 0  BY <1>5
    <3> QED  BY <1>7, <2>1, <2>2, <3>1
  <2>4. \A n \in 1..(M - 1) : f[n] = g[n] => f[n + 1] = g[n + 1]
    <3> TAKE n \in 1..(M - 1)
    <3>1. n + 1 \in 1..M /\ (n + 1) - 1 = n  BY <1>5
    <3> QED  BY <2>1, <2>2, <3>1
  <2>5. f[M] = g[M]  BY <1>5, <2>3, <2>4, LoopsMeet
  <2> QED  BY <2>1, <2>2, <2>5
<1>9. NumberRounds(l) = NumberRounds(k)
  <2>1. NumberRounds(l) = NumberEnd(l, M) /\ NumberRounds(k) = NumberEnd(k, M)  BY <1>2, <1>a
  <2> QED  BY <1>8, <2>1
<1>10. LotsEnd(l, N) = LotsEnd(k, N)
  <2>1. PICK f : f[0] = l /\ (\A n \in 1..N : f[n] = NumberRounds(f[n - 1])) /\ LotsEnd(l, N) = f[N]
    BY <1>5, LotsLoop
  <2>2. PICK g : g[0] = k /\ (\A n \in 1..N : g[n] = NumberRounds(g[n - 1])) /\ LotsEnd(k, N) = g[N]
    BY <1>5, LotsLoop
  <2>3. f[1] = g[1]
    <3>1. 1 \in 1..N /\ 1 - 1 = 0  BY <1>5
    <3> QED  BY <1>9, <2>1, <2>2, <3>1
  <2>4. \A n \in 1..(N - 1) : f[n] = g[n] => f[n + 1] = g[n + 1]
    <3> TAKE n \in 1..(N - 1)
    <3>1. n + 1 \in 1..N /\ (n + 1) - 1 = n  BY <1>5
    <3> QED  BY <2>1, <2>2, <3>1
  <2>5. f[N] = g[N]  BY <1>5, <2>3, <2>4, LoopsMeet
  <2> QED  BY <2>1, <2>2, <2>5
<1> QED  BY <1>3, <1>4, <1>10

\* dir_register does not see the window that is hidden.
LEMMA RegisterAgain ==
  ASSUME NEW u, NEW w, NEW c, StartsOff(u, w, c), NEW d, DjFields(d), d.sclust = c
  PROVE  DirRegister(w, d) = DirRegister(u, d)
<1>1. \A v : DirRegister(v, d) = ThenAt(Named(v, d), LAMBDA x, y : RegisterAs(x, y))
  BY RegisterParts
<1>2. CASE d.loss
  <2> DEFINE n == NoName
             no == FALSE
             b == NameAs(d, n, no)
  <2>2. \A v : Named(v, d) = ThenAt(NumberedName(v, b), LAMBDA x, y : Done(x, [y EXCEPT !.lfn = d.lfn, !.loss = TRUE]))
    BY <1>2 DEF Named, NameAs
  <2> HIDE DEF n, no
  <2>0. b = NameAs(d, n, no)  OBVIOUS
  <2> HIDE DEF b
  <2>1. DjFields(b) /\ b.sclust = c  BY <2>0 DEF DjFields, NameAs
  <2>3. NumberedName(w, b) = NumberedName(u, b)  BY <2>1, NumberAgain
  <2>4. Named(w, d) = Named(u, d)  BY <2>2, <2>3
  <2> QED  BY <1>1, <2>4
<1>3. CASE ~d.loss
  <2>1. \A v : Named(v, d) = Done(v, d)  BY <1>3 DEF Named
  <2>2. \A v : DirRegister(v, d) = RegisterAs(v, d)  BY <1>1, <2>1 DEF ThenAt, Done, With, Ok
  <2> DEFINE n == EntriesFor(d)
  <2>3. \A v : RegisterAs(v, d) = ThenAt(DirAlloc(v, d, n), LAMBDA x, y : RegisterIn(x, y))
    BY DEF RegisterAs
  <2> HIDE DEF n
  <2>4. DirAlloc(w, d, n) = DirAlloc(u, d, n)  BY FindAgain
  <2> QED  BY <2>2, <2>3, <2>4
<1> QED  BY <1>2, <1>3

----------------------------------------------------------------------------
(* f_mkdir.                                                                *)
\* The entries of the new table.
LEMMA NewTableBare ==
  ASSUME NEW n \in Clusters, NEW parent \in 0..(NFatEnt - 1), NEW x, x = NewTable(n, parent)
  PROVE  IsBare(x)
<1>1. DOMAIN x = 1..PerTable /\ PerTable \in Nat /\ PerTable > 1
  BY TableAssumption DEF NewTable, Table
<1>2. ASSUME NEW i \in 1..PerTable
      PROVE  x[i] \in {Sfn(Dot, TRUE, FALSE, n, 0), Sfn(DotDot, TRUE, FALSE, parent, 0), EndOfTable}
  <2>1. i = 1 => x[i] = Sfn(Dot, TRUE, FALSE, n, 0)
    <3>1. 1 # 2  OBVIOUS
    <3> QED  BY <1>2, <3>1, Zenon DEF NewTable, Table
  <2>2. i = 2 => x[i] = Sfn(DotDot, TRUE, FALSE, parent, 0)
    <3>1. 2 # 1  OBVIOUS
    <3> QED  BY <1>2, <3>1, Zenon DEF NewTable, Table
  <2>3. i # 1 /\ i # 2 => x[i] = EndOfTable  BY <1>2, Zenon DEF NewTable, Table
  <2> QED  BY <2>1, <2>2, <2>3
<1>3. n \in 0..(NFatEnt - 1)  BY Numbers
<1>4. \A c \in 0..(NFatEnt - 1) : \A name \in Dots : IsEntry(Sfn(name, TRUE, FALSE, c, 0)) /\ ~IsObject(Sfn(name, TRUE, FALSE, c, 0))
  <2> TAKE c \in 0..(NFatEnt - 1)
  <2> TAKE name \in Dots
  <2> DEFINE e == Sfn(name, TRUE, FALSE, c, 0)
  <2>1. /\ "sfn" \in DOMAIN e /\ e = Sfn(e.sfn, e.isDir, e.ro, e.clust, e.size)
        /\ e.isDir \in BOOLEAN /\ e.clust = c /\ e.size = 0 /\ e.sfn = name
    BY DEF Sfn
  <2> HIDE DEF e
  <2>2. e.clust \in 0..(NFatEnt - 1) /\ e.size \in Nat  BY <2>1
  <2>3. IsEntry(e)  BY <2>1, <2>2, Zenon DEF IsEntry
  <2>4. ~IsObject(e)  BY <2>1, Zenon DEF IsObject, Dots
  <2> QED  BY <2>3, <2>4 DEF e
<1>5. IsEntry(EndOfTable) /\ ~IsObject(EndOfTable)  BY EmptyIsBare, <1>1 DEF IsBare
<1> HIDE DEF Dots
<1>6. Dot \in Dots /\ DotDot \in Dots  BY DEF Dots
<1> QED  BY <1>1, <1>2, <1>3, <1>4, <1>5, <1>6 DEF IsBare

\* A new table that no entry leads to yet, while objects at places of S have been made.
FreshTable(c, S, H, n, z) ==
  /\ z \in c.dirs /\ z \in c.chains /\ z # <<>> /\ z[1] = n /\ HeadOf(z) = n /\ (Fat32 => n # 2)
  /\ \A q \in Living(c) \ S : c.owns[q] # z
  /\ PlacesOf(c, z) \cap H = {}

\* The table that f_mkdir made is owned by no entry yet.
LEMMA TableIsFresh ==
  ASSUME NEW a, NEW H, Picture(a, {}, H), H \subseteq Living(a), NEW n \in Clusters, a.fat[n] = 0,
         NEW G, NEW y, y # <<>>, y[1] = n, NEW b, TablePlaced(a, {}, H, n, G, y, b),
         NEW S, NEW c, Later(b, S, c), Picture(c, {}, H)
  PROVE  \E z : FreshTable(c, S, H, n, z)
<1>0. /\ Picture(b, {}, H) /\ Later(a, {}, b) /\ y \in b.dirs /\ Living(b) = Living(a)
      /\ \A q \in Living(a) : HeadOf(b.owns[q]) = HeadOf(a.owns[q])
  BY DEF TablePlaced
<1>1. Picture(c, {}, H)  OBVIOUS
<1> DEFINE E == {}
<1>2. Picture(a, E, H) /\ Picture(b, E, H) /\ Picture(c, E, H)  BY <1>0
<1> HIDE DEF E
<1>3. DataSector(n) \notin Tables(a) /\ \A d \in a.chains : n \notin Cells(d)
  BY <1>2, FreeNoTable
<1>4. PICK z : IsTable(c.dirs, z) /\ Extends(y, z)
  <2>1. IsTable(b.dirs, y)  BY <1>0 DEF IsTable
  <2> QED  BY <2>1 DEF Later
<1>5. z # <<>> /\ z \in c.dirs /\ z \in c.chains /\ z[1] = n /\ HeadOf(z) = n
  <2>1. z # <<>>  BY <1>4 DEF Extends
  <2>2. z \in c.dirs /\ z \in c.chains  BY <1>2, <1>4, <2>1, TableKnown
  <2>3. y \in b.dirs /\ Path(b.fat, y)  BY <1>0 DEF Picture, Family
  <2>4. Chained(b.fat, y)  BY <2>3 DEF Chained
  <2>5. 1 \in 1..Len(y)  BY <2>4, ChainKind
  <2>6. z[1] = n  BY <1>4, <2>5 DEF Extends
  <2> QED  BY <2>1, <2>2, <2>6 DEF HeadOf
<1>6. Fat32 => n # 2
  <2> SUFFICES ASSUME Fat32 PROVE n # 2  OBVIOUS
  <2>1. PICK e \in a.dirs : e[1] = 2  BY DEF Picture
  <2>2. e \in a.chains /\ Path(a.fat, e)  BY DEF Picture, Family
  <2>3. e[1] \in Cells(e)  BY <2>2, PathNotEmpty
  <2> QED  BY <1>3, <2>1, <2>2, <2>3
<1>7. ASSUME NEW q \in Living(c) \ S PROVE c.owns[q] # z
  <2> SUFFICES ASSUME c.owns[q] = z PROVE FALSE  OBVIOUS
  <2>1. q \in Living(b) \ S /\ q \in Living(a)  BY <1>0, <1>7 DEF Later
  <2>2. Row(c.rows, q) = Row(b.rows, q)  BY <2>1, LaterLives
  <2>3. Row(c.rows, q).isDir
    <3>1. Owner(c.chains, c.dirs, Row(c.rows, q), z, q \in H)  BY <1>1, <1>7 DEF Picture
    <3> QED  BY <1>5, <3>1 DEF Owner
  <2>4. HeadOf(c.owns[q]) = HeadOf(b.owns[q])  BY <2>1, <2>2, <2>3 DEF Later
  <2>5. HeadOf(a.owns[q]) = n  BY <1>0, <1>5, <2>1, <2>4
  <2>6. Owner(a.chains, a.dirs, Row(a.rows, q), a.owns[q], q \in H)  BY <2>1 DEF Picture
  <2>7. a.owns[q] # <<>>
    <3>1. n # 0  BY Numbers
    <3> QED  BY <2>5, <3>1 DEF HeadOf
  <2>8. a.owns[q] \in a.chains
    <3>1. a.dirs \subseteq a.chains  BY DEF Picture
    <3> QED  BY <2>6, <2>7, <3>1 DEF Owner
  <2>9. Path(a.fat, a.owns[q])  BY <2>8 DEF Picture, Family
  <2>10. a.owns[q][1] \in Cells(a.owns[q]) /\ HeadOf(a.owns[q]) = a.owns[q][1]
    BY <2>9, PathNotEmpty
  <2> QED  BY <1>3, <2>5, <2>8, <2>10
<1>8. PlacesOf(c, z) \cap H = {}
  <2> SUFFICES ASSUME NEW q \in H, q \in PlacesOf(c, z) PROVE FALSE  OBVIOUS
  <2>1. PICK k \in Cells(z) : q[1] = DataSector(k)  BY DEF PlacesOf
  <2>2. q[1] \in Tables(a)
    <3>1. q \in Living(a)  OBVIOUS
    <3> QED  BY <3>1 DEF Living, Live
  <2>3. PICK e \in a.dirs : k \in Cells(e)
    <3>1. DataSector(k) \in TablesOf(a.dirs)  BY <2>1, <2>2 DEF Tables
    <3> QED  BY <3>1, TablesKnown
  <2>4. e \in a.chains /\ Path(a.fat, e)  BY DEF Picture, Family
  <2>5. e # <<>> /\ e[1] \in Cells(e) /\ Chained(a.fat, e)  BY <2>4, PathNotEmpty
  <2>6. e[1] # n  BY <1>3, <2>4, <2>5
  <2>7. PICK x : IsTable(b.dirs, x) /\ Extends(e, x)
    <3>1. IsTable(a.dirs, e)  BY DEF IsTable
    <3> QED  BY <1>0, <3>1 DEF Later
  <2>8. PICK f : IsTable(c.dirs, f) /\ Extends(x, f)  BY <2>7 DEF Later
  <2>9. Extends(e, f)  BY <2>7, <2>8, LongerOn
  <2>10. f # <<>>  BY <2>5, <2>9 DEF Extends
  <2>11. f \in c.chains  BY <1>2, <2>8, <2>10, TableKnown
  <2>12. \A i \in 1..Len(e) : i \in 1..Len(f) /\ f[i] = e[i]  BY <2>9 DEF Extends
  <2>13. k \in Cells(f)  BY <2>3, <2>12 DEF Cells
  <2>14. f[1] = e[1]
    <3>1. 1 \in 1..Len(e)  BY <2>5, ChainKind
    <3> QED  BY <2>12, <3>1
  <2>15. f # z  BY <1>5, <2>6, <2>14
  <2>16. Cells(f) \cap Cells(z) = {}  BY <1>1, <1>5, <2>11, <2>15 DEF Picture, Family
  <2> QED  BY <2>1, <2>13, <2>16
<1> QED  BY <1>5, <1>6, <1>7, <1>8 DEF FreshTable

\* The cluster of a new table is given back.
LEMMA TableGivenBack ==
  ASSUME NEW v, NEW c, NEW H, Sees(v, c, {}, H), NEW n, NEW z, NEW S, S = {}, FreshTable(c, S, H, n, z),
         NEW r, r = RemoveChain(v, n)
  PROVE  VolumeMade(c, H, r.v)
<1>1. z \in c.chains /\ z[1] = n /\ (Fat32 => z[1] # 2) /\ PlacesOf(c, z) \cap H = {}
  BY DEF FreshTable
<1> DEFINE E == {}
           P == PlacesOf(c, z)
<1>2. \A q \in Living(c) \ E : c.owns[q] # z  BY DEF FreshTable
<1>3. Sees(v, c, E, H) /\ r = RemoveChain(v, z[1]) /\ P = PlacesOf(c, z)  BY <1>1
<1> HIDE DEF E, P
<1>4. \E b : Sees(r.v, b, E, H) /\ Remain(c, PlacesOf(c, z), b) /\ b.dirs = c.dirs \ {z}
  BY <1>1, <1>2, <1>3, ChainTaken
<1>5. PICK b : Sees(r.v, b, E, H) /\ Remain(c, P, b)  BY <1>3, <1>4
<1>6. FilesStay(c, P, b)  BY <1>5, RemainFiles
<1>7. Sees(r.v, b, {}, H)  BY <1>5 DEF E
<1>8. P \cap H = {}  BY <1>1, <1>3
<1> QED  BY <1>6, <1>7, <1>8 DEF VolumeMade

\* The entry of a new directory is written.
LEMMA DirEntryMade ==
  ASSUME NEW b, NEW v, NEW dj, NEW c, NEW p, NEW H, NewObject(b, H, v, dj, c, p), p \notin H,
         NEW n \in Clusters, NEW z, NEW S, S = {p}, FreshTable(c, S, H, n, z),
         NEW x, x = Sfn(dj.fn, TRUE, FALSE, n, 0), NEW w, w = Store(v, dj, x)
  PROVE  VolumeMade(b, H, w)
<1> DEFINE E == {}
<1>1. Sees(v, c, {}, H) /\ Later(b, S, c) /\ dj.fn \notin Dots /\ OnPlace(v, c, p, dj)
  BY DEF NewObject
<1>2. /\ z \in c.dirs /\ HeadOf(z) = n /\ (Fat32 => n # 2) /\ z # <<>>
      /\ \A q \in Living(c) \ S : c.owns[q] # z
  BY DEF FreshTable
<1>3. x.isDir = TRUE /\ x.clust = n /\ x.size = 0 /\ x.sfn = dj.fn /\ x.ro = FALSE /\ "sfn" \in DOMAIN x
      /\ x = Sfn(x.sfn, x.isDir, x.ro, x.clust, x.size)
  BY DEF Sfn
<1>4. IsEntry(x)
  <2>1. n \in 0..(NFatEnt - 1) /\ 0 \in Nat  BY Numbers
  <2>2. x.isDir \in BOOLEAN /\ x.clust \in 0..(NFatEnt - 1) /\ x.size \in Nat  BY <1>3, <2>1
  <2> QED  BY <1>3, <2>2, Zenon DEF IsEntry
<1>5. p \notin E /\ Owner(c.chains, c.dirs, x, z, p \in H)  BY <1>2, <1>3 DEF Owner
<1>6. Unowned(c, E, p, z)  BY <1>2 DEF Unowned
<1>7. CanStand(c, E, H, p, x, z)  BY <1>4, <1>5, <1>6 DEF CanStand
<1>8. Sees(v, c, E, H)  BY <1>1
<1> HIDE DEF E
<1>9. PICK f : StoredAt(c, E, H, p, x, z, w, f)  BY <1>1, <1>7, <1>8, EntryStored
<1>10. Sees(w, f, {}, H) /\ OnlyAt(c, p, f)  BY <1>9 DEF StoredAt, E
<1>11. FilesStay(c, {p}, f) /\ {p} \cap H = {}  BY <1>10, OnlyFilesStay
<1>12. VolumeMade(c, H, w)  BY <1>10, <1>11 DEF VolumeMade
<1>13. FilesStay(b, S, c) /\ S \cap H = {}  BY <1>1, LaterFiles
<1> QED  BY <1>12, <1>13, MadeOn

\* What f_mkdir does when the table is there and the window has been cleared.
LEMMA DirRegistered ==
  ASSUME NEW a, NEW H, Picture(a, {}, H), H \subseteq Living(a), NEW n \in Clusters, a.fat[n] = 0,
         NEW G, NEW y, y # <<>>, y[1] = n, NEW b, TablePlaced(a, {}, H, n, G, y, b),
         NEW dj, NEW g, Registered(b, H, g), NEW q, q = ThenAt(g, LAMBDA w, d : Done(Store(w, d, Sfn(d.fn, TRUE, FALSE, n, 0)), d)),
         NEW r, r = Made(q, n)
  PROVE  VolumeMade(a, H, r.v)
<1>0. Picture(b, {}, H) /\ Later(a, {}, b) /\ Living(b) = Living(a)  BY DEF TablePlaced
<1>1. CASE ~Goes(g)
  <2> DEFINE S == {}
             k == RemoveChain(g.v, n)
  <2>1. q = g /\ r.v = k.v  BY <1>1 DEF ThenAt, Goes, Made, Failed
  <2>2. PICK c : Later(b, S, c) /\ Sees(g.v, c, {}, H)  BY <1>1 DEF Registered
  <2>3. Picture(c, {}, H) /\ S = {} /\ k = RemoveChain(g.v, n)  BY <2>2 DEF Sees
  <2> HIDE DEF S, k
  <2>4. PICK z : FreshTable(c, S, H, n, z)  BY <2>2, <2>3, TableIsFresh
  <2>5. VolumeMade(c, H, k.v)  BY <2>2, <2>3, <2>4, TableGivenBack
  <2>6. VolumeMade(b, H, k.v)
    <3>1. Later(b, {}, c)  BY <2>2, <2>3
    <3> QED  BY <2>5, <3>1, MadeLater
  <2>7. VolumeMade(a, H, k.v)  BY <1>0, <2>6, MadeLater
  <2> QED  BY <2>1, <2>7
<1>2. CASE Goes(g)
  <2>1. PICK c, p : NewObject(b, H, g.v, g.dj, c, p)  BY <1>2 DEF Registered
  <2> DEFINE S == {p}
             dd == g.dj
             x == Sfn(dd.fn, TRUE, FALSE, n, 0)
             u == Store(g.v, dd, x)
             k == SyncFs(u)
  <2>2. Later(b, S, c) /\ Picture(c, {}, H) /\ p \notin H  BY <1>0, <2>1 DEF NewObject, Sees
  <2>3. q = Done(u, dd)  BY <1>2 DEF ThenAt, Goes
  <2>4. r = k
    <3> HIDE DEF u, dd
    <3>0. Done(u, dd).v = u /\ Done(u, dd).res = "FR_OK"  BY DEF Done, With, Ok
    <3>1. q.v = u /\ q.res = "FR_OK"  BY <2>3, <3>0
    <3> QED  BY <3>1 DEF Made
  <2>5. S = {p} /\ x = Sfn(dd.fn, TRUE, FALSE, n, 0) /\ u = Store(g.v, dd, x) /\ k = SyncFs(u) /\ NewObject(b, H, g.v, dd, c, p)
    BY <2>1
  <2> HIDE DEF S, dd, x, u, k
  <2>6. PICK z : FreshTable(c, S, H, n, z)  BY <2>2, TableIsFresh
  <2>7. VolumeMade(b, H, u)  BY <2>2, <2>5, <2>6, DirEntryMade
  <2>8. VolumeMade(a, H, u)  BY <1>0, <2>7, MadeLater
  <2> QED  BY <2>4, <2>5, <2>8, SyncedMade
<1> QED  BY <1>1, <1>2

\* The new table is on the disk, and the window of it has been cleared.
TableStands(a, H, n, G, y, q, b, u) ==
  /\ q = Ok(Blanked(u)) /\ Sees(u, b, {}, H) /\ TablePlaced(a, {}, H, n, G, y, b)
  /\ u.dirty = FALSE /\ u.sect = DataSector(n) /\ y # <<>> /\ y[1] = n

\* f_mkdir writes the table of the new directory.
LEMMA NewTableStands ==
  ASSUME NEW a, NEW H, Picture(a, {}, H), NEW n, NEW G, NEW y, NEW e, e = <<>>, NEW v, TableGrown(a, e, n, G, y, v),
         NEW parent \in 0..(NFatEnt - 1), NEW q, q = WriteTable(v, n, parent)
  PROVE  \E b, u : TableStands(a, H, n, G, y, q, b, u)
<1> DEFINE E == {}
           s == DataSector(n)
           x == NewTable(n, parent)
           r == SyncWindow(v)
           m == SyncWindow(Turned(r.v, s, x))
<1>0. Picture(a, E, H) /\ e \in a.dirs \cup {<<>>} /\ s = DataSector(n) /\ r = SyncWindow(v) /\ m = SyncWindow(Turned(r.v, s, x))
      /\ x = NewTable(n, parent)
  OBVIOUS
<1>1. q = Then(r, LAMBDA w : Then(SyncWindow(Turned(w, s, x)), LAMBDA z : Ok(Blanked(z))))
  BY DEF WriteTable, Turned, Blanked
<1>2. n \in Clusters /\ a.fat[n] = 0 /\ GrownBy(a.fat, e, n, G, y)  BY DEF TableGrown
<1> HIDE DEF E, x, r, m, s
<1>3. IsBare(x)  BY <1>0, <1>2, NewTableBare
<1>4. Goes(r) /\ Goes(m) /\ m = Ok(m.v) /\ \E b : TableWritten(a, e, n, G, y, x, m.v, b)
  BY <1>0, <1>3, TableIsWritten
<1>5. PICK b : TableWritten(a, e, n, G, y, x, m.v, b)  BY <1>4
<1> DEFINE u == m.v
<1>6. Drawn(u, b) /\ b = WithTable(a, e, n, x, G, y) /\ u.dirty = FALSE /\ u.sect = DataSector(n)
  BY <1>5 DEF TableWritten
<1>7. q = Ok(Blanked(u))  BY <1>0, <1>1, <1>4 DEF Then, Goes
<1> HIDE DEF u
<1>8. TablePlaced(a, E, H, n, G, y, b)  BY <1>0, <1>2, <1>3, <1>6, TablePictured
<1>9. TablePlaced(a, {}, H, n, G, y, b)  BY <1>8 DEF E
<1>10. Sees(u, b, {}, H)  BY <1>6, <1>9 DEF Sees, TablePlaced
<1>11. y # <<>> /\ y[1] = n
  <2>1. Chained(a.fat, e)  BY DEF Chained
  <2>2. y # <<>> /\ y[1] = (IF e = <<>> THEN n ELSE e[1])  BY <1>2, <2>1, CellsGrown
  <2> QED  BY <2>2
<1> QED  BY <1>6, <1>7, <1>9, <1>10, <1>11 DEF TableStands

\* The directory of the new one begins elsewhere.
LEMMA ParentOff ==
  ASSUME NEW a, NEW H, Picture(a, {}, H), NEW n \in Clusters, a.fat[n] = 0, NEW G, NEW y, NEW q, NEW b, NEW u,
         TableStands(a, H, n, G, y, q, b, u), NEW e, NEW dj, HasName(a, e, dj), NEW w, w = Blanked(u), NEW c, c = dj.sclust
  PROVE  StartsOff(u, w, c) /\ \E z : InTable(b, z, dj)
<1> DEFINE E == {}
<1>0. Sees(u, b, E, H) /\ Picture(a, E, H) /\ Picture(b, E, H) /\ Later(a, {}, b)
  BY DEF TableStands, TablePlaced
<1> HIDE DEF E
<1>1. IsTable(a.dirs, e) /\ OfTable(e, dj) /\ DjFields(dj) /\ HasEntry(e, 0)
  BY DEF HasName, InTable
<1>2. PICK z : IsTable(b.dirs, z) /\ Extends(e, z)  BY <1>0, <1>1 DEF Later
<1>3. InTable(b, z, dj)  BY <1>1, <1>2, ExtendsPlaces DEF InTable
<1> DEFINE i == 0
<1>4. i \in Nat /\ HasEntry(e, i) /\ i = 0  BY <1>1
<1>5. HasEntry(z, i) /\ PlaceOf(z, i) = PlaceOf(e, i)  BY <1>1, <1>2, ExtendsPlaces
<1> HIDE DEF i
<1>6. PlaceOf(e, i)[1] \in Tables(a)
  <2>1. PlaceOf(e, i) \in Tables(a) \X (1..PerTable)  BY <1>0, <1>1, <1>4, PlaceKnown
  <2> QED  BY <2>1
<1>7. DataSector(n) \notin Tables(a)  BY <1>0, FreeNoTable
<1>8. u.sect = DataSector(n) /\ u.dirty = FALSE  BY DEF TableStands
<1>9. ASSUME NEW d, DjFields(d), d.sclust = c PROVE Goes(DirSdi(u, d, 0)) /\ DirSdi(u, d, 0).dj.sect # u.sect /\ DirSdi(u, d, 0).v = u
  <2> DEFINE r == DirSdi(u, d, i)
  <2>1. r = DirSdi(u, d, i)  OBVIOUS
  <2> HIDE DEF r
  <2>2. OfTable(z, d)  BY <1>3, <1>9 DEF InTable, OfTable
  <2>3. Goes(r) /\ At(z, i, r.dj) /\ r.v = u
    BY <1>0, <1>2, <1>4, <1>5, <1>9, <2>1, <2>2, DirIsAt
  <2>4. r.dj.sect = PlaceOf(z, i)[1]  BY <2>3 DEF At, PlaceOf
  <2>5. r.dj.sect # u.sect  BY <1>5, <1>6, <1>7, <1>8, <2>4
  <2> QED  BY <1>4, <2>1, <2>3, <2>5
<1>10. MaxRounds \in Nat /\ MaxRounds > 0
  <2>1. MaxRounds \in Nat /\ i < MaxRounds  BY <1>0, <1>2, <1>5, RoundsEnough
  <2> QED  BY <1>4, <2>1
<1>11. Hidden(u, w)
  <2>1. HasFields(u) /\ IsTrace(u.fault)  BY <1>0 DEF Sees, Drawn, Shows, Volume
  <2> QED  BY <1>8, <2>1 DEF Hidden
<1> QED  BY <1>3, <1>9, <1>10, <1>11 DEF StartsOff

\* The cluster that a directory object begins with.
LEMMA ParentIs ==
  ASSUME NEW a, NEW E, NEW H, Picture(a, E, H), NEW e, NEW dj, InTable(a, e, dj)
  PROVE  dj.sclust \in 0..(NFatEnt - 1)
<1>1. IsTable(a.dirs, e) /\ OfTable(e, dj)  BY DEF InTable
<1>2. CASE dj.sclust = 0  BY <1>2, Numbers
<1>3. CASE dj.sclust # 0
  <2>1. e # <<>> /\ dj.sclust = e[1]  BY <1>1, <1>3 DEF OfTable
  <2>2. Path(a.fat, e)  BY <1>1, <2>1, TableKnown
  <2>3. e[1] \in Clusters  BY <2>2, PathNotEmpty
  <2> QED  BY <2>1, <2>3, Numbers
<1> QED  BY <1>2, <1>3

\* f_mkdir after create_chain: a new directory, or the cluster is freed.
LEMMA DirMade ==
  ASSUME NEW v, NEW a, NEW H, Sees(v, a, {}, H), H \subseteq Living(a), NEW e, NEW dj, HasName(a, e, dj),
         NEW m, m = CreateChain(v, 0), NEW r, r = MakeDir(m, dj)
  PROVE  VolumeMade(a, H, r.v)
<1> DEFINE E == {}
           o == <<>>
           n == m.val
<1>0. Sees(v, a, E, H) /\ Picture(a, {}, H) /\ Picture(a, E, H) /\ o = <<>> /\ o \in a.dirs \cup {<<>>}
  BY DEF Sees
<1>1. LastOf(o) = 0  BY DEF LastOf
<1> HIDE DEF E, o
<1>2. \/ n = 0 /\ Sees(m.v, a, E, H)
      \/ \E G, y : TableGrown(a, o, n, G, y, m.v)
  <2>1. m = CreateChain(v, LastOf(o))  BY <1>1
  <2> QED  BY <1>0, <2>1, TableGrows
<1>3. CASE n = 0 /\ Sees(m.v, a, E, H)
  <2>1. n = 0 /\ n # 1 /\ n # Max32  BY <1>3, Numbers
  <2>2. r = Failed(RemoveChain(m.v, 0).v, "FR_DENIED")  BY <2>1, Zenon DEF MakeDir
  <2>3. 0 \notin Clusters  BY Numbers
  <2>4. r.v = m.v  BY <2>2, <2>3 DEF RemoveChain, Failed
  <2>5. Sees(m.v, a, {}, H)  BY <1>3 DEF E
  <2> QED  BY <2>4, <2>5, VolumeKept
<1>4. ASSUME NEW G, NEW y, TableGrown(a, o, n, G, y, m.v)
      PROVE  VolumeMade(a, H, r.v)
  <2> DEFINE parent == dj.sclust
             q == WriteTable(m.v, n, parent)
  <2>1. n \in Clusters /\ a.fat[n] = 0  BY <1>4 DEF TableGrown
  <2>2. n # 0 /\ n # 1 /\ n # Max32  BY <2>1, Numbers
  <2>3. r = Made(ThenAt(With(q, dj), LAMBDA w, d : RegisterDir(w, d, n)), n)
    BY <2>2 DEF MakeDir
  <2>4. q = WriteTable(m.v, n, parent) /\ parent = dj.sclust  OBVIOUS
  <2> HIDE DEF q, parent
  <2>5. parent \in 0..(NFatEnt - 1)
    <3>1. InTable(a, e, dj)  BY DEF HasName
    <3> QED  BY <1>0, <2>4, <3>1, ParentIs
  <2>6. PICK b, u : TableStands(a, H, n, G, y, q, b, u)
    BY <1>0, <1>4, <2>4, <2>5, NewTableStands
  <2> DEFINE w == Blanked(u)
             g == DirRegister(u, dj)
             t == ThenAt(g, LAMBDA x, d : Done(Store(x, d, Sfn(d.fn, TRUE, FALSE, n, 0)), d))
  <2>7. w = Blanked(u) /\ g = DirRegister(u, dj) /\ t = ThenAt(g, LAMBDA x, d : Done(Store(x, d, Sfn(d.fn, TRUE, FALSE, n, 0)), d))
    OBVIOUS
  <2>8. q.v = w /\ q.res = "FR_OK"
    <3>1. q = Ok(w)  BY <2>6 DEF TableStands
    <3> HIDE DEF w
    <3> QED  BY <3>1 DEF Ok
  <2> HIDE DEF w, g, t
  <2>9. StartsOff(u, w, parent) /\ \E z : InTable(b, z, dj)
    BY <1>0, <2>1, <2>4, <2>6, <2>7, ParentOff
  <2>10. DirRegister(w, dj) = g
    <3>1. DjFields(dj)  BY DEF HasName, InTable
    <3>2. dj.sclust = parent  BY <2>4
    <3>3. DirRegister(w, dj) = DirRegister(u, dj)  BY <2>9, <3>1, <3>2, RegisterAgain
    <3> QED  BY <2>7, <3>3
  <2>11. r = Made(t, n)
    <3>1. ThenAt(With(q, dj), LAMBDA x, d : RegisterDir(x, d, n)) = RegisterDir(w, dj, n)
      BY <2>8 DEF ThenAt, With
    <3>2. RegisterDir(w, dj, n) = t  BY <2>7, <2>10 DEF RegisterDir
    <3> QED  BY <2>3, <3>1, <3>2
  <2>12. Sees(u, b, {}, H) /\ TablePlaced(a, {}, H, n, G, y, b) /\ y # <<>> /\ y[1] = n
    BY <2>6 DEF TableStands
  <2>13. Registered(b, H, g)
    <3>1. PICK z : InTable(b, z, dj)  BY <2>9
    <3>2. dj.fn \notin Dots  BY DEF HasName
    <3> QED  BY <2>7, <2>12, <3>1, <3>2, DirRegisters
  <2> QED  BY <1>0, <2>1, <2>7, <2>11, <2>12, <2>13, DirRegistered
<1> QED  BY <1>2, <1>3, <1>4

\* f_mkdir.
LEMMA MkdirCall ==
  ASSUME NEW v, NEW a, NEW H, Sees(v, a, {}, H), H \subseteq Living(a), NEW path, IsPath(path),
         NEW r, r = FMkdir(v, path)
  PROVE  VolumeMade(a, H, r.v)
<1> DEFINE q == FollowPath(v, path)
           m == CreateChain(q.v, 0)
           k == MakeDir(m, q.dj)
<1>1. r = MkdirFollowed(q) /\ q = FollowPath(v, path) /\ m = CreateChain(q.v, 0)  BY DEF FMkdir
<1>2. k = MakeDir(m, q.dj)  OBVIOUS
<1> HIDE DEF q
<1>3. /\ Sees(q.v, a, {}, H) /\ q.res \in {"FR_OK", "FR_NO_FILE", "FR_NO_PATH", "FR_INT_ERR"}
      /\ q.res = "FR_NO_FILE" => path # <<>> /\ \E e : HasName(a, e, q.dj)
  BY <1>1, PathLeads
<1>4. CASE q.res = "FR_NO_FILE"
  <2>1. r = k  BY <1>1, <1>4 DEF MkdirFollowed
  <2>2. PICK e : HasName(a, e, q.dj)  BY <1>3, <1>4
  <2> HIDE DEF m, k
  <2> QED  BY <1>1, <1>2, <1>3, <2>1, <2>2, DirMade
<1>5. CASE q.res # "FR_NO_FILE"
  <2>1. r.v = q.v
    <3>1. MkdirFollowed(q) = Failed(q.v, "FR_EXIST") \/ MkdirFollowed(q) = Failed(q.v, q.res)
      BY <1>5, Zenon DEF MkdirFollowed
    <3> QED  BY <1>1, <3>1 DEF Failed
  <2> QED  BY <1>3, <2>1, VolumeKept
<1> QED  BY <1>4, <1>5

----------------------------------------------------------------------------
(* f_rename.                                                               *)
\* While there are two entries of an object, the old one owns nothing.
LEMMA PictureLess ==
  ASSUME NEW a, NEW H, Picture(a, {}, H), NEW E
  PROVE  Picture(a, E, H)
<1>1. Living(a) \ E \subseteq Living(a) \ {}  OBVIOUS
<1> QED  BY <1>1 DEF Picture

\* Exempt entries that do not live need no exemption.
LEMMA PictureGone ==
  ASSUME NEW a, NEW E, NEW H, Picture(a, E, H), Living(a) \cap E = {}
  PROVE  Picture(a, {}, H)
<1>1. Living(a) \ E = Living(a) /\ Living(a) \ {} = Living(a)  OBVIOUS
<1> QED  BY <1>1 DEF Picture

\* Where the entries of long names stay, dir_remove still finds the ones of an object.
RunsStay(a, b) ==
  /\ \A q \in Tables(a) \X (1..PerTable) : IsLfn(Row(a.rows, q)) => Row(b.rows, q) = Row(a.rows, q)
  /\ \A e : IsTable(a.dirs, e) => \E y : IsTable(b.dirs, y) /\ Extends(e, y)

\* Long names kept twice.
LEMMA RunsOn ==
  ASSUME NEW a, NEW b, RunsStay(a, b), NEW c, RunsStay(b, c), Tables(a) \subseteq Tables(b)
  PROVE  RunsStay(a, c)
<1>1. ASSUME NEW q \in Tables(a) \X (1..PerTable), IsLfn(Row(a.rows, q)) PROVE Row(c.rows, q) = Row(a.rows, q)
  <2>1. Row(b.rows, q) = Row(a.rows, q)  BY <1>1 DEF RunsStay
  <2>2. q \in Tables(b) \X (1..PerTable)  OBVIOUS
  <2> QED  BY <1>1, <2>1, <2>2 DEF RunsStay
<1>2. ASSUME NEW e, IsTable(a.dirs, e) PROVE \E y : IsTable(c.dirs, y) /\ Extends(e, y)
  <2>1. PICK y : IsTable(b.dirs, y) /\ Extends(e, y)  BY <1>2 DEF RunsStay
  <2>2. PICK z : IsTable(c.dirs, z) /\ Extends(y, z)  BY <2>1 DEF RunsStay
  <2> QED  BY <2>1, <2>2, LongerOn
<1> QED  BY <1>1, <1>2 DEF RunsStay

\* A volume that filled free entries only kept its long names.
LEMMA LaterRuns ==
  ASSUME NEW a, NEW E, NEW H, Picture(a, E, H), NEW S, NEW b, Later(a, S, b),
         \A p \in S : p \in Tables(a) \X (1..PerTable) => Blank(Row(a.rows, p))
  PROVE  RunsStay(a, b)
<1>1. ASSUME NEW q \in Tables(a) \X (1..PerTable), IsLfn(Row(a.rows, q)) PROVE Row(b.rows, q) = Row(a.rows, q)
  <2>1. IsEntry(Row(a.rows, q))  BY EntriesKnown
  <2>2. ~Blank(Row(a.rows, q))  BY <1>1, <2>1, OneKind
  <2> QED  BY <2>2 DEF Later
<1> QED  BY <1>1 DEF RunsStay, Later

\* So did one where an entry that is no long name changed.
LEMMA OnlyAtRuns ==
  ASSUME NEW a, NEW E, NEW H, Picture(a, E, H), NEW p, NEW b, OnlyAt(a, p, b), ~IsLfn(Row(a.rows, p))
  PROVE  RunsStay(a, b)
<1>1. \A q \in Tables(a) \X (1..PerTable) : IsLfn(Row(a.rows, q)) => Row(b.rows, q) = Row(a.rows, q)
  BY DEF OnlyAt
<1>2. ASSUME NEW e, IsTable(a.dirs, e) PROVE \E y : IsTable(b.dirs, y) /\ Extends(e, y)
  <2>1. IsTable(b.dirs, e)  BY <1>2 DEF OnlyAt
  <2> QED  BY <1>2, <2>1, TableLonger
<1> QED  BY <1>1, <1>2 DEF RunsStay

\* The object that f_rename found still stands where it was found.
LEMMA StandsStill ==
  ASSUME NEW v, NEW a, NEW E, NEW H, Sees(v, a, E, H), NEW e, NEW dj, HasObject(a, e, dj, v), NEW p, p = PlaceAt(dj),
         NEW b, NEW K, Picture(b, E, K), RunsStay(a, b), Tables(a) \subseteq Tables(b)
  PROVE  \E z, k : Stands(b, z, k, dj) /\ p = PlaceOf(z, k)
<1>0. Picture(a, E, H) /\ IsTable(a.dirs, e) /\ OfTable(e, dj) /\ DjFields(dj)
  BY DEF Sees, HasObject, InTable
<1>1. PICK k : At(e, k, dj) /\ InWindow(v, a, e, k, dj) /\ FoundHere("find", a, e, k, dj)
  BY DEF HasObject, FoundAtEntry
<1>2. HasEntry(e, k) /\ dj.index = k  BY <1>1 DEF At
<1>3. PlaceOf(e, k) = p  BY <1>1 DEF InWindow, PlaceAt
<1>4. dj.lfnIdx # NoLfn => LfnRun(a, e, dj.lfnIdx, k)  BY <1>1 DEF FoundHere
<1>5. PICK z : IsTable(b.dirs, z) /\ Extends(e, z)  BY <1>0 DEF RunsStay
<1>6. OfTable(z, dj) /\ HasEntry(z, k) /\ PlaceOf(z, k) = p
  BY <1>0, <1>2, <1>3, <1>5, ExtendsPlaces
<1>7. ASSUME dj.lfnIdx # NoLfn PROVE dj.lfnIdx \in 0..k /\ NoObjects(b, z, dj.lfnIdx, k)
  <2>1. dj.lfnIdx \in 0..k /\ \A j \in dj.lfnIdx..(k - 1) : IsLfn(EntryAt(a, e, j))
    BY <1>4, <1>7 DEF LfnRun
  <2>2. ASSUME NEW j \in dj.lfnIdx..(k - 1) PROVE PlaceOf(z, j) \notin Living(b)
    <3>1. HasEntry(e, j)
      <4> DEFINE R == RowsOf(e) * PerTable
      <4>1. RowsOf(e) \in Nat  BY <1>0, TableKnown
      <4>2. R \in Nat  BY <4>1, TableAssumption
      <4>3. k \in Nat /\ k < R  BY <1>2 DEF HasEntry
      <4> HIDE DEF R
      <4>4. j \in Nat /\ j < R  BY <2>1, <2>2, <4>2, <4>3
      <4> QED  BY <4>4 DEF R, HasEntry
    <3>2. PlaceOf(e, j) \in Tables(a) \X (1..PerTable)  BY <1>0, <3>1, PlaceKnown
    <3>3. IsLfn(Row(a.rows, PlaceOf(e, j)))  BY <2>1, <2>2 DEF EntryAt
    <3>4. Row(b.rows, PlaceOf(e, j)) = Row(a.rows, PlaceOf(e, j))  BY <3>2, <3>3 DEF RunsStay
    <3>5. PlaceOf(z, j) = PlaceOf(e, j)  BY <1>5, <3>1, ExtendsPlaces
    <3>6. PlaceOf(z, j) \in Tables(b) \X (1..PerTable)  BY <3>2, <3>5
    <3> DEFINE f == Row(b.rows, PlaceOf(z, j))
    <3>7. IsEntry(f) /\ (PlaceOf(z, j) \in Living(b) <=> IsObject(f))  BY <3>6, EntriesKnown
    <3>8. IsLfn(f)  BY <3>3, <3>4, <3>5
    <3> HIDE DEF f
    <3>9. ~IsObject(f)  BY <3>7, <3>8, ObjectEntry
    <3> QED  BY <3>7, <3>9
  <2> QED  BY <2>1, <2>2 DEF NoObjects
<1> QED  BY <1>0, <1>2, <1>5, <1>6, <1>7 DEF Stands

\* An entry that is no object's is written in the place of another such.
DotsPointed(c, E, H, w, d) ==
  /\ Sees(w, d, E, H) /\ RunsStay(c, d) /\ FilesStay(c, {}, d)
  /\ Tables(d) = Tables(c) /\ Living(d) = Living(c)

\* f_rename left the dot entry alone.
LEMMA DotsAsTheyAre ==
  ASSUME NEW v, NEW c, NEW E, NEW H, Sees(v, c, E, H)
  PROVE  DotsPointed(c, E, H, v, c)
<1>1. Picture(c, E, H)  BY DEF Sees
<1>2. \A e : IsTable(c.dirs, e) => \E y : IsTable(c.dirs, y) /\ Extends(e, y)
  BY <1>1, TableLonger
<1> QED  BY <1>2 DEF DotsPointed, RunsStay, FilesStay

\* The ".." of a directory.
DotsTo(c) == Sfn(DotDot, TRUE, FALSE, c, 0)

\* The dot entry that f_mkdir wrote.
LEMMA DotsEntry ==
  ASSUME NEW c \in 0..(NFatEnt - 1), NEW e, e = DotsTo(c)
  PROVE  IsEntry(e) /\ ~IsObject(e) /\ ~IsLfn(e)
<1>1. /\ "sfn" \in DOMAIN e /\ e = Sfn(e.sfn, e.isDir, e.ro, e.clust, e.size)
      /\ e.isDir \in BOOLEAN /\ e.clust = c /\ e.size = 0 /\ e.sfn = DotDot
  BY DEF Sfn, DotsTo
<1>2. e.clust \in 0..(NFatEnt - 1) /\ e.size \in Nat  BY <1>1
<1>3. IsEntry(e)  BY <1>1, <1>2, Zenon DEF IsEntry
<1>4. ~IsObject(e)  BY <1>1, Zenon DEF IsObject
<1>5. ~IsLfn(e)  BY <1>1, <1>3, ObjectEntry
<1> QED  BY <1>3, <1>4, <1>5

Second(s) == [sect |-> s, index |-> 1]
DotsSet(v, parent) == [v EXCEPT !.win[2].clust = parent, !.dirty = TRUE]
Pointing(e, p) == [e EXCEPT !.clust = p]

\* A dot entry pointed elsewhere is a dot entry.
LEMMA DotsAgain ==
  ASSUME NEW n, NEW p
  PROVE  Pointing(DotsTo(n), p) = DotsTo(p)
<1>1. \A a, b, c, d : Pointing(Sfn(a, b, c, n, d), p) = Sfn(a, b, c, p, d)  BY DEF Pointing, Sfn
<1> QED  BY <1>1 DEF DotsTo

SecondSet(v, x) == [v EXCEPT !.win[2] = x, !.dirty = TRUE]

\* What f_rename stores in the second entry of the table.
LEMMA DotsSetIn ==
  ASSUME NEW v, HasFields(v), NEW e, NEW f, NEW p, v.win[2] = e, f = Pointing(e, p), 2 \in DOMAIN v.win
  PROVE  DotsSet(v, p) = SecondSet(v, f)
BY DEF DotsSet, HasFields, Pointing, SecondSet

StoresDots(w, v, dj, x) == w = Store(v, dj, x)

\* The dot entry of a directory is stored with its new parent.
LEMMA DotsStored ==
  ASSUME NEW v, HasFields(v), DOMAIN v.win = 1..PerTable, NEW n, v.win[2] = DotsTo(n), NEW parent,
         NEW w, w = DotsSet(v, parent)
  PROVE  StoresDots(w, v, Second(v.sect), DotsTo(parent))
<1>1. PerTable \in Nat /\ PerTable > 1  BY TableAssumption
<1>2. 1 % PerTable = 1  BY <1>1
<1> DEFINE dj == Second(v.sect)
           x == DotsTo(parent)
           e == DotsTo(n)
<1>3. Slot(dj) = 2  BY <1>2 DEF Slot, Second
<1>4. x = Pointing(e, parent)  BY DotsAgain
<1>5. v.win[2] = e  OBVIOUS
<1>6. 2 \in DOMAIN v.win  BY <1>1
<1> HIDE DEF dj, x, e
<1>7. w = SecondSet(v, x)  BY <1>4, <1>5, <1>6, DotsSetIn
<1>8. w = Store(v, dj, x)  BY <1>3, <1>7 DEF Store, SecondSet
<1> QED  BY <1>8 DEF StoresDots, dj, x

\* It is the second entry of the table.
LEMMA DotsPlace ==
  ASSUME NEW s, NEW dj, dj = Second(s)
  PROVE  PlaceAt(dj) = <<s, 2>> /\ 2 \in 1..PerTable
<1>1. PerTable \in Nat /\ PerTable > 1  BY TableAssumption
<1>2. 1 % PerTable = 1  BY <1>1
<1>3. Slot(dj) = 2 /\ dj.sect = s  BY <1>2 DEF Slot, Second
<1> QED  BY <1>1, <1>3 DEF PlaceAt

\* f_rename points the dot entry in the buffer.
LEMMA DotsPoint ==
  ASSUME NEW v, NEW c, NEW E, NEW H, Sees(v, c, E, H), v.sect \in Tables(c), NEW parent \in 0..(NFatEnt - 1),
         NEW w, w = PointDots(v, parent)
  PROVE  \E d : DotsPointed(c, E, H, w, d)
<1>0. Drawn(v, c) /\ Picture(c, E, H)  BY DEF Sees
<1>1. v.win = c.rows[v.sect] /\ HasFields(v)  BY <1>0, RowSeen
<1>2. DOMAIN v.win = 1..PerTable  BY <1>0, <1>1 DEF Picture, HoldEntries
<1>3. AsTable(v.win) = v.win  BY <1>2 DEF AsTable
<1>4. CASE v.win[2] \notin {Sfn(DotDot, TRUE, FALSE, n, 0) : n \in 0..(NFatEnt - 1)}
  <2>1. w = v  BY <1>3, <1>4 DEF PointDots
  <2> QED  BY <2>1, DotsAsTheyAre
<1>5. CASE v.win[2] \in {Sfn(DotDot, TRUE, FALSE, n, 0) : n \in 0..(NFatEnt - 1)}
  <2>1. w = DotsSet(v, parent)  BY <1>3, <1>5 DEF PointDots, DotsSet
  <2>2. PICK n \in 0..(NFatEnt - 1) : v.win[2] = DotsTo(n)  BY <1>5 DEF DotsTo
  <2> DEFINE x == DotsTo(parent)
             dj == Second(v.sect)
             p == PlaceAt(dj)
             o == <<>>
  <2>3. x = DotsTo(parent) /\ dj = Second(v.sect) /\ p = PlaceAt(dj)  OBVIOUS
  <2> HIDE DEF x, dj, p, o
  <2>30. StoresDots(w, v, Second(v.sect), DotsTo(parent))  BY <1>1, <1>2, <2>1, <2>2, DotsStored
  <2>31. w = Store(v, dj, x)  BY <2>3, <2>30 DEF StoresDots
  <2>32. PlaceAt(dj) = <<v.sect, 2>> /\ 2 \in 1..PerTable  BY <2>3, DotsPlace
  <2>4. w = Store(v, dj, x) /\ p = <<v.sect, 2>> /\ 2 \in 1..PerTable  BY <2>3, <2>31, <2>32
  <2>5. p \in Tables(c) \X (1..PerTable) /\ p[1] = v.sect /\ p[2] = 2  BY <2>4
  <2>6. OnPlace(v, c, p, dj)  BY <1>2, <2>3, <2>5 DEF OnPlace
  <2>7. IsEntry(x) /\ ~IsObject(x)  BY <2>3, DotsEntry
  <2>8. CanStand(c, E, H, p, x, o)  BY <2>7 DEF CanStand
  <2>9. PICK d : StoredAt(c, E, H, p, x, o, w, d)  BY <2>4, <2>6, <2>8, EntryStored
  <2>10. Sees(w, d, E, H) /\ OnlyAt(c, p, d) /\ p \notin Living(d)  BY <2>7, <2>9 DEF StoredAt
  <2> DEFINE e == Row(c.rows, p)
  <2>11. e = DotsTo(n)  BY <1>1, <2>2, <2>5 DEF Row
  <2>12. p \in Living(c) <=> IsObject(e)  BY <1>0, <2>5, EntriesKnown
  <2> HIDE DEF e
  <2>13. ~IsObject(e) /\ ~IsLfn(e)  BY <2>11, DotsEntry
  <2>14. RunsStay(c, d)  BY <1>0, <2>10, <2>13, OnlyAtRuns DEF e
  <2>15. Tables(d) = Tables(c)  BY <2>10 DEF OnlyAt
  <2>16. Living(d) = Living(c)
    <3>1. \A q \in Tables(c) \X (1..PerTable) : q # p => (q \in Living(d) <=> q \in Living(c))
      BY <2>10 DEF OnlyAt
    <3>2. Living(d) \subseteq Tables(c) \X (1..PerTable) /\ Living(c) \subseteq Tables(c) \X (1..PerTable)
      BY <2>15 DEF Living, Live
    <3> QED  BY <2>10, <2>12, <2>13, <3>1, <3>2
  <2>17. FilesStay(c, {}, d)
    <3> SUFFICES ASSUME NEW q \in Living(c)
                 PROVE  q \in Living(d) /\ Row(d.rows, q) = Row(c.rows, q) /\ d.owns[q] = c.owns[q]
      BY DEF FilesStay
    <3>1. q \in Tables(c) \X (1..PerTable)  BY DEF Living, Live
    <3>2. q # p  BY <2>12, <2>13
    <3> QED  BY <2>10, <3>1, <3>2 DEF OnlyAt
  <2> QED  BY <2>10, <2>14, <2>15, <2>16, <2>17 DEF DotsPointed
<1> QED  BY <1>4, <1>5

\* f_rename points the dot entry of a directory to its new parent.
LEMMA DotsMoved ==
  ASSUME NEW v, NEW c, NEW E, NEW H, Sees(v, c, E, H), NEW o \in c.dirs, NEW n, n = HeadOf(o),
         NEW parent \in 0..(NFatEnt - 1), NEW r, r = MoveDots(v, n, parent)
  PROVE  Goes(r) /\ \E d : DotsPointed(c, E, H, r.v, d)
<1> DEFINE s == DataSector(n)
           T == Tables(c)
           F == c.fat
           X == c.rows
           m == MoveWindow(v, s)
           k == IF Fat32 /\ parent = 2 THEN 0 ELSE parent
           w == PointDots(m.v, k)
<1>0. Shows(v, T, F, X) /\ Picture(c, E, H)  BY DEF Sees, Drawn
<1>1. Path(F, o)  BY <1>0 DEF Picture, Family
<1>2. n \in Clusters /\ n \in Cells(o)  BY <1>1, PathNotEmpty
<1>3. s \in T  BY <1>2, TablesKnown DEF Tables
<1>4. k \in 0..(NFatEnt - 1)  BY Numbers
<1>5. r = Then(m, LAMBDA z : Ok(PointDots(z, k)))  BY <1>2 DEF MoveDots
<1>6. m = MoveWindow(v, s) /\ w = PointDots(m.v, k)  OBVIOUS
<1> HIDE DEF s, m, w, k
<1>7. Goes(m) /\ Shows(m.v, T, F, X) /\ m.v.sect = s
  <2>1. s \in FirstCopy \cup T  BY <1>3
  <2> HIDE DEF T, F, X
  <2> QED  BY <1>0, <1>6, <2>1, WindowAt
<1>8. r = Ok(w)  BY <1>5, <1>6, <1>7 DEF Then, Goes
<1>9. Goes(r) /\ r.v = w  BY <1>8 DEF Ok, Goes
<1>10. Sees(m.v, c, E, H)  BY <1>0, <1>7 DEF Sees, Drawn
<1>11. m.v.sect \in Tables(c)  BY <1>3, <1>7
<1> DEFINE u == m.v
<1>12. Sees(u, c, E, H) /\ u.sect \in Tables(c) /\ w = PointDots(u, k)  BY <1>6, <1>10, <1>11
<1> HIDE DEF u
<1> QED  BY <1>4, <1>9, <1>12, DotsPoint

\* The entry of an object under another name.
Called(e, n) == [e EXCEPT !.sfn = n]

\* An entry called by another name.
LEMMA CalledObject ==
  ASSUME NEW e, IsEntry(e), IsObject(e), NEW n, n \notin Dots, NEW x, x = Called(e, n)
  PROVE  /\ IsEntry(x) /\ IsObject(x) /\ x.isDir = e.isDir /\ x.clust = e.clust /\ x.size = e.size
         /\ \A C, D, o, h : Owner(C, D, e, o, h) => Owner(C, D, x, o, h)
<1>1. "sfn" \in DOMAIN e  BY DEF IsObject
<1>2. IsSfn(e) /\ e.isDir \in BOOLEAN /\ e.clust \in 0..(NFatEnt - 1) /\ e.size \in Nat
  BY <1>1, ObjectEntry
<1>3. x = [sfn |-> n, isDir |-> e.isDir, ro |-> e.ro, clust |-> e.clust, size |-> e.size]
  BY <1>2 DEF Called, IsSfn
<1>4. x.sfn = n /\ x.isDir = e.isDir /\ x.ro = e.ro /\ x.clust = e.clust /\ x.size = e.size /\ "sfn" \in DOMAIN x
  BY <1>3
<1>5. x = Sfn(x.sfn, x.isDir, x.ro, x.clust, x.size)  BY <1>3, <1>4 DEF Sfn
<1>6. IsObject(x)  BY <1>4 DEF IsObject, Dots
<1>7. IsEntry(x)  BY <1>2, <1>4, <1>5 DEF IsEntry
<1>8. ASSUME NEW C, NEW D, NEW o, NEW h, Owner(C, D, e, o, h)
      PROVE  Owner(C, D, x, o, h)
  BY <1>4, <1>8 DEF Owner
<1> QED  BY <1>4, <1>6, <1>7, <1>8

\* An object has two entries, of which the old one owns nothing.
TwoEntries(a, H, E, p, e, w, c) ==
  /\ Sees(w, c, E, H) /\ p \notin H /\ RunsStay(a, c) /\ Tables(a) \subseteq Tables(c)
  /\ e.isDir => c.owns[p] \in c.dirs /\ e.clust = HeadOf(c.owns[p])

\* The new entry of f_rename takes the chain, the old one is about to go.
LEMMA EntryCalled ==
  ASSUME NEW a, NEW H, Picture(a, {}, H), H \subseteq Living(a), NEW po \in Living(a) \ H, NEW e, e = Row(a.rows, po),
         NEW v, NEW dj, NEW b, NEW p, NewObject(a, H, v, dj, b, p), NEW x, x = Called(e, dj.fn),
         NEW w, w = Store(v, dj, x), NEW E, E = {po}, NEW P, P = {p}
  PROVE  \E c : TwoEntries(a, H, E, p, e, w, c) /\ FilesStay(a, P, c)
<1> DEFINE o == b.owns[po]
<1>0. /\ Sees(v, b, {}, H) /\ Later(a, P, b) /\ p \notin Living(a) /\ dj.fn \notin Dots
      /\ p \in Tables(a) \X (1..PerTable) => Blank(Row(a.rows, p))
      /\ OnPlace(v, b, p, dj) /\ ObjectSeen(v, b, p, Sfn(dj.fn, FALSE, FALSE, 0, 0))
  BY DEF NewObject
<1>1. p # po /\ p \notin H  BY <1>0
<1>2. po \in Living(b) /\ Row(b.rows, po) = e
  <2>1. po \in Living(a) \ P  BY <1>1
  <2> QED  BY <1>0, <2>1, LaterLives
<1>3. Picture(b, {}, H) /\ Picture(b, E, H) /\ Sees(v, b, E, H)
  <2>1. Picture(b, {}, H) /\ Drawn(v, b)  BY <1>0 DEF Sees
  <2>2. Picture(b, E, H)  BY <2>1, PictureLess
  <2> QED  BY <2>1, <2>2 DEF Sees
<1>4. IsEntry(e) /\ IsObject(e)
  <2>1. IsObject(e) /\ po \in Tables(b) \X (1..PerTable)  BY <1>2, PlacesKnown
  <2> QED  BY <1>2, <1>3, <2>1, EntriesKnown
<1>5. /\ IsEntry(x) /\ IsObject(x) /\ x.isDir = e.isDir /\ x.clust = e.clust
      /\ \A C, D, y, h : Owner(C, D, e, y, h) => Owner(C, D, x, y, h)
  BY <1>0, <1>4, CalledObject
<1>6. Owner(b.chains, b.dirs, e, o, po \in H)
  <2>1. Owner(b.chains, b.dirs, Row(b.rows, po), b.owns[po], po \in H)
    BY <1>2, <1>3 DEF Picture
  <2> QED  BY <1>2, <2>1
<1>7. (po \in H) = (p \in H)  BY <1>1
<1>8. Owner(b.chains, b.dirs, x, o, p \in H)  BY <1>5, <1>6, <1>7
<1>9. Unowned(b, E, p, o)
  <2>1. \A q, s \in Living(b) : b.owns[q] = b.owns[s] /\ b.owns[q] # <<>> => q = s
    BY <1>3 DEF Picture
  <2> QED  BY <1>2, <2>1 DEF Unowned
<1>10. CanStand(b, E, H, p, x, o)  BY <1>1, <1>5, <1>8, <1>9 DEF CanStand
<1> HIDE DEF o
<1>11. PICK c : StoredAt(b, E, H, p, x, o, w, c)  BY <1>0, <1>3, <1>10, EntryStored
<1>12. Sees(w, c, E, H) /\ OnlyAt(b, p, c) /\ c.owns[p] = o  BY <1>11 DEF StoredAt
<1>13. RunsStay(a, b)
  <2>1. \A q \in P : q \in Tables(a) \X (1..PerTable) => Blank(Row(a.rows, q))  BY <1>0
  <2> DEFINE K == {}
  <2>2. Picture(a, K, H)  OBVIOUS
  <2> HIDE DEF K
  <2> QED  BY <1>0, <2>1, <2>2, LaterRuns
<1>14. RunsStay(b, c)
  <2>1. IsObject(Row(b.rows, p)) /\ IsEntry(Row(b.rows, p))  BY <1>0 DEF ObjectSeen
  <2>2. ~IsLfn(Row(b.rows, p))  BY <2>1, ObjectEntry
  <2> QED  BY <1>3, <1>12, <2>2, OnlyAtRuns
<1>15. Tables(a) \subseteq Tables(b) /\ Tables(c) = Tables(b) /\ c.dirs = b.dirs
  BY <1>0, <1>12 DEF Later, OnlyAt
<1>16. RunsStay(a, c)  BY <1>13, <1>14, <1>15, RunsOn
<1>17. e.isDir => o \in b.dirs /\ e.clust = HeadOf(o)  BY <1>6 DEF Owner
<1>18. TwoEntries(a, H, E, p, e, w, c)  BY <1>1, <1>12, <1>15, <1>16, <1>17 DEF TwoEntries
<1>19. FilesStay(a, P, c)
  <2>1. FilesStay(a, P, b)  BY <1>0, LaterFiles
  <2>2. FilesStay(b, P, c)
    <3> SUFFICES ASSUME NEW q \in Living(b) \ P
                 PROVE  q \in Living(c) /\ Row(c.rows, q) = Row(b.rows, q) /\ c.owns[q] = b.owns[q]
      BY DEF FilesStay
    <3>1. q \in Tables(b) \X (1..PerTable) /\ q # p  BY PlacesKnown
    <3> QED  BY <1>12, <3>1 DEF OnlyAt
  <2>3. P = P \cup P  OBVIOUS
  <2> QED  BY <2>1, <2>2, <2>3, StaysOn
<1> QED  BY <1>18, <1>19

\* f_rename when the old path leads to a file and the new one to a name.
MovedDots(x, old, e, new) == IF e.isDir /\ old.sclust # new.sclust THEN MoveDots(x, e.clust, new.sclust) ELSE Ok(x)
EntryGone(y, old) == Then(DirRemove(y, old), LAMBDA z : SyncFs(z))
Renamed(x, old, e, new) == Then(MovedDots(x, old, e, new), LAMBDA y : EntryGone(y, old))

\* f_rename registers the new name, copies the entry and goes on.
LEMMA RenameParts ==
  ASSUME NEW v, NEW old, NEW e, NEW new, NEW g, g = DirRegister(v, new), NEW r, r = RenameTo(v, old, e, new),
         NEW x, x = Called(e, g.dj.fn), NEW w, w = Store(g.v, g.dj, x)
  PROVE  IF Goes(g) THEN r = Renamed(w, old, e, new) ELSE r = g
<1> DEFINE f == ThenAt(g, LAMBDA y, n : Done(Store(y, n, [e EXCEPT !.sfn = n.fn]), n))
<1>1. r = Then(f, LAMBDA y : Renamed(y, old, e, new))
  BY DEF RenameTo, Renamed, MovedDots, EntryGone
<1>2. Goes(g) => f = Done(w, g.dj)  BY DEF ThenAt, Goes, Called
<1>3. ~Goes(g) => f = g  BY DEF ThenAt, Goes
<1> HIDE DEF f
<1>4. CASE Goes(g)
  <2>1. f.res = "FR_OK" /\ f.v = w  BY <1>2, <1>4 DEF Done, With, Ok
  <2> QED  BY <1>1, <1>4, <2>1 DEF Then
<1>5. CASE ~Goes(g)
  <2>1. f.res # "FR_OK" /\ f = g  BY <1>3, <1>5 DEF Goes
  <2> QED  BY <1>1, <1>5, <2>1 DEF Then
<1> QED  BY <1>4, <1>5

\* ".." of a directory that goes elsewhere is pointed to its new parent.
LEMMA DotsGo ==
  ASSUME NEW a, NEW H, NEW E, NEW p, NEW e, NEW w, NEW c, TwoEntries(a, H, E, p, e, w, c),
         NEW old, NEW new, new.sclust \in 0..(NFatEnt - 1), NEW m, m = MovedDots(w, old, e, new)
  PROVE  Goes(m) /\ \E d : DotsPointed(c, E, H, m.v, d)
<1>1. Sees(w, c, E, H)  BY DEF TwoEntries
<1>2. CASE e.isDir /\ old.sclust # new.sclust
  <2> DEFINE o == c.owns[p]
             n == e.clust
             k == new.sclust
  <2>1. o \in c.dirs /\ n = HeadOf(o)  BY <1>2 DEF TwoEntries
  <2>2. m = MoveDots(w, n, k) /\ k \in 0..(NFatEnt - 1)  BY <1>2 DEF MovedDots
  <2> HIDE DEF o, n, k
  <2> QED  BY <1>1, <2>1, <2>2, DotsMoved
<1>3. CASE ~(e.isDir /\ old.sclust # new.sclust)
  <2>1. m = Ok(w)  BY <1>3 DEF MovedDots
  <2>2. Goes(m) /\ m.v = w  BY <2>1 DEF Goes, Ok
  <2> QED  BY <1>1, <2>2, DotsAsTheyAre
<1> QED  BY <1>2, <1>3

\* The old entry of an object is removed.
LEMMA OldGone ==
  ASSUME NEW a, NEW H, NEW E, NEW p, NEW e, NEW w, NEW c, TwoEntries(a, H, E, p, e, w, c), NEW P, P = {p}, FilesStay(a, P, c),
         NEW y, NEW d, DotsPointed(c, E, H, y, d), NEW u, Sees(u, a, {}, H), NEW t, NEW old, HasObject(a, t, old, u),
         NEW po, po = PlaceAt(old), E = {po}, po \notin H, NEW r, r = EntryGone(y, old)
  PROVE  VolumeMade(a, H, r.v)
<1> DEFINE q == DirRemove(y, old)
<1>0. Sees(w, c, E, H) /\ p \notin H /\ RunsStay(a, c) /\ Tables(a) \subseteq Tables(c)
  BY DEF TwoEntries
<1>1. Sees(y, d, E, H) /\ RunsStay(c, d) /\ FilesStay(c, {}, d) /\ Tables(d) = Tables(c)
  BY DEF DotsPointed
<1>2. RunsStay(a, d) /\ Tables(a) \subseteq Tables(d)  BY <1>0, <1>1, RunsOn
<1>3. Sees(u, a, E, H)
  <2>1. Picture(a, {}, H) /\ Drawn(u, a)  BY DEF Sees
  <2>2. Picture(a, E, H)  BY <2>1, PictureLess
  <2> QED  BY <2>1, <2>2 DEF Sees
<1>4. Picture(d, E, H)  BY <1>1 DEF Sees
<1>5. PICK z, k : Stands(d, z, k, old) /\ po = PlaceOf(z, k)  BY <1>2, <1>3, <1>4, StandsStill
<1>6. q = DirRemove(y, old)  OBVIOUS
<1> HIDE DEF q
<1>7. Goes(q) /\ \E f : Sees(q.v, f, E, H) /\ Emptier(d, {po}, f)
  BY <1>1, <1>5, <1>6, DirRemoved
<1>8. PICK f : Sees(q.v, f, E, H) /\ Emptier(d, E, f)  BY <1>7
<1>9. Sees(q.v, f, {}, H)
  <2>1. Picture(f, E, H) /\ Drawn(q.v, f)  BY <1>8 DEF Sees
  <2>2. Living(f) \cap E = {}  BY <1>8 DEF Emptier
  <2>3. Picture(f, {}, H)  BY <2>1, <2>2, PictureGone
  <2> QED  BY <2>1, <2>3 DEF Sees
<1> DEFINE Q == P \cup E
           N == {}
<1>10. FilesStay(a, Q, f)
  <2>1. FilesStay(c, N, d)  BY <1>1
  <2>2. P = P \cup N  OBVIOUS
  <2> HIDE DEF N
  <2>3. FilesStay(a, P, d)  BY <2>1, <2>2, StaysOn
  <2>4. FilesStay(d, E, f)  BY <1>8 DEF FilesStay, Emptier
  <2>5. Q = P \cup E  OBVIOUS
  <2> HIDE DEF Q
  <2> QED  BY <2>3, <2>4, <2>5, StaysOn
<1>11. Q \cap H = {}  BY <1>0
<1> HIDE DEF Q
<1>12. VolumeMade(a, H, q.v)  BY <1>9, <1>10, <1>11 DEF VolumeMade
<1> DEFINE n == q.v
           s == SyncFs(n)
<1>13. r = s /\ n = q.v  BY <1>6, <1>7 DEF EntryGone, Then, Goes, q
<1> HIDE DEF n
<1> QED  BY <1>12, <1>13, SyncedMade

\* f_rename after both paths were followed.
LEMMA RenamedMade ==
  ASSUME NEW u, NEW a, NEW H, Sees(u, a, {}, H), H \subseteq Living(a), NEW t, NEW old, HasObject(a, t, old, u),
         NEW po, po = PlaceAt(old), po \notin H, NEW e, ObjectSeen(u, a, po, e), NEW v, Sees(v, a, {}, H),
         NEW y, NEW new, HasName(a, y, new), NEW r, r = RenameTo(v, old, e, new)
  PROVE  VolumeMade(a, H, r.v)
<1> DEFINE g == DirRegister(v, new)
           x == Called(e, g.dj.fn)
           w == Store(g.v, g.dj, x)
           dj == g.dj
<1>1. g = DirRegister(v, new) /\ x = Called(e, dj.fn) /\ w = Store(g.v, dj, x) /\ x = Called(e, g.dj.fn) /\ w = Store(g.v, g.dj, x)
  OBVIOUS
<1>2. InTable(a, y, new) /\ new.fn \notin Dots  BY DEF HasName
<1>3. Picture(a, {}, H)  BY DEF Sees
<1> HIDE DEF g, x, w
<1>4. IF Goes(g) THEN r = Renamed(w, old, e, new) ELSE r = g  BY <1>1, RenameParts
<1>5. Registered(a, H, g)  BY <1>1, <1>2, DirRegisters
<1>6. CASE ~Goes(g)
  <2>1. PICK b : Later(a, {}, b) /\ Sees(g.v, b, {}, H)  BY <1>5, <1>6 DEF Registered
  <2>2. r.v = g.v  BY <1>4, <1>6
  <2>3. VolumeMade(b, H, r.v)  BY <2>1, <2>2, VolumeKept
  <2> QED  BY <2>1, <2>3, MadeLater
<1>7. CASE Goes(g)
  <2> DEFINE E == {po}
             k == g.v
  <2>1. PICK b, p : NewObject(a, H, g.v, g.dj, b, p)  BY <1>5, <1>7 DEF Registered
  <2> DEFINE P == {p}
  <2>2. po \in Living(a) \ H /\ e = Row(a.rows, po)  BY DEF ObjectSeen
  <2>3. NewObject(a, H, k, dj, b, p) /\ w = Store(k, dj, x) /\ E = {po} /\ P = {p}
    BY <1>1, <2>1
  <2> HIDE DEF E, P, dj, k
  <2>4. PICK c : TwoEntries(a, H, E, p, e, w, c) /\ FilesStay(a, P, c)
    <3>1. x = Called(e, dj.fn)  BY <1>1
    <3> HIDE DEF x, w
    <3> QED  BY <1>3, <2>2, <2>3, <3>1, EntryCalled
  <2> DEFINE m == MovedDots(w, old, e, new)
             f == m.v
  <2>5. new.sclust \in 0..(NFatEnt - 1)
    <3> DEFINE K == {}
    <3>1. Picture(a, K, H)  BY <1>3
    <3> HIDE DEF K
    <3> QED  BY <1>2, <3>1, ParentIs
  <2>6. m = MovedDots(w, old, e, new) /\ f = m.v  OBVIOUS
  <2> HIDE DEF m
  <2>7. Goes(m) /\ \E d : DotsPointed(c, E, H, m.v, d)  BY <2>4, <2>5, <2>6, DotsGo
  <2>8. PICK d : DotsPointed(c, E, H, f, d)  BY <2>7
  <2>9. r = EntryGone(f, old)  BY <1>4, <1>7, <2>6, <2>7 DEF Renamed, Then, Goes
  <2> HIDE DEF f
  <2> QED  BY <2>2, <2>3, <2>4, <2>8, <2>9, OldGone
<1> QED  BY <1>6, <1>7

\* f_rename.
LEMMA RenameCall ==
  ASSUME NEW v, NEW a, NEW H, Sees(v, a, {}, H), H \subseteq Living(a), NEW path, IsPath(path), NEW to, IsPath(to),
         PathFree(H, FollowPath(v, path)), NEW r, r = FRename(v, path, to)
  PROVE  VolumeMade(a, H, r.v)
<1> DEFINE q == FollowPath(v, path)
           u == q.v
           old == q.dj
           e == Entry(u, old)
           s == FollowPath(u, to)
           x == s.v
           new == s.dj
           po == PlaceAt(old)
           m == RenameTo(x, old, e, new)
<1>1. r = IF Goes(q) THEN IF old.root THEN Failed(u, "FR_NO_FILE") ELSE RenameFound(s, old, e) ELSE q
  <2>1. r = ThenAt(q, LAMBDA w, d : IF d.root THEN Failed(w, "FR_NO_FILE") ELSE RenameFound(FollowPath(w, to), d, Entry(w, d)))
    BY DEF FRename
  <2> HIDE DEF q
  <2> QED  BY <2>1 DEF ThenAt, Goes
<1>2. /\ q = FollowPath(v, path) /\ s = FollowPath(u, to) /\ m = RenameTo(x, old, e, new) /\ po = PlaceAt(old)
      /\ u = q.v /\ old = q.dj /\ x = s.v /\ new = s.dj /\ e = Entry(u, old) /\ PathFree(H, q)
  OBVIOUS
<1> HIDE DEF q, s, m
<1>3. /\ Sees(u, a, {}, H)
      /\ Goes(q) /\ ~old.root => (\E t : HasObject(a, t, old, u)) /\ ObjectSeen(u, a, po, e)
  <2>1. /\ Sees(q.v, a, {}, H) /\ q.dj.root = (path = <<>>)
        /\ Goes(q) /\ path # <<>> =>
             (\E f : HasObject(a, f, q.dj, q.v)) /\ ObjectSeen(q.v, a, PlaceAt(q.dj), Entry(q.v, q.dj))
    BY <1>2, PathLeads
  <2> QED  BY <2>1
<1>4. Goes(q) /\ ~old.root => po \notin H  BY <1>2 DEF PathFree
<1> HIDE DEF u, old, e, po
<1>5. Sees(s.v, a, {}, H) /\ (s.res = "FR_NO_FILE" => \E t : HasName(a, t, s.dj))
  BY <1>2, <1>3, PathLeads
<1>6. Sees(x, a, {}, H) /\ (s.res = "FR_NO_FILE" => \E t : HasName(a, t, new))  BY <1>5
<1> HIDE DEF x, new
<1>7. CASE ~Goes(q) \/ old.root
  <2>1. r.v = u  BY <1>1, <1>2, <1>7 DEF Failed
  <2> QED  BY <1>3, <2>1, VolumeKept
<1>8. CASE Goes(q) /\ ~old.root /\ s.res = "FR_NO_FILE"
  <2>1. r = m  BY <1>1, <1>2, <1>8 DEF RenameFound
  <2>2. PICK t : HasObject(a, t, old, u)  BY <1>3, <1>8
  <2>3. PICK y : HasName(a, y, new)  BY <1>6, <1>8
  <2>4. ObjectSeen(u, a, po, e) /\ po \notin H /\ po = PlaceAt(old)  BY <1>2, <1>3, <1>4, <1>8
  <2> QED  BY <1>2, <1>3, <1>6, <2>1, <2>2, <2>3, <2>4, RenamedMade
<1>9. CASE Goes(q) /\ ~old.root /\ s.res # "FR_NO_FILE"
  <2>1. RenameFound(s, old, e) = Failed(s.v, "FR_EXIST") \/ RenameFound(s, old, e) = Failed(s.v, s.res)
    BY <1>9, Zenon DEF RenameFound
  <2>2. r.v = x  BY <1>1, <1>2, <1>9, <2>1 DEF Failed
  <2> QED  BY <1>6, <2>2, VolumeKept
<1> QED  BY <1>7, <1>8, <1>9

----------------------------------------------------------------------------
(* The calls of a session.                                                 *)

\* The entries of open files live.
LEMMA HeldLive ==
  ASSUME NEW a, NEW v, NEW files, NEW K, Whole(a, v, files, K)
  PROVE  HeldBy(files, K) \subseteq Living(a)
BY DEF Whole, HeldBy, ObjectFits

\* What a path leads to is free of the files that are open.
LEMMA FreePath ==
  ASSUME NEW path, NEW H, H = HeldBy(fil, OpenIn(open)), Free(path), NEW q, q = FollowPath(Traced, path)
  PROVE  PathFree(H, q) /\ AllFree(H, q)
<1>1. HeldPlaces = H  BY DEF HeldPlaces, HeldBy, OpenIn
<1>2. Goes(q) /\ ~q.dj.root => PlacesAt(q) \cap H = {}  BY <1>1 DEF Free, Goes
<1>3. PlaceAt(q.dj) \in PlacesAt(q)  BY DEF PlacesAt, PlaceAt
<1>4. Entry(q.v, q.dj).isDir => ShownPlaces(ShownDisk(q.v), Entry(q.v, q.dj).clust) \subseteq PlacesAt(q)
  BY DEF PlacesAt, ShownPlaces
<1> QED  BY <1>2, <1>3, <1>4 DEF PathFree, AllFree

\* The calls that are made by a path, or on the volume.
LEMMA VolumeCalls ==
  ASSUME NEW c \in Calls, ~OnFile(c), Possible(c), AtRest(vol, fil, open), NEW r, r = Result(Traced, c)
  PROVE  AtRest(Faulted(r.v, NoFault), fil, open)
<1> DEFINE v == Traced
           K == OpenIn(open)
           H == HeldBy(fil, K)
<1>1. PICK a : Whole(a, Meets(vol), fil, K)  BY DEF AtRest
<1>2. Meets(vol) = v  BY DEF Meets, Traced
<1>3. Sees(v, a, {}, H) /\ H \subseteq Living(a) /\ H = HeldBy(fil, OpenIn(open)) /\ v = Traced
  BY <1>1, <1>2, HeldLive DEF Whole
<1>4. c.op \in {"rename", "unlink", "mkdir", "stat", "utime", "setlabel", "getlabel"}
  BY CallAssumption DEF CallOps, OnFile
<1>5. c.op \in {"rename", "unlink", "mkdir", "stat", "utime"} => IsPath(c.path)
  BY CallAssumption
<1> HIDE DEF v, K, H
<1>6. VolumeMade(a, H, r.v)
  <2>1. CASE c.op = "rename"
    <3> DEFINE path == c.path
               to == c.to
               q == FollowPath(v, path)
    <3>1. r = FRename(v, path, to)  BY <1>3, <2>1 DEF Result
    <3>2. IsPath(path) /\ IsPath(to)  BY <1>5, <2>1, CallAssumption
    <3>3. Free(path)  BY <2>1 DEF Possible, OnFile
    <3>4. q = FollowPath(Traced, path)  BY <1>3
    <3> HIDE DEF path, to, q
    <3>5. PathFree(H, q)  BY <1>3, <3>3, <3>4, FreePath
    <3>6. PathFree(H, FollowPath(v, path))  BY <3>5 DEF q
    <3> QED  BY <1>3, <3>1, <3>2, <3>6, RenameCall
  <2>2. CASE c.op = "unlink"
    <3> DEFINE path == c.path
               q == FollowPath(v, path)
    <3>1. r = FUnlink(v, path)  BY <1>3, <2>2 DEF Result
    <3>2. IsPath(path) /\ path # <<>>  BY <1>5, <2>2, CallAssumption
    <3>3. Free(path)  BY <2>2 DEF Possible, OnFile
    <3>4. q = FollowPath(Traced, path)  BY <1>3
    <3> HIDE DEF path, q
    <3>5. AllFree(H, q)  BY <1>3, <3>3, <3>4, FreePath
    <3>6. AllFree(H, FollowPath(v, path))  BY <3>5 DEF q
    <3> QED  BY <1>3, <3>1, <3>2, <3>6, UnlinkCall
  <2>3. CASE c.op = "mkdir"
    <3> DEFINE path == c.path
    <3>1. r = FMkdir(v, path) /\ IsPath(path)  BY <1>3, <1>5, <2>3 DEF Result
    <3> HIDE DEF path
    <3> QED  BY <1>3, <3>1, MkdirCall
  <2>4. CASE c.op = "stat"
    <3> DEFINE path == c.path
    <3>1. r = FStat(v, path) /\ IsPath(path)  BY <1>3, <1>5, <2>4 DEF Result
    <3> HIDE DEF path
    <3> QED  BY <1>3, <3>1, StatCall
  <2>5. CASE c.op = "utime"
    <3> DEFINE path == c.path
    <3>1. r = FUtime(v, path) /\ IsPath(path)  BY <1>3, <1>5, <2>5 DEF Result
    <3> HIDE DEF path
    <3> QED  BY <1>3, <3>1, UtimeCall
  <2>6. CASE c.op = "setlabel"
    <3> DEFINE name == c.label
    <3>1. r = FSetlabel(v, name)  BY <1>3, <2>6 DEF Result
    <3> HIDE DEF name
    <3> QED  BY <1>3, <3>1, SetlabelCall
  <2>7. CASE c.op = "getlabel"
    <3>1. r = FGetlabel(v)  BY <1>3, <2>7 DEF Result
    <3> QED  BY <1>3, <3>1, GetlabelCall
  <2> QED  BY <1>4, <2>1, <2>2, <2>3, <2>4, <2>5, <2>6, <2>7
<1> DEFINE w == r.v
<1>7. VolumeMade(a, HeldBy(fil, OpenIn(open)), w)  BY <1>3, <1>6
<1>8. Whole(a, Meets(vol), fil, OpenIn(open))  BY <1>1 DEF K
<1> HIDE DEF w
<1>9. AtRest(Faulted(w, NoFault), fil, open)  BY <1>7, <1>8, VolumeRests
<1> QED  BY <1>9 DEF w

\* f_open.
LEMMA OpenCalls ==
  ASSUME NEW c \in Calls, c.op = "open", Possible(c), AtRest(vol, fil, open), NEW r, r = Result(Traced, c)
  PROVE  AtRest(Faulted(r.v, NoFault), FilesAfter(c, r), OpenAfter(c, r))
<1> DEFINE v == Traced
           K == OpenIn(open)
           H == HeldBy(fil, K)
           path == c.path
           mode == c.mode
           o == c.o
           q == FollowPath(v, path)
           x == [path |-> path, pos |-> 0, mode |-> mode]
<1>1. PICK a : Whole(a, Meets(vol), fil, OpenIn(open))  BY DEF AtRest
<1>2. Meets(vol) = v  BY DEF Meets, Traced
<1>3. Sees(v, a, {}, H) /\ H \subseteq Living(a) /\ H = HeldBy(fil, OpenIn(open)) /\ v = Traced
  BY <1>1, <1>2, HeldLive DEF Whole
<1>4. IsPath(path) /\ mode \in SUBSET Modes /\ o \in Objects  BY CallAssumption DEF OnFile
<1>5. o \in Objects \ OpenIn(open) /\ Free(path)
  <2>1. OnFile(c)  BY DEF OnFile
  <2>2. open[o] = NotOpen /\ Free(path)  BY <2>1, Zenon DEF Possible
  <2> QED  BY <1>4, <2>2 DEF OpenIn
<1>6. x \in Openings
  <2>1. path \in OpenPaths  BY DEF OpenPaths
  <2> QED  BY <1>4, <2>1 DEF Openings
<1>7. r = FOpen(v, path, mode)  BY <1>3 DEF Result
<1>8. FilesAfter(c, r) = Objectwise(fil, o, r.fp)
  BY DEF FilesAfter, FileAfter, OnFile, Objectwise
<1>9. OpenAfter(c, r) = IF Goes(r) THEN OpenAt(open, o, x) ELSE open
  <2>1. CASE r.res = "FR_OK"
    <3>1. OpenAfter(c, r) = [open EXCEPT ![c.o] = [path |-> c.path, pos |-> 0, mode |-> c.mode]]
      BY <2>1 DEF OpenAfter
    <3> QED  BY <2>1, <3>1 DEF Goes, OpenAt
  <2>2. CASE r.res # "FR_OK"
    <3>1. OpenAfter(c, r) = open  BY <2>2 DEF OpenAfter, OnFile
    <3> QED  BY <2>2, <3>1 DEF Goes
  <2> QED  BY <2>1, <2>2
<1>10. q = FollowPath(Traced, path)  BY <1>3
<1> HIDE DEF v, K, H, path, mode, o, x, q
<1>11. PathFree(H, q)  BY <1>3, <1>5, <1>10, FreePath
<1>12. PathFree(H, FollowPath(v, path))  BY <1>11 DEF q
<1>13. OpenMade(a, H, r)  BY <1>3, <1>4, <1>7, <1>12, OpenCall
<1>14. OpenMade(a, HeldBy(fil, OpenIn(open)), r)  BY <1>3, <1>13
<1>15. AtRest(Faulted(r.v, NoFault), Objectwise(fil, o, r.fp), IF Goes(r) THEN OpenAt(open, o, x) ELSE open)
  BY <1>1, <1>5, <1>6, <1>14, OpenRests
<1> QED  BY <1>8, <1>9, <1>15

\* A write or a seek that gets less than it asks for.
GotLess(c, r, op) ==
  \/ c.op = "write" /\ Goes(r) /\ r.did < c.size
  \/ c.op = "lseek" /\ CanWrite(fil[c.o]) /\ op[c.o].pos < c.to
\* What a call leaves.
CallRests(c, r) ==
  LET v == Faulted(r.v, NoFault)
      op == OpenAfter(c, r)
  IN  AtRest(v, FilesAfter(c, r), op) /\ (GotLess(c, r, op) => FullDisk(ShownDisk(v)))

\* The other calls on a file.
LEMMA FileCalls ==
  ASSUME NEW c \in Calls, OnFile(c), c.op # "open", Possible(c), AtRest(vol, fil, open), NEW r, r = Result(Traced, c),
         c.op = "truncate" => ~LeftBehind(r.v, r.fp)
  PROVE  CallRests(c, r)
<1> DEFINE o == c.o
           t == Traced
           fp == fil[o]
           to == c.to
           size == c.size
           data == c.data
           full == FullDisk(ShownDisk(Faulted(r.v, NoFault)))
<1>1. o \in Objects /\ open[o] # NotOpen
  <2>1. o \in Objects  BY CallAssumption
  <2>2. c.op # "rename" /\ c.op # "unlink"  BY DEF OnFile
  <2>3. open[c.o] # NotOpen
    <3> HIDE DEF OnFile
    <3> QED  BY <2>2 DEF Possible
  <2> QED  BY <2>1, <2>3
<1>2. o \in OpenIn(open) /\ fp = fil[o] /\ t = Meets(vol)  BY <1>1 DEF OpenIn, Meets, Traced
<1>3. c.op \in {"lseek", "write", "read", "truncate", "sync", "close"}  BY DEF OnFile
<1>4. c.op # "close" => FilesAfter(c, r) = Objectwise(fil, o, r.fp) /\ OpenAfter(c, r) = OpenTo(open, o, r.fp.fptr)
  <2>1. ASSUME c.op # "close" PROVE OpenAfter(c, r) = [open EXCEPT ![c.o].pos = r.fp.fptr]
    BY <2>1 DEF OpenAfter
  <2> QED  BY <2>1 DEF FilesAfter, FileAfter, Objectwise, OpenTo
<1>5. c.op # "close" /\ MovesTo(r, fil, open, o) =>
        AtRest(Faulted(r.v, NoFault), FilesAfter(c, r), OpenAfter(c, r)) /\ OpenAfter(c, r)[o].pos = r.fp.fptr
  BY <1>4 DEF MovesTo
<1> HIDE DEF t, fp
<1>6. CASE c.op = "lseek"
  <2>1. to \in Nat  BY <1>6, CallAssumption
  <2>2. r = FLseek(t, fp, to)  BY <1>6 DEF Result, t, fp
  <2> HIDE DEF to, o
  <2>3. MovesTo(r, fil, open, o) /\ (CanWrite(fp) /\ r.fp.fptr < to => full)
    BY <1>2, <2>1, <2>2, MoveCalls
  <2>4. GotLess(c, r, OpenAfter(c, r)) => full  BY <1>5, <1>6, <2>3 DEF GotLess, o, to, fp
  <2> QED  BY <1>5, <1>6, <2>3, <2>4 DEF CallRests
<1>7. CASE c.op = "write"
  <2>1. size \in Nat  BY <1>7, CallAssumption
  <2>2. r = FWrite(t, fp, data, size)  BY <1>7 DEF Result, t, fp
  <2> HIDE DEF size, o, data
  <2>3. MovesTo(r, fil, open, o) /\ (Goes(r) /\ r.did < size => full)
    BY <1>2, <2>1, <2>2, MoveCalls
  <2>4. GotLess(c, r, OpenAfter(c, r)) => full  BY <1>7, <2>3 DEF GotLess, size
  <2> QED  BY <1>5, <1>7, <2>3, <2>4 DEF CallRests
<1>8. CASE c.op = "read"
  <2>1. size \in Nat  BY <1>8, CallAssumption
  <2>2. r = FRead(t, fp, size)  BY <1>8 DEF Result, t, fp
  <2> HIDE DEF size, o
  <2>3. MovesTo(r, fil, open, o)  BY <1>2, <2>1, <2>2, MoveCalls
  <2> QED  BY <1>5, <1>8, <2>3 DEF CallRests, GotLess
<1>9. CASE c.op = "truncate"
  <2>1. r = FTruncate(t, fp)  BY <1>9 DEF Result, t, fp
  <2> HIDE DEF o
  <2>2. MovesTo(r, fil, open, o)  BY <1>2, <1>9, <2>1, CutCall
  <2> QED  BY <1>5, <1>9, <2>2 DEF CallRests, GotLess
<1>10. CASE c.op = "sync"
  <2>1. r = FSync(t, fp)  BY <1>10 DEF Result, t, fp
  <2> HIDE DEF o
  <2>2. MovesTo(r, fil, open, o)  BY <1>2, <2>1, MoveCalls
  <2> QED  BY <1>5, <1>10, <2>2 DEF CallRests, GotLess
<1>11. CASE c.op = "close"
  <2>1. r = FClose(t, fp)  BY <1>11 DEF Result, t, fp
  <2> HIDE DEF o
  <2>2. Goes(r) /\ AtRest(Faulted(r.v, NoFault), Objectwise(fil, o, NoFile), OpenAt(open, o, NotOpen))
    BY <1>2, <2>1, CloseCall
  <2>3. FilesAfter(c, r) = Objectwise(fil, o, NoFile)
    BY <1>11, <2>2 DEF FilesAfter, FileAfter, OnFile, Objectwise, Goes, o
  <2>4. OpenAfter(c, r) = OpenAt(open, o, NotOpen)
    <3>1. OpenAfter(c, r) = [open EXCEPT ![c.o] = NotOpen]  BY <1>11, <2>2 DEF OpenAfter, Goes
    <3> QED  BY <3>1 DEF OpenAt, o
  <2> QED  BY <1>11, <2>2, <2>3, <2>4 DEF CallRests, GotLess
<1> QED  BY <1>3, <1>6, <1>7, <1>8, <1>9, <1>10, <1>11

\* A call with no failing access leaves the session at rest.
LEMMA CallKeeps ==
  ASSUME NEW c \in Calls, Possible(c), AtRest(vol, fil, open), NEW r, r = Result(Traced, c),
         c.op = "truncate" => ~LeftBehind(r.v, r.fp)
  PROVE  CallRests(c, r)
<1>1. CASE ~OnFile(c)
  <2>1. AtRest(Faulted(r.v, NoFault), fil, open)  BY <1>1, VolumeCalls
  <2>2. FilesAfter(c, r) = fil  BY <1>1 DEF FilesAfter
  <2>3. OpenAfter(c, r) = open
    <3>1. c.op # "open" /\ c.op # "close"  BY <1>1 DEF OnFile
    <3> QED  BY <1>1, <3>1 DEF OpenAfter
  <2>4. c.op # "write" /\ c.op # "lseek"  BY <1>1 DEF OnFile
  <2> QED  BY <2>1, <2>2, <2>3, <2>4 DEF CallRests, GotLess
<1>2. CASE c.op = "open"
  <2>1. AtRest(Faulted(r.v, NoFault), FilesAfter(c, r), OpenAfter(c, r))  BY <1>2, OpenCalls
  <2> QED  BY <1>2, <2>1 DEF CallRests, GotLess
<1>3. CASE OnFile(c) /\ c.op # "open"  BY <1>3, FileCalls
<1> QED  BY <1>1, <1>2, <1>3

----------------------------------------------------------------------------
(* The steps.                                                              *)

\* The first state of a session.
LEMMA FirstSound ==
  ASSUME Init
  PROVE  SessionSound
<1>1. PICK d \in FirstImages : vol = Mounted(d)  BY DEF Init
<1>2. WellFormed(d)  BY ImageAssumption
<1>3. PICK a : Sees(Meets(vol), a, {}, {})  BY <1>1, <1>2, FirstMet
<1>4. fil = [o \in Objects |-> NoFile] /\ open = [o \in Objects |-> NotOpen]  BY DEF Init
<1>5. OpenIn(open) = {} /\ open \in [Objects -> Openings \cup {NotOpen}] /\ fil = [o \in Objects |-> fil[o]]
  BY <1>4 DEF OpenIn
<1>6. HasFields(vol)  BY <1>1 DEF HasFields, Mounted
<1>7. HeldBy(fil, {}) = {}  BY DEF HeldBy
<1>8. Whole(a, Meets(vol), fil, OpenIn(open))  BY <1>3, <1>5, <1>7 DEF Whole
<1> QED  BY <1>5, <1>6, <1>8 DEF SessionSound, AtRest

\* A step after which the session is sound ends a call without a fault.
SoundStep(c) ==
  LET r == Result(Traced, c)
  IN  /\ Sound /\ Possible(c) /\ (c.op = "truncate" => ~LeftBehind(r.v, r.fp))
      /\ vol' = Faulted(r.v, NoFault) /\ fil' = FilesAfter(c, r) /\ open' = OpenAfter(c, r)
      /\ res' = r.res /\ did' = Did(r) /\ call' = c

\* What is known before a call of a sound session.
LEMMA SoundSteps ==
  ASSUME NEW c \in Calls, Call(c), Sound'
  PROVE  SoundStep(c)
<1> DEFINE r == Result(Traced, c)
<1>1. ~hurt' /\ ~loose'  BY DEF Sound
<1>2. PICK f \in Faults : Finish(c, Result([vol EXCEPT !.fault = f], c), f)  BY DEF Call
<1>3. f = Tracing /\ Ends(c, Result([vol EXCEPT !.fault = f], c))
  BY <1>1, <1>2 DEF Finish, Stops, Errs
<1>4. Ends(c, r)  BY <1>3 DEF Traced
<1> HIDE DEF r
<1>5. ~hurt  BY <1>1, <1>4 DEF Ends
<1>6. ~loose /\ ~(c.op = "truncate" /\ LeftBehind(r.v, r.fp))  BY <1>1, <1>4 DEF Ends, Return
<1>7. /\ vol' = Faulted(r.v, NoFault) /\ fil' = FilesAfter(c, r) /\ open' = OpenAfter(c, r)
      /\ res' = r.res /\ did' = Did(r)
  BY <1>4 DEF Ends, Return, Show, Faulted
<1>8. Possible(c) /\ call' = c  BY DEF Call
<1> QED  BY <1>5, <1>6, <1>7, <1>8 DEF SoundStep, Sound, r

\* f_write says how much it wrote.
LEMMA WriteSays ==
  ASSUME NEW v, NEW fp, NEW d, NEW btw, NEW r, r = FWrite(v, fp, d, btw)
  PROVE  "did" \in DOMAIN r
<1>1. \A q, f, n : "did" \in DOMAIN File(q, f, n)  BY DEF File
<1>2. \A q : "did" \in DOMAIN q => "did" \in DOMAIN Written(q)  BY DEF Written
<1> DEFINE l == Iterate(LAMBDA m : WriteRound(m, d), Left(File(Ok(v), fp, 0), 0, btw), btw)
           q == Returned(l)
<1>3. WriteData(v, fp, d, btw) = Written(q)  BY DEF WriteData
<1>4. "did" \in DOMAIN q
  <2> HIDE DEF l
  <2> QED  BY <1>1 DEF Returned
<1> HIDE DEF q
<1>5. "did" \in DOMAIN WriteData(v, fp, d, btw)  BY <1>2, <1>3, <1>4
<1>6. \/ r = File(Failed(v, "FR_INT_ERR"), fp, 0) \/ r = File(Failed(v, "FR_DENIED"), fp, 0)
      \/ r = WriteData(v, fp, d, btw)
  BY Zenon DEF FWrite
<1> QED  BY <1>1, <1>5, <1>6

\* Every call of a sound session leaves it at rest, and is cut short only by a
\* full disk.
LEMMA SessionStep ==
  ASSUME SessionSound, NEW c \in Calls, Call(c), Sound'
  PROVE  AtRest(vol, fil, open)' /\ (Short(call') => FullDisk(ShownDisk(vol')))
<1> DEFINE r == Result(Traced, c)
<1>1. SoundStep(c)  BY SoundSteps
<1>2. /\ Sound /\ Possible(c) /\ (c.op = "truncate" => ~LeftBehind(r.v, r.fp))
      /\ vol' = Faulted(r.v, NoFault) /\ fil' = FilesAfter(c, r) /\ open' = OpenAfter(c, r)
      /\ res' = r.res /\ did' = Did(r) /\ call' = c
  BY <1>1 DEF SoundStep
<1>3. AtRest(vol, fil, open)  BY <1>2 DEF SessionSound
<1>4. r = Result(Traced, c)  OBVIOUS
<1> HIDE DEF r
<1>5. CallRests(c, r)  BY <1>2, <1>3, <1>4, CallKeeps
<1>6. AtRest(vol', fil', open')  BY <1>2, <1>5 DEF CallRests
<1>7. Short(call') => GotLess(c, r, open')
  <2>1. CASE c.op = "write"
    <3>1. r = FWrite(Traced, fil[c.o], c.data, c.size)  BY <1>4, <2>1 DEF Result
    <3>2. "did" \in DOMAIN r  BY <3>1, WriteSays
    <3>3. did' = r.did  BY <1>2, <3>2 DEF Did
    <3> QED  BY <1>2, <2>1, <3>3 DEF Short, GotLess, Goes
  <2>2. CASE c.op # "write"  BY <1>2, <2>2 DEF Short, GotLess
  <2> QED  BY <2>1, <2>2
<1>8. GotLess(c, r, open') => FullDisk(ShownDisk(vol'))  BY <1>2, <1>5 DEF CallRests
<1> QED  BY <1>6, <1>7, <1>8 DEF AtRest

\* While nothing went wrong, the volume and the open files are of one picture.
THEOREM SessionIsSound == Spec => []SessionSound
<1>1. Init => SessionSound  BY FirstSound
<1>2. SessionSound /\ [Next]_vars => SessionSound'
  <2> SUFFICES ASSUME SessionSound, [Next]_vars, Sound' PROVE AtRest(vol, fil, open)'
    BY DEF SessionSound
  <2>1. CASE UNCHANGED vars
    <3>1. Sound  BY <2>1 DEF Sound, vars
    <3>2. AtRest(vol, fil, open)  BY <3>1 DEF SessionSound
    <3> QED  BY <2>1, <3>2 DEF vars, seen, AtRest
  <2>2. CASE Next
    <3>1. PICK c \in Calls : Call(c)  BY <2>2 DEF Next
    <3> QED  BY <3>1, SessionStep
  <2> QED  BY <2>1, <2>2
<1> QED  BY <1>1, <1>2, PTL DEF Spec

\* A file that is open stays at a cluster of its own chain: the cluster in fp->clust
\* and the sector in fp->dsect are those of its position, whatever f_lseek,
\* f_read, f_write and f_truncate were called before (ff.c).
THEOREM PositionsCached == Spec => []PositionCached
<1>1. SessionSound => PositionCached  BY SoundPositions
<1> QED  BY <1>1, SessionIsSound, PTL

\* The chain of every file and of every open file is as long as its size needs, no
\* cluster more and none less, after any session of calls that no fault disturbed.
THEOREM ChainsFitSizes == Spec => []ChainFitsSize
<1>1. SessionSound => ChainFitsSize  BY SoundFits
<1> QED  BY <1>1, SessionIsSound, PTL

\* f_write and f_lseek stop short of what they were asked for only when the volume
\* has no free cluster left.
THEOREM ShortWhenFull == Spec => ShortOnlyWhenFull
<1>1. SessionSound /\ [Next]_vars => [Sound' /\ Short(call') => FullDisk(ShownDisk(vol'))]_vars
  <2> SUFFICES ASSUME SessionSound, Next, Sound', Short(call') PROVE FullDisk(ShownDisk(vol'))
    OBVIOUS
  <2>1. PICK c \in Calls : Call(c)  BY DEF Next
  <2> QED  BY <2>1, SessionStep
<1> QED  BY <1>1, SessionIsSound, PTL DEF Spec, ShortOnlyWhenFull
=============================================================================
