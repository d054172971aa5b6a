------------------------------ MODULE FatDirs ------------------------------
(***************************************************************************)
(* Directories of the FatFs library, fatcli/src/ff.c: tables of entries in *)
(* the static root directory of a FAT16 volume or in a chain of clusters,  *)
(* searched, extended and changed through the window of FatVolume.         *)
(*                                                                         *)
(* A name has an 8.3 form and perhaps a long one, kept in entries of its   *)
(* own before the entry of the object.  The 8.3 form of a name that does   *)
(* not fit into one gets a number that makes it unique.  Characters are    *)
(* left out: a name is <<text, number>>, number 0 where there is none.     *)
(*                                                                         *)
(* A directory object (DIR) is a record: sclust, index, clust and sect as  *)
(* in ff.h; dir is not in it, for it always points to the slot of index in *)
(* the window; lfnIdx is lfn_idx; fn and lfn are the name looked for, loss *)
(* the flag NS_LOSS of fn; and root says that the path was empty.          *)
(***************************************************************************)
EXTENDS FatVolume

CONSTANTS
  PerTable,    \* entries in a sector
  RootTables,  \* sectors of the static root directory (FAT16)
  LongNames,   \* the names that have a long form,
  Parts,       \* how many entries it takes,
  Base         \* and the text of their 8.3 form

ASSUME TableAssumption == PerTable \in Nat /\ PerTable > 1 /\ RootTables \in Nat
ASSUME NameAssumption ==
  /\ DOMAIN Parts = LongNames /\ DOMAIN Base = LongNames
  /\ \A n \in LongNames : Parts[n] \in 1..20

NoName == <<"", 0>>
NoLfn == 65535
NoOrd == 255

\* Entries whose name begins with 0 or DDE.
EndOfTable == [blank |-> 0]
Deleted == [blank |-> 229]

\* Entries of the table: of a file or directory, and of one part of a long name.
Sfn(name, isDir, ro, clust, size) ==
  [sfn |-> name, isDir |-> isDir, ro |-> ro, clust |-> clust, size |-> size]
Lfn(name, ord, sum) ==
  [lfn |-> name, ord |-> ord, last |-> ord = Parts[name], sum |-> sum]
IsLfn(e) == "lfn" \in DOMAIN e

\* The volume label is an entry of the root directory.
Label(name) == [label |-> name]
IsLabel(e) == "label" \in DOMAIN e

Dot == <<".", 0>>
DotDot == <<"..", 0>>
ASSUME BaseAssumption == \A n \in LongNames : <<Base[n], 0>> \notin {Dot, DotDot}

Table(f(_)) == [i \in 1..PerTable |-> f(i)]
EmptyTable == [i \in 1..PerTable |-> EndOfTable]

\* What a sector of a file shows to one that takes it for a table.
Junk == Sfn(<<"junk", 0>>, FALSE, FALSE, 2, 1)
AsTable(content) ==
  IF DOMAIN content = 1..PerTable THEN content ELSE [i \in 1..PerTable |-> Junk]

\* clust2sect, one sector to a cluster. Sectors of the static root have their own names.
DataSector(c) == <<"data", c>>
RootSector(k) == <<"root", k>>
TableSectors ==
  {DataSector(c) : c \in Clusters} \cup {RootSector(k) : k \in 0..(RootTables - 1)}
ASSUME NoTableAssumption == NoSector \notin TableSectors

----------------------------------------------------------------------------
(* A function on a directory leaves the volume, the object and a result.   *)

With(r, dj) == [v |-> r.v, dj |-> dj, res |-> r.res]
Done(v, dj) == With(Ok(v), dj)
Fails(v, dj, res) == With(Failed(v, res), dj)
ThenAt(r, Rest(_, _)) == IF r.res = "FR_OK" THEN Rest(r.v, r.dj) ELSE r

Load(v, dj) ==
  ThenAt(With(MoveWindow(v, dj.sect), dj),
         LAMBDA w, d : Done([w EXCEPT !.win = AsTable(@)], d))

Slot(dj) == (dj.index % PerTable) + 1
Entry(v, dj) == v.win[Slot(dj)]
Store(v, dj, e) == [v EXCEPT !.win[Slot(dj)] = e, !.dirty = TRUE]

----------------------------------------------------------------------------
(* dir_sdi and dir_next.                                                   *)

\* From the start of cluster c through the entries of the FAT, a cluster a round.
Seeking(v, c, res) == [v |-> v, clst |-> c, res |-> res]

\* g is the entry of the cluster before.
SeekNext(g) ==
  CASE g.val = Max32      -> Seeking(g.v, 0, "FR_DISK_ERR")
    [] g.val \in Clusters -> Seeking(g.v, g.val, "FR_OK")
    [] OTHER              -> Seeking(g.v, 0, "FR_INT_ERR")
SeekRound(l) == IF l.res = "FR_OK" THEN SeekNext(GetFat(l.v, l.clst)) ELSE l

Reached(l, dj) ==
  IF l.res = "FR_OK" THEN Done(l.v, [dj EXCEPT !.clust = l.clst, !.sect = DataSector(l.clst)])
  ELSE Fails(l.v, dj, l.res)
SeekFrom(v, dj, c, idx) ==
  Reached(Iterate(SeekRound, Seeking(v, c, "FR_OK"), idx \div PerTable), dj)

SeekStatic(v, dj, idx) ==
  IF idx >= RootTables * PerTable THEN Fails(v, dj, "FR_INT_ERR")
  ELSE Done(v, [dj EXCEPT !.clust = 0, !.sect = RootSector(idx \div PerTable)])

SeekAt(v, dj, idx) ==
  CASE dj.sclust = 1 \/ dj.sclust >= NFatEnt -> Fails(v, dj, "FR_INT_ERR")
    [] dj.sclust = 0 /\ ~Fat32               -> SeekStatic(v, dj, idx)
    [] OTHER -> SeekFrom(v, dj, IF dj.sclust = 0 THEN 2 ELSE dj.sclust, idx)

DirSdi(v, dj, idx) == SeekAt(v, [dj EXCEPT !.index = idx], idx)

Enter(v, dj, c) ==
  Done(v, [dj EXCEPT !.index = @ + 1, !.clust = c, !.sect = DataSector(c)])

\* The new cluster, which the table already leads to, is filled with 0.
Cleaned(w, c) == [w EXCEPT !.win = EmptyTable, !.sect = DataSector(c), !.dirty = TRUE]
Clean(r, c) == IF r.res = "FR_OK" THEN SyncWindow(Cleaned(r.v, c)) ELSE r
CleanUp(v, dj, c) ==
  ThenAt(With(Clean(SyncWindow(v), c), dj), LAMBDA w, d : Enter(w, d, c))

StretchTable(r, dj) ==
  CASE r.val = 0     -> Fails(r.v, dj, "FR_DENIED")
    [] r.val = 1     -> Fails(r.v, dj, "FR_INT_ERR")
    [] r.val = Max32 -> Fails(r.v, dj, "FR_DISK_ERR")
    [] OTHER         -> CleanUp(r.v, dj, r.val)

\* g is the entry of the cluster that ends here.
NextCluster(g, dj, stretch) ==
  CASE g.val <= 1          -> Fails(g.v, dj, "FR_INT_ERR")
    [] g.val = Max32       -> Fails(g.v, dj, "FR_DISK_ERR")
    [] g.val \in Clusters  -> Enter(g.v, dj, g.val)
    [] OTHER ->
         IF stretch THEN StretchTable(CreateChain(g.v, dj.clust), dj)
         ELSE Fails(g.v, dj, "FR_NO_FILE")

NextStatic(v, dj) ==
  IF dj.index + 1 >= RootTables * PerTable THEN Fails(v, dj, "FR_NO_FILE")
  ELSE Done(v, [dj EXCEPT !.index = @ + 1, !.sect = RootSector((dj.index + 1) \div PerTable)])

DirNext(v, dj, stretch) ==
  CASE (dj.index + 1) % PerTable # 0 -> Done(v, [dj EXCEPT !.index = @ + 1])
    [] (dj.index + 1) % PerTable = 0 /\ dj.clust = 0 -> NextStatic(v, dj)
    [] OTHER -> NextCluster(GetFat(v, dj.clust), dj, stretch)

----------------------------------------------------------------------------
(* What a loop over the entries of a table makes of one, given what it     *)
(* made of the one before (st): the result, or that it goes on ("more").   *)

Said(v, dj, res, st) == [v |-> v, dj |-> dj, res |-> res, st |-> st]

Blank(e) == e \in {EndOfTable, Deleted}

\* dir_alloc: st.n blank entries, of st.nent, precede the one in the window.
AllocSays(v, dj, nent, n) ==
  Said(v, dj, IF n = nent THEN "FR_OK" ELSE "more", [n |-> n, nent |-> nent])

\* Mutant of AllocLook: the entries need not be contiguous.
AllocLookScattered(v, dj, st) ==
  AllocSays(v, dj, st.nent, IF Blank(Entry(v, dj)) THEN st.n + 1 ELSE st.n)

AllocLook(v, dj, st) ==
  AllocSays(v, dj, st.nent, IF Blank(Entry(v, dj)) THEN st.n + 1 ELSE 0)

\* A part of a long name: the order number and the sum that must come next, and
\* where the sequence began.
PartOf(e, dj, st) ==
  LET o == IF e.last THEN e.ord ELSE st.ord
      s == IF e.last THEN e.sum ELSE st.sum
  IN  [ord |-> IF e.ord = o /\ e.sum = s /\ e.lfn = dj.lfn THEN o - 1 ELSE NoOrd,
       sum |-> s,
       dj  |-> IF e.last THEN [dj EXCEPT !.lfnIdx = dj.index] ELSE dj]

Seeks(v, dj, ord, sum) == Said(v, dj, "more", [ord |-> ord, sum |-> sum])
FromHere == [ord |-> NoOrd, sum |-> NoName]

\* dir_find.
FindPart(v, p) == Seeks(v, p.dj, p.ord, p.sum)
FindSfn(v, dj, e, st) ==
  CASE st.ord = 0 /\ st.sum = e.sfn -> Said(v, dj, "FR_OK", st)
    [] ~(st.ord = 0 /\ st.sum = e.sfn) /\ ~dj.loss /\ e.sfn = dj.fn ->
         Said(v, [dj EXCEPT !.lfnIdx = NoLfn], "FR_OK", st)
    [] OTHER -> Seeks(v, [dj EXCEPT !.lfnIdx = NoLfn], NoOrd, st.sum)
FindAt(v, dj, e, st) ==
  CASE e = EndOfTable -> Said(v, dj, "FR_NO_FILE", st)
    [] e # EndOfTable /\ (e = Deleted \/ IsLabel(e)) -> Seeks(v, dj, NoOrd, st.sum)
    [] ~Blank(e) /\ IsLfn(e) ->
         IF dj.lfn = NoName THEN Said(v, dj, "more", st) ELSE FindPart(v, PartOf(e, dj, st))
    [] OTHER -> FindSfn(v, dj, e, st)
FindLook(v, dj, st) == FindAt(v, dj, Entry(v, dj), st)

\* dir_read (vol = 0): the next object of a table but for the dot entries. lfn
\* becomes its long name, if it has one.
ReadPart(v, p, name) == Seeks(v, [p.dj EXCEPT !.lfn = name], p.ord, p.sum)
ReadAt(v, dj, e, st) ==
  CASE e = EndOfTable -> Said(v, dj, "FR_NO_FILE", st)
    [] e # EndOfTable /\ (e = Deleted \/ IsLabel(e)) -> Seeks(v, dj, NoOrd, st.sum)
    [] ~Blank(e) /\ IsLfn(e) -> ReadPart(v, PartOf(e, [dj EXCEPT !.lfn = e.lfn], st), e.lfn)
    [] OTHER ->
         IF e.sfn \in {Dot, DotDot} THEN Seeks(v, dj, NoOrd, st.sum)
         ELSE Said(v, IF st.ord = 0 /\ st.sum = e.sfn THEN dj ELSE [dj EXCEPT !.lfnIdx = NoLfn],
                   "FR_OK", st)
ReadLook(v, dj, st) == ReadAt(v, dj, Entry(v, dj), st)

\* dir_read (vol = 1): the volume label.
LabelLook(v, dj, st) ==
  CASE Entry(v, dj) = EndOfTable -> Said(v, dj, "FR_NO_FILE", st)
    [] ~Blank(Entry(v, dj)) /\ IsLabel(Entry(v, dj)) -> Said(v, dj, "FR_OK", st)
    [] OTHER -> Said(v, dj, "more", st)

\* dir_register: the long name, the last part first, and on to the entry behind it.
StoreLook(v, dj, ord) ==
  IF ord = 0 THEN Said(v, dj, "FR_OK", 0)
  ELSE Said(Store(v, dj, Lfn(dj.lfn, ord, dj.fn)), dj, "more", ord - 1)

\* dir_remove: the entries to the one of index i.
DeleteLook(v, dj, i) ==
  Said(Store(v, dj, Deleted), dj, IF dj.index >= i THEN "FR_OK" ELSE "more", i)

----------------------------------------------------------------------------
(* The loops, from the entry of dj on.                                     *)

Look(loop, v, dj, st) ==
  CASE loop = "alloc"  -> AllocLook(v, dj, st)
    [] loop = "find"   -> FindLook(v, dj, st)
    [] loop = "read"   -> ReadLook(v, dj, st)
    [] loop = "label"  -> LabelLook(v, dj, st)
    [] loop = "store"  -> StoreLook(v, dj, st)
    [] loop = "delete" -> DeleteLook(v, dj, st)

\* Only dir_alloc stretches the table.
StepOn(r, st) == Said(r.v, r.dj, IF r.res = "FR_OK" THEN "more" ELSE r.res, st)
Onward(l, loop) ==
  IF l.res = "more" THEN StepOn(DirNext(l.v, l.dj, loop = "alloc"), l.st) ELSE l
LookIf(r, loop, st) ==
  IF r.res = "FR_OK" THEN Look(loop, r.v, r.dj, st) ELSE Said(r.v, r.dj, r.res, st)
ScanRound(l, loop) ==
  IF l.res = "more" THEN Onward(LookIf(Load(l.v, l.dj), loop, l.st), loop) ELSE l

\* More rounds than any table has entries.
MaxRounds == (NFatEnt + RootTables) * PerTable
Scan(loop, v, dj, st) ==
  LET end == Iterate(LAMBDA l : ScanRound(l, loop), Said(v, dj, "more", st), MaxRounds)
  IN  With(end, end.dj)

DirAlloc(v, dj, nent) ==
  ThenAt(DirSdi(v, dj, 0), LAMBDA w, d : Scan("alloc", w, d, [n |-> 0, nent |-> nent]))
DirFind(v, dj) == ThenAt(DirSdi(v, dj, 0), LAMBDA w, d : Scan("find", w, d, FromHere))
DirRead(v, dj) == Scan("read", v, dj, FromHere)
ReadLabel(v, dj) == Scan("label", v, dj, <<>>)

----------------------------------------------------------------------------
(* dir_register and dir_remove.                                            *)

\* gen_numname and dir_find until the numbered name is not taken.
Numbering(v, dj, n) ==
  [v |-> v, dj |-> [dj EXCEPT !.fn = <<dj.fn[1], n>>], res |-> "more", n |-> n]
Numbered(r, n) ==
  CASE r.res = "FR_NO_FILE" -> [v |-> r.v, dj |-> r.dj, res |-> "FR_OK", n |-> n]
    [] r.res = "FR_OK"      -> Numbering(r.v, r.dj, n + 1)
    [] OTHER                -> [v |-> r.v, dj |-> r.dj, res |-> r.res, n |-> n]
NumberRound(l) == IF l.res = "more" THEN Numbered(DirFind(l.v, l.dj), l.n) ELSE l

\* The 99 numbers there are, in 9 lots.
NumberRounds(l) == IF l.res = "more" THEN Iterate(NumberRound, l, 11) ELSE l
NumberedName(v, dj) ==
  LET end == Iterate(NumberRounds, Numbering(v, dj, 1), 9)
  IN  IF end.res = "more" THEN Fails(end.v, end.dj, "FR_DENIED") ELSE With(end, end.dj)

Named(v, dj) ==
  IF dj.loss
  THEN ThenAt(NumberedName(v, [dj EXCEPT !.lfn = NoName, !.loss = FALSE]),
              LAMBDA w, d : Done(w, [d EXCEPT !.lfn = dj.lfn, !.loss = TRUE]))
  ELSE Done(v, dj)

EntriesFor(dj) == IF dj.lfn \in LongNames THEN Parts[dj.lfn] + 1 ELSE 1

StoreLfn(v, dj, ne) ==
  IF ne = 1 THEN Done(v, dj)
  ELSE ThenAt(DirSdi(v, dj, dj.index - (ne - 1)), LAMBDA w, d : Scan("store", w, d, ne - 1))

\* Leaves the new entry in the window.
DirRegister(v, dj) ==
  ThenAt(Named(v, dj), LAMBDA w, d :
  ThenAt(DirAlloc(w, d, EntriesFor(d)), LAMBDA x, a :
  ThenAt(StoreLfn(x, a, EntriesFor(a)), LAMBDA y, s :
  ThenAt(Load(y, s), LAMBDA z, t : Done(Store(z, t, Sfn(t.fn, FALSE, FALSE, 0, 0)), t)))))

DirRemove(v, dj) ==
  LET r == ThenAt(DirSdi(v, dj, IF dj.lfnIdx = NoLfn THEN dj.index ELSE dj.lfnIdx),
                  LAMBDA w, d : Scan("delete", w, d, dj.index))
  IN  IF r.res = "FR_NO_FILE" THEN [r EXCEPT !.res = "FR_INT_ERR"] ELSE r

----------------------------------------------------------------------------
(* create_name and follow_path.                                            *)

CreateName(dj, name) ==
  [dj EXCEPT !.lfn = name,
             !.fn = IF name \in LongNames THEN <<Base[name], 0>> ELSE name,
             !.loss = name \in LongNames]

\* r is what dir_find found of the first segment of path; then path is what is left of it.
Walking(r, dj, res, path) == [v |-> r.v, dj |-> dj, res |-> res, path |-> path]
Walk(r, path) ==
  CASE Len(path) = 1 -> Walking(r, r.dj, r.res, <<>>)
    [] Len(path) > 1 /\ r.res = "FR_NO_FILE" -> Walking(r, r.dj, "FR_NO_PATH", path)
    [] Len(path) > 1 /\ r.res = "FR_OK" ->
         IF Entry(r.v, r.dj).isDir
         THEN Walking(r, [r.dj EXCEPT !.sclust = Entry(r.v, r.dj).clust], "more", Tail(path))
         ELSE Walking(r, r.dj, "FR_NO_PATH", path)
    [] OTHER -> Walking(r, r.dj, r.res, path)
WalkRound(l) ==
  IF l.res = "more" THEN Walk(DirFind(l.v, CreateName(l.dj, Head(l.path))), l.path) ELSE l

Follow(v, dj, path) ==
  LET end == Iterate(WalkRound, Walking(Ok(v), dj, "more", path), Len(path)) IN With(end, end.dj)

RootDir(isRoot) ==
  [sclust |-> 0, index |-> 0, clust |-> 0, sect |-> NoSector, lfnIdx |-> NoLfn,
   fn |-> NoName, lfn |-> NoName, loss |-> FALSE, root |-> isRoot]

FollowPath(v, path) ==
  IF path = <<>> THEN DirSdi(v, RootDir(TRUE), 0) ELSE Follow(v, RootDir(FALSE), path)
=============================================================================
