------------------------------ MODULE FatImage ------------------------------
(***************************************************************************)
(* Images of a volume: what one says to somebody who trusts its entries,   *)
(* and images there are before a program of FatCli or FatSession runs.     *)
(***************************************************************************)
EXTENDS FatFiles

----------------------------------------------------------------------------
(* What an image says to one who trusts its entries.                       *)

\* The clusters of a chain up to its end, or as many as there are: a cycle is cut there.
ChainRound(d, ch) ==
  LET next == d[FatSector(0, ch[Len(ch)])][ch[Len(ch)]]
  IN  IF next \in Clusters THEN Append(ch, next) ELSE ch
Chain(d, c) ==
  IF c \in Clusters THEN Iterate(LAMBDA ch : ChainRound(d, ch), <<c>>, NFatEnt - 1) ELSE <<>>

\* The place of an entry: its sector, and its slot in it.
PlaceIn(sectors, i) == <<sectors[(i - 1) \div PerTable + 1], ((i - 1) % PerTable) + 1>>
Joined(d, sectors) ==
  [i \in 1..(Len(sectors) * PerTable) |->
     AsTable(d[PlaceIn(sectors, i)[1]])[PlaceIn(sectors, i)[2]]]

SectorsOf(d, c) ==
  IF c = 0 /\ ~Fat32 THEN [i \in 1..RootTables |-> RootSector(i - 1)]
  ELSE LET ch == Chain(d, IF c = 0 THEN 2 ELSE c)
       IN  [i \in 1..Len(ch) |-> DataSector(ch[i])]

\* The entries of a table up to its end.
Entries(t) ==
  LET ends == {i \in DOMAIN t : t[i] = EndOfTable}
  IN  IF ends = {} THEN t ELSE SubSeq(t, 1, (CHOOSE i \in ends : \A j \in ends : i <= j) - 1)
EntriesAt(d, c) == Entries(Joined(d, SectorsOf(d, c)))

ObjectsIn(t) ==
  {i \in DOMAIN t : t[i] # Deleted /\ ~IsLfn(t[i]) /\ ~IsLabel(t[i]) /\ t[i].sfn \notin {Dot, DotDot}}

\* The parts of the long name that stand before entry i.
HasLong(t, i, name) ==
  /\ i > Parts[name]
  /\ \A k \in 1..Parts[name] : t[i - k] = Lfn(name, k, t[i].sfn)
NameAt(t, i) ==
  IF \E n \in LongNames : HasLong(t, i, n) THEN CHOOSE n \in LongNames : HasLong(t, i, n)
  ELSE t[i].sfn

\* The entries of all tables, two levels of them.
EntrySet(d, c, at) ==
  LET t == EntriesAt(d, c)
  IN  {[path |-> Append(at, NameAt(t, i)), e |-> t[i], place |-> PlaceIn(SectorsOf(d, c), i)] :
         i \in ObjectsIn(t)}
AllEntries(d) ==
  LET top == EntrySet(d, 0, <<>>)
  IN  top \cup UNION {EntrySet(d, x.e.clust, x.path) : x \in {y \in top : y.e.isDir}}

\* A file has as many clusters as its size needs and begins nowhere when it is empty.
SectorsFor(size) == (size + UnitsPerSector - 1) \div UnitsPerSector
Fits(d, start, size) ==
  /\ Len(Chain(d, start)) = SectorsFor(size)
  /\ (start = 0) = (size = 0)

\* The units of a file of this size whose chain begins at c, as far as the chain goes.
UnitOf(d, ch, i) == AsUnits(d[DataSector(ch[i \div UnitsPerSector + 1])])[i % UnitsPerSector]
Content(d, ch, size) ==
  [i \in 1..Least(size, Len(ch) * UnitsPerSector) |-> UnitOf(d, ch, i - 1)]
BodyOf(d, c, size) == Content(d, Chain(d, c), size)

----------------------------------------------------------------------------
(* Which clusters belong to what.                                          *)

ClustersFrom(d, c) == LET ch == Chain(d, c) IN {ch[i] : i \in 1..Len(ch)}
RootClusters(d) == IF Fat32 THEN ClustersFrom(d, 2) ELSE {}
Used(d) == {z \in AllEntries(d) : z.e.clust \in Clusters}
Lost(d) ==
  LET owned == RootClusters(d) \cup UNION {ClustersFrom(d, z.e.clust) : z \in Used(d)}
  IN  {c \in Clusters : d[FatSector(0, c)][c] # 0 /\ c \notin owned}

\* The entries have chains that end, in which no cluster is free and none belongs to
\* two of them, and no two entries of a directory have one name.
LeadsToEnd(d, ch) == d[FatSector(0, ch[Len(ch)])][ch[Len(ch)]] = LastLink
Apart(d, z, w) == ClustersFrom(d, z.e.clust) \cap ClustersFrom(d, w.e.clust) = {}
Uncrossed(d) ==
  /\ \A z, w \in AllEntries(d) : z.path = w.path => z.e = w.e
  /\ \A z \in Used(d) : /\ LeadsToEnd(d, Chain(d, z.e.clust))
                        /\ ClustersFrom(d, z.e.clust) \cap RootClusters(d) = {}
  /\ \A z, w \in Used(d) : z.path # w.path => Apart(d, z, w)

----------------------------------------------------------------------------
(* Images.                                                                 *)

ImageSectors ==
  FatSectors \cup {DataSector(c) : c \in Clusters}
  \cup (IF Fat32 THEN {FsInfo} ELSE {RootSector(k) : k \in 0..(RootTables - 1)})

\* An entry of a table, and one of an object.
IsObject(e) == "sfn" \in DOMAIN e /\ e.sfn \notin {Dot, DotDot}
IsEntry(e) ==
  \/ Blank(e)
  \/ /\ IsLfn(e) /\ e = [lfn |-> e.lfn, ord |-> e.ord, last |-> e.last, sum |-> e.sum]
     /\ e.ord \in 1..20 /\ e.sum \notin {Dot, DotDot}
  \/ IsLabel(e) /\ e = Label(e.label)
  \/ /\ "sfn" \in DOMAIN e /\ e = Sfn(e.sfn, e.isDir, e.ro, e.clust, e.size)
     /\ e.isDir \in BOOLEAN /\ e.clust \in 0..(NFatEnt - 1) /\ e.size \in Nat

\* The sectors of tables whose chains begin at these clusters.
TablesFrom(d, heads) ==
  (IF Fat32 THEN {} ELSE {RootSector(k) : k \in 0..(RootTables - 1)})
    \cup {DataSector(c) : c \in UNION {ClustersFrom(d, h) : h \in heads}}
PlacesIn(d, sectors) == {p \in sectors \X (1..PerTable) : IsObject(d[p[1]][p[2]])}

\* A chain that ends and comes to no cluster twice.
IsChain(d, ch) ==
  /\ \A i, j \in DOMAIN ch : ch[i] = ch[j] => i = j
  /\ \A i \in DOMAIN ch :
       d[FatSector(0, ch[i])][ch[i]] = IF i < Len(ch) THEN ch[i + 1] ELSE LastLink

\* An image made by the library, or by one that keeps to the same rules: the chains with
\* these heads are apart, those of tables hold entries, and every entry of an object has a
\* chain of its own that fits.
Owns(d, e, heads, tables) ==
  IF e.isDir THEN e.clust \in tables /\ (Fat32 => e.clust # 2)
  ELSE e.clust \in {0} \cup (heads \ tables) /\ Fits(d, e.clust, e.size)
ChainsAre(d, heads) ==
  /\ \A h \in heads : IsChain(d, Chain(d, h))
  /\ \A h, g \in heads : h # g => ClustersFrom(d, h) \cap ClustersFrom(d, g) = {}
TablesAre(d, heads, tables) ==
  LET sectors == TablesFrom(d, tables)
      places == PlacesIn(d, sectors)
      start(p) == d[p[1]][p[2]].clust
  IN  /\ \A s \in sectors : DOMAIN d[s] = 1..PerTable /\ \A i \in 1..PerTable : IsEntry(d[s][i])
      /\ \A p \in places : Owns(d, d[p[1]][p[2]], heads, tables)
      /\ \A p, q \in places : p # q /\ start(p) = start(q) => start(p) = 0
WellFormed(d) ==
  /\ d = [s \in ImageSectors |-> d[s]]
  /\ \A s \in FatSectors : d[s] \in [EntriesOf(s[3]) -> 0..LastLink]
  /\ \A c \in Clusters : d[FatSector(0, c)][c] # 1
  /\ \E heads \in SUBSET Clusters : \E tables \in SUBSET heads :
       /\ Fat32 => 2 \in tables
       /\ ChainsAre(d, heads) /\ TablesAre(d, heads, tables)

\* What the command mkfs leaves: it fills the image with 0 first.
Formatted ==
  [s \in ImageSectors |->
     CASE s[1] = "info" -> [free |-> NFatEnt - 3, last |-> 2]
       [] s[1] = "fat"  -> [c \in EntriesOf(s[3]) |->
                              IF c < 2 \/ (Fat32 /\ c = 2) THEN LastLink ELSE 0]
       [] OTHER         -> EmptyTable]

\* A file that another program has made, and made read-only.
Locked(name, d) ==
  LET c == IF Fat32 THEN 3 ELSE 2
  IN  [s \in ImageSectors |->
         CASE s \in {RootSector(0), DataSector(c - 1)} ->
                [EmptyTable EXCEPT ![1] = Sfn(name, FALSE, TRUE, c, 1)]
           [] s = DataSector(c) -> Full(d)
           [] s[1] = "info" -> [Formatted[s] EXCEPT !.free = @ - 1]
           [] s[1] = "fat" /\ s[3] = c \div PerSector -> [Formatted[s] EXCEPT ![c] = LastLink]
           [] OTHER -> Formatted[s]]
=============================================================================
