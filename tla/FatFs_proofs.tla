---------------------------- MODULE FatFs_proofs ----------------------------
(***************************************************************************)
(* Lemmas about the functions of the library. First about the operators of *)
(* FatVolume: what each leaves of the FAT that the program sees and of the *)
(* one on the disk, whatever access of it fails and wherever the machine   *)
(* stops. Then about those of FatFiles and FatDirs while nothing fails:    *)
(* what a call on a file leaves of its chain, and what a walk through a    *)
(* table finds.                                                            *)
(***************************************************************************)
EXTENDS FatImage, FatCalls, FiniteSetTheorems, WellFoundedInduction, TLAPS

----------------------------------------------------------------------------
(* Volumes.                                                                *)

FatEntries == 0..(NFatEnt - 1)
Link == 0..LastLink
Fats == [FatEntries -> Link]

\* Sectors that come into the window.
FirstCopy == {FatSector(0, c) : c \in FatEntries}
SecondOf(s) == <<"fat", 1, s[3]>>
FirstOf(s) == <<"fat", 0, s[3]>>

IsDisk(d) ==
  /\ d = [s \in FatSectors \cup {FsInfo} |-> d[s]]
  /\ \A s \in FatSectors : d[s] \in [EntriesOf(s[3]) -> Link]

HasFields(v) ==
  v = [disk |-> v.disk, win |-> v.win, sect |-> v.sect, dirty |-> v.dirty,
       last |-> v.last, free |-> v.free, info |-> v.info, fault |-> v.fault]

AheadFaults == [kind : {"read", "write", "crash"}, left : Nat]
IsFault(f) ==
  \/ f = NoFault
  \/ f \in AheadFaults
  \/ f = StoppedWith(f.image) /\ IsDisk(f.image)

\* A volume as chk_mounted and all that comes after it leave it; a window to be written
\* back has a sector.
IsVolume(v) ==
  /\ HasFields(v) /\ IsDisk(v.disk) /\ v.dirty \in BOOLEAN /\ IsFault(v.fault)
  /\ v.sect \in FirstCopy \cup {NoSector} /\ (v.dirty => v.sect # NoSector)
  /\ v.sect \in FirstCopy => v.win \in [EntriesOf(v.sect[3]) -> Link]
  /\ v.sect \in FirstCopy /\ ~v.dirty => v.win = v.disk[v.sect]

\* The FAT on a disk, and the one the program sees.
DiskFat(d) == [c \in FatEntries |-> d[FatSector(0, c)][c]]
Fat(v) == [c \in FatEntries |-> FatEntry(v, c)]

Mirrored(d) == \A s \in FatSectors : d[s] = d[FirstOf(s)]

\* Is what may go wrong that the machine stops?
Crashing(v) == v.fault.kind \in {"crash", "stopped"}

----------------------------------------------------------------------------
(* Sectors.                                                                *)

\* The sectors of the FAT: each has its entries, and the copies are apart.
LEMMA Sectors ==
  /\ \A c \in FatEntries : FatSector(0, c) \in FirstCopy /\ c \in EntriesOf(FatSector(0, c)[3])
  /\ FirstCopy \subseteq FatSectors
  /\ \A s \in FirstCopy : \A c \in EntriesOf(s[3]) : c \in FatEntries /\ FatSector(0, c) = s
  /\ \A s \in FatSectors : FirstOf(s) \in FirstCopy /\ FirstOf(s)[3] = s[3]
  /\ \A s \in FirstCopy : FirstOf(s) = s /\ SecondOf(s) \notin FirstCopy
  /\ NFats = 2 => \A s \in FirstCopy : SecondOf(s) \in FatSectors
  /\ FsInfo \notin FatSectors
  /\ NoSector \notin FatSectors /\ NoSector # FsInfo
<1>0. FatEntries = 0..(NFatEnt - 1) /\ 0 \in 0..(NFats - 1) /\ NFats \in Nat
  BY GeometryAssumption DEF FatEntries
<1>1. ASSUME NEW c \in FatEntries
      PROVE  FatSector(0, c) \in FirstCopy /\ c \in EntriesOf(FatSector(0, c)[3])
  BY <1>0 DEF FirstCopy, EntriesOf, FatSector
<1>2. FirstCopy \subseteq FatSectors
  BY <1>0 DEF FirstCopy, FatSectors
<1>3. ASSUME NEW s \in FirstCopy, NEW c \in EntriesOf(s[3])
      PROVE  c \in FatEntries /\ FatSector(0, c) = s
  <2>1. PICK d \in FatEntries : s = <<"fat", 0, d \div PerSector>>  BY DEF FirstCopy, FatSector
  <2>2. s[3] = d \div PerSector  BY <2>1
  <2>3. c \in FatEntries /\ c \div PerSector = s[3]  BY <1>0 DEF EntriesOf
  <2> QED  BY <2>1, <2>2, <2>3 DEF FatSector
<1>4. ASSUME NEW s \in FatSectors
      PROVE  FirstOf(s) \in FirstCopy /\ FirstOf(s)[3] = s[3]
  <2>1. PICK f \in 0..(NFats - 1), c \in FatEntries : s = FatSector(f, c)
    BY <1>0 DEF FatSectors
  <2>2. s[3] = c \div PerSector  BY <2>1 DEF FatSector
  <2> QED  BY <2>2 DEF FirstOf, FirstCopy, FatSector
<1>5. ASSUME NEW s \in FirstCopy
      PROVE  FirstOf(s) = s /\ SecondOf(s) \notin FirstCopy
  <2>1. PICK d \in FatEntries : s = FatSector(0, d)  BY DEF FirstCopy
  <2>2. FirstOf(s) = s  BY <2>1 DEF FirstOf, FatSector
  <2>3. \A e : SecondOf(s) # FatSector(0, e)
    <3>1. SecondOf(s)[2] = 1 /\ \A e : FatSector(0, e)[2] = 0  BY DEF SecondOf, FatSector
    <3> QED  BY <3>1
  <2> QED  BY <2>2, <2>3 DEF FirstCopy
<1>6. ASSUME NFats = 2, NEW s \in FirstCopy PROVE SecondOf(s) \in FatSectors
  <2>1. PICK d \in FatEntries : s = FatSector(0, d)  BY DEF FirstCopy
  <2>2. SecondOf(s) = FatSector(1, d)  BY <2>1 DEF SecondOf, FatSector
  <2>3. 1 \in 0..(NFats - 1)  BY <1>6
  <2> QED  BY <1>0, <2>2, <2>3 DEF FatSectors
<1>7. FsInfo \notin FatSectors
  <2>1. \A f, c : <<"info">> # FatSector(f, c)
    <3> SUFFICES ASSUME NEW f, NEW c, <<"info">> = FatSector(f, c) PROVE FALSE  OBVIOUS
    <3>1. "info" = "fat"  BY DEF FatSector
    <3> QED  BY <3>1
  <2> QED  BY <2>1 DEF FsInfo, FatSectors
<1> QED  BY <1>1, <1>2, <1>3, <1>4, <1>5, <1>6, <1>7, NoSectorAssumption

----------------------------------------------------------------------------
(* The disk.                                                               *)

\* Faults ahead are told apart by their kind.
LEMMA Kinds ==
  ASSUME NEW f, IsFault(f)
  PROVE  /\ f.kind \in {"none", "read", "write", "crash", "stopped"}
         /\ f.kind = "none" <=> f = NoFault
         /\ f.kind # "stopped" => f.left \in Int
         /\ f.kind = "stopped" => f = StoppedWith(f.image) /\ IsDisk(f.image)
         /\ f.kind \in {"read", "write", "crash"} => f \in AheadFaults
         /\ \A k, n : f = Fault(k, n) => f.kind = k /\ f.left = n
<1>1. CASE f = NoFault
  BY <1>1 DEF NoFault, Fault, AheadFaults
<1>2. CASE f \in AheadFaults
  BY <1>2 DEF NoFault, Fault, AheadFaults
<1>3. CASE f = StoppedWith(f.image) /\ IsDisk(f.image)
  <2>1. f.kind = "stopped" /\ f.left = 0  BY <1>3 DEF StoppedWith
  <2>2. f # NoFault  BY <2>1 DEF NoFault, Fault
  <2> QED  BY <1>3, <2>1, <2>2 DEF Fault
<1> QED  BY <1>1, <1>2, <1>3 DEF IsFault

\* What is left of a fault after one access; what comes with no error does not go away, and
\* only what was to stop the machine stops it.
FaultAfter(f, g) ==
  /\ f = NoFault => g = NoFault
  /\ f.kind = "stopped" => g = f
  /\ g.kind \in {"crash", "stopped"} <=> f.kind \in {"crash", "stopped"}

\* All of a volume but its disk, its window and what is to go wrong.
SameButDisk(v, w) ==
  /\ w.sect = v.sect /\ w.dirty = v.dirty
  /\ w.last = v.last /\ w.free = v.free /\ w.info = v.info
Holds(v, w) == HasFields(w) /\ SameButDisk(v, w)

\* One access less until the fault.
LEMMA Nearer ==
  ASSUME NEW v, HasFields(v), IsFault(v.fault), NEW kinds, kinds \in SUBSET {"read", "write", "crash"},
         \A k \in kinds : v.fault # Fault(k, 0)
  PROVE  LET w == Closer(v, kinds)
         IN  /\ Holds(v, w) /\ w.disk = v.disk /\ w.win = v.win
             /\ IsFault(w.fault) /\ FaultAfter(v.fault, w.fault)
             /\ w.fault.kind = v.fault.kind
<1> DEFINE w == Closer(v, kinds)
           f == v.fault
<1>1. CASE f.kind \notin kinds
  BY <1>1 DEF Closer, Holds, SameButDisk, FaultAfter
<1>2. CASE f.kind \in kinds
  <2>1. f \in AheadFaults /\ f.kind \in {"read", "write", "crash"}  BY <1>2, Kinds
  <2>2. f = [kind |-> f.kind, left |-> f.left] /\ f.left \in Nat  BY <2>1 DEF AheadFaults
  <2>3. f.left # 0  BY <1>2, <2>2 DEF Fault
  <2>4. w = [disk |-> v.disk, win |-> v.win, sect |-> v.sect, dirty |-> v.dirty,
             last |-> v.last, free |-> v.free, info |-> v.info,
             fault |-> [kind |-> f.kind, left |-> f.left - 1]]
    BY <1>2, <2>2 DEF Closer, HasFields
  <2>5. w.fault \in AheadFaults /\ w.fault.kind = f.kind /\ f # NoFault
    BY <2>1, <2>2, <2>3, <2>4 DEF AheadFaults, NoFault, Fault
  <2> QED  BY <2>1, <2>4, <2>5 DEF Holds, HasFields, SameButDisk, IsFault, FaultAfter
<1> QED  BY <1>1, <1>2

\* What a function reports.
IsReport(r) == r = Failed(r.v, r.res)

\* e is the disk d with x in the sector s.
WrittenTo(d, s, x, e) == e = [d EXCEPT ![s] = x]

\* disk_write writes the sector, or fails because it was to and changes nothing.  If the
\* machine stops, the image is the disk before.
LEMMA Writes ==
  ASSUME NEW v, HasFields(v), IsFault(v.fault), IsDisk(v.disk), NEW s, NEW x,
         NEW r, r = DiskWrite(v, s, x)
  PROVE  /\ IsReport(r) /\ Holds(v, r.v) /\ r.v.win = v.win
         /\ IsFault(r.v.fault) /\ FaultAfter(v.fault, r.v.fault)
         /\ Stopped(r.v) => r.v.fault.image = v.disk \/ (Stopped(v) /\ r.v.fault = v.fault)
         /\ \/ r.res = "FR_OK" /\ WrittenTo(v.disk, s, x, r.v.disk)
            \/ r.res = "FR_DISK_ERR" /\ r.v.disk = v.disk /\ v.fault.kind = "write"
               /\ r.v.fault = NoFault
<1> DEFINE f == v.fault
<1>0. /\ f = Fault("write", 0) => f.kind = "write" /\ f # Fault("crash", 0)
      /\ f = Fault("crash", 0) => f.kind = "crash" /\ f # Fault("write", 0)
      /\ f.kind # "trace"
  BY Kinds
<1>1. CASE f = Fault("write", 0)
  <2>1. r = Failed([v EXCEPT !.fault = NoFault], "FR_DISK_ERR")
    BY <1>0, <1>1, Zenon DEF DiskWrite
  <2>2. r.v = [disk |-> v.disk, win |-> v.win, sect |-> v.sect, dirty |-> v.dirty,
               last |-> v.last, free |-> v.free, info |-> v.info, fault |-> NoFault]
        /\ r.res = "FR_DISK_ERR" /\ IsReport(r)
    BY <2>1 DEF Failed, HasFields, IsReport
  <2>3. NoFault.kind = "none" /\ IsFault(NoFault)  BY DEF NoFault, Fault, IsFault
  <2> QED
    BY <1>0, <1>1, <2>2, <2>3 DEF Holds, HasFields, SameButDisk, FaultAfter, Stopped, WrittenTo
<1>2. CASE f = Fault("crash", 0)
  <2> DEFINE image == StoppedWith(v.disk)
             u == [v EXCEPT !.fault = image]
  <2>1. r = Ok([v EXCEPT !.fault = StoppedWith(v.disk), !.disk[s] = x])
    BY <1>0, <1>2, Zenon DEF DiskWrite
  <2>2. u = [disk |-> v.disk, win |-> v.win, sect |-> v.sect, dirty |-> v.dirty,
             last |-> v.last, free |-> v.free, info |-> v.info, fault |-> image]
    BY DEF HasFields
  <2>3. r = Ok([u EXCEPT !.disk[s] = x])
    BY <2>1
  <2> HIDE DEF u, image
  <2>4. r.v = [disk |-> [v.disk EXCEPT ![s] = x], win |-> v.win, sect |-> v.sect, dirty |-> v.dirty,
               last |-> v.last, free |-> v.free, info |-> v.info, fault |-> StoppedWith(v.disk)]
        /\ r.res = "FR_OK" /\ IsReport(r)
    BY <2>2, <2>3 DEF Ok, Failed, IsReport, image
  <2>5. /\ StoppedWith(v.disk).kind = "stopped" /\ StoppedWith(v.disk).image = v.disk
        /\ IsFault(StoppedWith(v.disk)) /\ f # NoFault
    BY <1>0, <1>2, Kinds DEF StoppedWith, IsFault
  <2> QED
    BY <1>0, <1>2, <2>4, <2>5 DEF Holds, HasFields, SameButDisk, FaultAfter, Stopped, WrittenTo
<1>3. CASE f # Fault("write", 0) /\ f # Fault("crash", 0)
  <2> DEFINE u == [v EXCEPT !.disk[s] = x]
  <2>1. r = Ok(Closer(u, {"write", "crash"}))
    BY <1>0, <1>3, Zenon DEF DiskWrite
  <2>2. u = [disk |-> [v.disk EXCEPT ![s] = x], win |-> v.win, sect |-> v.sect, dirty |-> v.dirty,
             last |-> v.last, free |-> v.free, info |-> v.info, fault |-> v.fault]
    BY DEF HasFields
  <2> HIDE DEF u
  <2>3. HasFields(u) /\ IsFault(u.fault) /\ \A k \in {"write", "crash"} : u.fault # Fault(k, 0)
    BY <1>3, <2>2 DEF HasFields
  <2>4. {"write", "crash"} \in SUBSET {"read", "write", "crash"}  OBVIOUS
  <2> DEFINE w == Closer(u, {"write", "crash"})
  <2>5. /\ Holds(u, w) /\ w.disk = u.disk /\ w.win = u.win
        /\ IsFault(w.fault) /\ FaultAfter(u.fault, w.fault) /\ w.fault.kind = u.fault.kind
    BY <2>3, <2>4, Nearer
  <2> HIDE DEF w
  <2>6. r.v = w /\ r.res = "FR_OK" /\ IsReport(r)  BY <2>1 DEF Ok, Failed, IsReport, w
  <2>7. /\ w.disk = [v.disk EXCEPT ![s] = x] /\ w.win = v.win /\ Holds(v, w)
        /\ IsFault(w.fault) /\ FaultAfter(v.fault, w.fault) /\ w.fault.kind = v.fault.kind
    BY <2>2, <2>5 DEF Holds, SameButDisk
  <2>8. Stopped(w) => Stopped(v) /\ w.fault = v.fault  BY <2>7 DEF Stopped, FaultAfter
  <2> QED  BY <2>6, <2>7, <2>8 DEF WrittenTo
<1> QED  BY <1>1, <1>2, <1>3

\* disk_read brings the sector into win[], or fails because it was to and changes nothing.
LEMMA Reads ==
  ASSUME NEW v, HasFields(v), IsFault(v.fault), NEW s, NEW r, r = DiskRead(v, s)
  PROVE  /\ IsReport(r) /\ Holds(v, r.v) /\ r.v.disk = v.disk
         /\ IsFault(r.v.fault) /\ FaultAfter(v.fault, r.v.fault)
         /\ Stopped(r.v) => Stopped(v) /\ r.v.fault = v.fault
         /\ \/ r.res = "FR_OK" /\ r.v.win = v.disk[s]
            \/ r.res = "FR_DISK_ERR" /\ r.v.win = v.win /\ v.fault.kind = "read"
               /\ r.v.fault = NoFault
<1> DEFINE f == v.fault
<1>1. CASE f = Fault("read", 0)
  <2>1. r = Failed([v EXCEPT !.fault = NoFault], "FR_DISK_ERR")
    BY <1>1, Zenon DEF DiskRead
  <2>2. r.v = [disk |-> v.disk, win |-> v.win, sect |-> v.sect, dirty |-> v.dirty,
               last |-> v.last, free |-> v.free, info |-> v.info, fault |-> NoFault]
        /\ r.res = "FR_DISK_ERR" /\ IsReport(r)
    BY <2>1 DEF Failed, HasFields, IsReport
  <2>3. NoFault.kind = "none" /\ IsFault(NoFault)  BY DEF NoFault, Fault, IsFault
  <2>4. f.kind = "read"  BY <1>1, Kinds
  <2> QED
    BY <2>2, <2>3, <2>4 DEF Holds, HasFields, SameButDisk, FaultAfter, Stopped
<1>2. CASE f # Fault("read", 0)
  <2> DEFINE u == [v EXCEPT !.win = v.disk[s]]
             w == Closer(u, {"read"})
  <2>1. r = Ok(w)
    BY <1>2, Zenon DEF DiskRead
  <2>2. u = [disk |-> v.disk, win |-> v.disk[s], sect |-> v.sect, dirty |-> v.dirty,
             last |-> v.last, free |-> v.free, info |-> v.info, fault |-> v.fault]
    BY DEF HasFields
  <2> HIDE DEF u
  <2>3. HasFields(u) /\ IsFault(u.fault) /\ \A k \in {"read"} : u.fault # Fault(k, 0)
    BY <1>2, <2>2 DEF HasFields
  <2>4. {"read"} \in SUBSET {"read", "write", "crash"}  OBVIOUS
  <2>5. /\ Holds(u, w) /\ w.disk = u.disk /\ w.win = u.win
        /\ IsFault(w.fault) /\ FaultAfter(u.fault, w.fault) /\ w.fault.kind = u.fault.kind
    BY <2>3, <2>4, Nearer
  <2> HIDE DEF w
  <2>6. r.v = w /\ r.res = "FR_OK" /\ IsReport(r)  BY <2>1 DEF Ok, Failed, IsReport
  <2>7. /\ w.disk = v.disk /\ w.win = v.disk[s] /\ Holds(v, w)
        /\ IsFault(w.fault) /\ FaultAfter(v.fault, w.fault) /\ w.fault.kind = v.fault.kind
    BY <2>2, <2>5 DEF Holds, SameButDisk
  <2>8. Stopped(w) => Stopped(v) /\ w.fault = v.fault  BY <2>7 DEF Stopped, FaultAfter
  <2> QED  BY <2>6, <2>7, <2>8
<1> QED  BY <1>1, <1>2

----------------------------------------------------------------------------
(* The window.  G is a set of FATs, in later proofs those in which what a  *)
(* crash must leave can be found: every FAT that the program sees or the   *)
(* disk has, also in the moment in which the machine stops, stays in it.   *)

Within(v, G) ==
  /\ IsVolume(v) /\ Fat(v) \in G /\ DiskFat(v.disk) \in G
  /\ Stopped(v) => DiskFat(v.fault.image) \in G

\* What every step on a volume keeps to.
Follows(v, w) ==
  /\ FaultAfter(v.fault, w.fault)
  /\ v.fault = NoFault /\ Mirrored(v.disk) => Mirrored(w.disk)

\* A step that only brings a sector into the window or writes it back.
Moves(v, w) ==
  /\ Follows(v, w) /\ Fat(w) = Fat(v) /\ w.disk[FsInfo] = v.disk[FsInfo]
  /\ w.last = v.last /\ w.free = v.free /\ w.info = v.info

\* A step fails because it was to.
FailsToo(v, res) == res = "FR_DISK_ERR" /\ v.fault.kind \in {"read", "write"}

\* The FAT with the window in place is on the disk once the window has been written.
LEMMA Flushed ==
  ASSUME NEW v, IsVolume(v), NEW d, IsDisk(d),
         v.sect \in FirstCopy => d[v.sect] = v.win,
         \A s \in FirstCopy : s # v.sect => d[s] = v.disk[s]
  PROVE  DiskFat(d) = Fat(v)
<1>1. \A c \in FatEntries : FatSector(0, c) \in FirstCopy
  BY Sectors
<1>2. \A c \in FatEntries : d[FatSector(0, c)][c] = FatEntry(v, c)
  BY <1>1 DEF FatEntry, Seen
<1> QED  BY <1>2 DEF DiskFat, Fat

\* A sector of the FAT, and nothing that is not one, has the entries of its clusters.
FitsIn(s, x) == s \in FatSectors => x \in [EntriesOf(s[3]) -> Link]

\* A sector of the FAT in a disk is replaced by one.
LEMMA Replaced ==
  ASSUME NEW d, IsDisk(d), NEW s, s \in FatSectors \cup {NoSector}, NEW x, FitsIn(s, x),
         NEW e, WrittenTo(d, s, x, e)
  PROVE  /\ IsDisk(e) /\ e[FsInfo] = d[FsInfo]
         /\ s \in FatSectors => e[s] = x
         /\ \A t \in FatSectors : t # s => e[t] = d[t]
<1>1. DOMAIN d = FatSectors \cup {FsInfo}
  BY DEF IsDisk
<1>2. /\ e = [t \in FatSectors \cup {FsInfo} |-> e[t]]
      /\ \A t \in FatSectors \cup {FsInfo} : e[t] = IF t = s THEN x ELSE d[t]
  BY <1>1, NoSectorAssumption DEF WrittenTo
<1>3. s # FsInfo  BY Sectors
<1>4. ASSUME NEW t \in FatSectors PROVE e[t] \in [EntriesOf(t[3]) -> Link]
  <2>1. d[t] \in [EntriesOf(t[3]) -> Link]  BY DEF IsDisk
  <2>2. CASE t = s  BY <1>2, <2>2 DEF FitsIn
  <2>3. CASE t # s  BY <1>2, <2>1, <2>3
  <2> QED  BY <2>2, <2>3
<1>5. e[FsInfo] = d[FsInfo] /\ \A t \in FatSectors : t # s => e[t] = d[t]
  BY <1>2, <1>3
<1>6. s \in FatSectors => e[s] = x
  BY <1>2
<1> QED  BY <1>2, <1>4, <1>5, <1>6 DEF IsDisk

\* A sector is its first copy, or the second copy of it.
LEMMA Copies ==
  ASSUME NEW s \in FatSectors
  PROVE  s = FirstOf(s) \/ (NFats = 2 /\ s = SecondOf(FirstOf(s)))
<1>1. PICK f \in 0..(NFats - 1), c \in 0..(NFatEnt - 1) : s = <<"fat", f, c \div PerSector>>
  BY DEF FatSectors, FatSector
<1>2. f = 0 \/ (f = 1 /\ NFats = 2)
  BY GeometryAssumption
<1>3. s[3] = c \div PerSector /\ FirstOf(s)[3] = c \div PerSector
  BY <1>1 DEF FirstOf
<1> QED  BY <1>1, <1>2, <1>3 DEF FirstOf, SecondOf

\* The copies agree after a sector has been written to both.
LEMMA BothWritten ==
  ASSUME NEW d, IsDisk(d), Mirrored(d), NEW s, s \in FirstCopy, NEW e, IsDisk(e),
         NFats = 2 => e[SecondOf(s)] = e[s],
         \A t \in FatSectors : t # s /\ t # SecondOf(s) => e[t] = d[t]
  PROVE  Mirrored(e)
<1> SUFFICES ASSUME NEW t \in FatSectors PROVE e[t] = e[FirstOf(t)]
  BY DEF Mirrored
<1>1. FirstOf(t) \in FirstCopy /\ FirstOf(t) \in FatSectors /\ d[t] = d[FirstOf(t)]
  BY Sectors DEF Mirrored
<1>2. t = FirstOf(t) \/ (NFats = 2 /\ t = SecondOf(FirstOf(t)))
  BY Copies
<1>3. CASE t = FirstOf(t)
  BY <1>3
<1>4. CASE NFats = 2 /\ t = SecondOf(FirstOf(t)) /\ FirstOf(t) = s
  BY <1>1, <1>4
<1>5. CASE NFats = 2 /\ t = SecondOf(FirstOf(t)) /\ FirstOf(t) # s
  <2>1. t # s /\ t # SecondOf(s)
    <3>1. t[3] = FirstOf(t)[3] /\ SecondOf(s)[3] = s[3] /\ FirstOf(s) = s
      BY Sectors DEF FirstOf, SecondOf
    <3>2. t = SecondOf(s) => FirstOf(t) = s  BY <3>1 DEF FirstOf
    <3>3. t # s  BY <1>5, Sectors
    <3> QED  BY <1>5, <3>2, <3>3
  <2>2. FirstOf(t) # SecondOf(s)  BY <1>1, Sectors
  <2> QED  BY <1>1, <1>5, <2>1, <2>2
<1> QED  BY <1>2, <1>3, <1>4, <1>5

\* Two steps that follow each other.
LEMMA FaultTwice ==
  ASSUME NEW f, NEW g, NEW h, FaultAfter(f, g), FaultAfter(g, h)
  PROVE  FaultAfter(f, h)
  BY DEF FaultAfter

\* What the second copy of a sector is written from, and what it leaves.
Copied(G, v, w) ==
  /\ Within(w, G) /\ Holds(v, w) /\ w.win = v.win /\ FaultAfter(v.fault, w.fault)
  /\ IsDisk(w.disk) /\ w.disk[FsInfo] = v.disk[FsInfo]
  /\ \A s \in FirstCopy : w.disk[s] = v.disk[s]
  /\ \A s \in FatSectors : (v.sect \in FirstCopy => s # SecondOf(v.sect)) =>
                              w.disk[s] = v.disk[s]
  /\ v.fault = NoFault /\ v.sect \in FirstCopy /\ NFats = 2 =>
       w.disk[SecondOf(v.sect)] = v.win

\* The copy of a sector is written to the same place in the other FAT, or not at all.
LEMMA CopyWritten ==
  ASSUME NEW G, NEW v, Within(v, G), v.dirty = FALSE, NEW w, w = WriteCopy(v)
  PROVE  Copied(G, v, w)
<1> USE DEF Copied
<1>0. /\ HasFields(v) /\ IsFault(v.fault) /\ IsDisk(v.disk) /\ v.sect \in FirstCopy \cup {NoSector}
      /\ v.sect \in FirstCopy => v.win \in [EntriesOf(v.sect[3]) -> Link]
  BY DEF Within, IsVolume
<1>1. CASE ~(v.sect \in FatSectors /\ NFats = 2)
  <2>1. w = v  BY <1>1 DEF WriteCopy
  <2>2. v.sect \in FirstCopy => NFats # 2  BY <1>1, Sectors
  <2> QED  BY <1>0, <2>1, <2>2 DEF Holds, SameButDisk, FaultAfter
<1>2. CASE v.sect \in FatSectors /\ NFats = 2
  <2> DEFINE t == SecondOf(v.sect)
             r == DiskWrite(v, t, v.win)
  <2>1. v.sect \in FirstCopy  BY <1>0, <1>2, Sectors
  <2>2. w = r.v  BY <1>2 DEF WriteCopy, SecondOf
  <2>3. t \in FatSectors /\ t \notin FirstCopy /\ t[3] = v.sect[3]
    BY <1>2, <2>1, Sectors DEF SecondOf
  <2> HIDE DEF t, r
  <2>4. /\ Holds(v, r.v) /\ r.v.win = v.win
        /\ IsFault(r.v.fault) /\ FaultAfter(v.fault, r.v.fault)
        /\ Stopped(r.v) => r.v.fault.image = v.disk \/ (Stopped(v) /\ r.v.fault = v.fault)
        /\ \/ r.res = "FR_OK" /\ WrittenTo(v.disk, t, v.win, r.v.disk)
           \/ r.res = "FR_DISK_ERR" /\ r.v.disk = v.disk /\ v.fault.kind = "write"
    BY <1>0, Writes DEF r
  <2> DEFINE d == w.disk
  <2>5. /\ IsDisk(d) /\ d[FsInfo] = v.disk[FsInfo]
        /\ \A s \in FatSectors : s # t => d[s] = v.disk[s]
        /\ v.fault = NoFault => d[t] = v.win
    <3>1. CASE WrittenTo(v.disk, t, v.win, r.v.disk)
      <4>1. FitsIn(t, v.win)  BY <1>0, <2>1, <2>3 DEF FitsIn
      <4>2. t \in FatSectors \cup {NoSector} /\ WrittenTo(v.disk, t, v.win, d)
        BY <2>2, <2>3, <3>1
      <4> HIDE DEF d
      <4>3. /\ IsDisk(d) /\ d[FsInfo] = v.disk[FsInfo] /\ d[t] = v.win
            /\ \A s \in FatSectors : s # t => d[s] = v.disk[s]
        BY <1>0, <2>3, <4>1, <4>2, Replaced
      <4> QED  BY <4>3
    <3>2. CASE r.v.disk = v.disk /\ v.fault.kind = "write"
      <4>1. v.fault # NoFault  BY <3>2 DEF NoFault, Fault
      <4> QED  BY <1>0, <2>2, <3>2, <4>1
    <3> QED  BY <2>4, <3>1, <3>2
  <2>6. \A s \in FirstCopy : d[s] = v.disk[s]
    BY <2>3, <2>5, Sectors
  <2>7. DiskFat(d) = DiskFat(v.disk) /\ Fat(w) = Fat(v)
    <3>1. \A c \in FatEntries : FatSector(0, c) \in FirstCopy
      BY Sectors
    <3>2. \A c \in FatEntries : d[FatSector(0, c)] = v.disk[FatSector(0, c)]  BY <2>6, <3>1
    <3>3. w.sect = v.sect /\ w.win = v.win  BY <2>2, <2>4 DEF Holds, SameButDisk
    <3> QED  BY <3>2, <3>3 DEF DiskFat, Fat, FatEntry, Seen
  <2>8. IsVolume(w)
    BY <1>0, <2>1, <2>2, <2>4, <2>5, <2>6 DEF Within, IsVolume, Holds, SameButDisk
  <2>9. Stopped(w) => DiskFat(w.fault.image) \in G
    BY <2>2, <2>4 DEF Within
  <2>10. Within(w, G)  BY <2>7, <2>8, <2>9 DEF Within
  <2> QED  BY <1>2, <2>1, <2>2, <2>4, <2>5, <2>6, <2>10 DEF t
<1> QED  BY <1>1, <1>2

\* A flag or a field is set.
LEMMA Assigned ==
  ASSUME NEW v, HasFields(v), NEW x
  PROVE  /\ \A w : w = [v EXCEPT !.dirty = x] =>
              HasFields(w) /\ w = [v EXCEPT !.dirty = w.dirty] /\ w.disk = v.disk /\ w.win = v.win
              /\ w.sect = v.sect /\ w.dirty = x /\ w.last = v.last /\ w.free = v.free
              /\ w.info = v.info /\ w.fault = v.fault
         /\ \A w : w = [v EXCEPT !.sect = x] =>
              HasFields(w) /\ w.disk = v.disk /\ w.win = v.win
              /\ w.sect = x /\ w.dirty = v.dirty /\ w.last = v.last /\ w.free = v.free
              /\ w.info = v.info /\ w.fault = v.fault
  BY DEF HasFields

\* The window is on the disk, or has failed to be written.
WrittenBack(G, v, r) ==
  /\ IsReport(r) /\ Within(r.v, G) /\ Moves(v, r.v)
  /\ r.v.sect = v.sect /\ r.v.win = v.win
  /\ \/ r.res = "FR_OK" /\ r.v.dirty = FALSE /\ DiskFat(r.v.disk) = Fat(v)
     \/ FailsToo(v, r.res) /\ r.v.dirty = TRUE /\ v.dirty = TRUE /\ r.v.fault = NoFault

\* sync_window writes the window to the disk, or fails and leaves everything as it was.
LEMMA Syncs ==
  ASSUME NEW G, NEW v, Within(v, G), NEW r, r = SyncWindow(v)
  PROVE  WrittenBack(G, v, r)
<1> USE DEF WrittenBack
<1>0. /\ IsVolume(v) /\ HasFields(v) /\ IsFault(v.fault) /\ IsDisk(v.disk) /\ v.dirty \in BOOLEAN
      /\ v.sect \in FirstCopy \cup {NoSector}
      /\ v.sect \in FirstCopy => v.win \in [EntriesOf(v.sect[3]) -> Link]
      /\ Fat(v) \in G /\ DiskFat(v.disk) \in G
      /\ Stopped(v) => DiskFat(v.fault.image) \in G
  BY DEF Within, IsVolume
<1>1. CASE ~v.dirty
  <2>1. r.v = v /\ r.res = "FR_OK" /\ IsReport(r)
    BY <1>1 DEF SyncWindow, Ok, Failed, IsReport
  <2>2. v.sect \in FirstCopy => v.disk[v.sect] = v.win  BY <1>0, <1>1 DEF IsVolume
  <2>3. DiskFat(v.disk) = Fat(v)  BY <1>0, <2>2, Flushed
  <2>4. Moves(v, v)  BY DEF Moves, Follows, FaultAfter
  <2> QED  BY <1>0, <1>1, <2>1, <2>3, <2>4
<1>2. CASE v.dirty
  <2> DEFINE q == DiskWrite(v, v.sect, v.win)
             u == [q.v EXCEPT !.dirty = FALSE]
             w == WriteCopy(u)
  <2>1. /\ IsReport(q) /\ Holds(v, q.v) /\ q.v.win = v.win
        /\ IsFault(q.v.fault) /\ FaultAfter(v.fault, q.v.fault)
        /\ Stopped(q.v) => q.v.fault.image = v.disk \/ (Stopped(v) /\ q.v.fault = v.fault)
        /\ \/ q.res = "FR_OK" /\ WrittenTo(v.disk, v.sect, v.win, q.v.disk)
           \/ q.res = "FR_DISK_ERR" /\ q.v.disk = v.disk /\ v.fault.kind = "write"
              /\ q.v.fault = NoFault
    BY <1>0, Writes
  <2>2. IF q.res = "FR_OK" THEN r = Ok(w) ELSE r = q
    BY <1>2 DEF SyncWindow, WrittenOut
  <2> HIDE DEF q
  <2>3. CASE q.res # "FR_OK"
    <3>1. q.res = "FR_DISK_ERR" /\ q.v.disk = v.disk /\ v.fault.kind = "write" /\ r = q
          /\ q.v.fault = NoFault
      BY <2>1, <2>2, <2>3
    <3>2. HasFields(q.v) /\ SameButDisk(v, q.v)  BY <2>1 DEF Holds
    <3>3. Fat(q.v) = Fat(v)
      BY <2>1, <3>1, <3>2 DEF Fat, FatEntry, Seen, SameButDisk
    <3>4. Within(q.v, G)
      BY <1>0, <1>2, <2>1, <3>1, <3>2, <3>3 DEF Within, IsVolume, SameButDisk
    <3>5. Moves(v, q.v)
      BY <2>1, <3>1, <3>2, <3>3 DEF Moves, Follows, SameButDisk
    <3>6. FailsToo(v, q.res) /\ q.v.dirty = TRUE /\ q.v.sect = v.sect
      BY <1>0, <1>2, <3>1, <3>2 DEF FailsToo, SameButDisk
    <3> QED  BY <1>0, <1>2, <2>1, <3>1, <3>4, <3>5, <3>6
  <2>4. CASE q.res = "FR_OK"
    <3>1. WrittenTo(v.disk, v.sect, v.win, q.v.disk)  BY <2>1, <2>4
    <3>2. /\ v.sect \in FatSectors \cup {NoSector} /\ (v.sect \in FatSectors => v.sect \in FirstCopy)
          /\ v.sect \in FatSectors => v.win \in [EntriesOf(v.sect[3]) -> Link]
      BY <1>0, Sectors
    <3>3. /\ IsDisk(q.v.disk) /\ q.v.disk[FsInfo] = v.disk[FsInfo]
          /\ v.sect \in FatSectors => q.v.disk[v.sect] = v.win
          /\ \A t \in FatSectors : t # v.sect => q.v.disk[t] = v.disk[t]
      <4> DEFINE d == v.disk
                 s == v.sect
                 x == v.win
                 e == q.v.disk
      <4>1. /\ IsDisk(d) /\ s \in FatSectors \cup {NoSector} /\ WrittenTo(d, s, x, e)
            /\ s \in FatSectors => x \in [EntriesOf(s[3]) -> Link]
        BY <1>0, <3>1, <3>2
      <4> HIDE DEF d, s, x, e
      <4>2. /\ IsDisk(e) /\ e[FsInfo] = d[FsInfo]
            /\ s \in FatSectors => e[s] = x
            /\ \A t \in FatSectors : t # s => e[t] = d[t]
        <5>1. IsDisk(d) /\ s \in FatSectors \cup {NoSector} /\ WrittenTo(d, s, x, e)  BY <4>1
        <5>2. FitsIn(s, x)  BY <4>1 DEF FitsIn
        <5> QED  BY <5>1, <5>2, Replaced
      <4> QED  BY <4>2 DEF d, s, x, e
    <3>4. /\ HasFields(u) /\ u.disk = q.v.disk /\ u.win = v.win /\ u.sect = v.sect
          /\ u.dirty = FALSE /\ u.last = v.last /\ u.free = v.free /\ u.info = v.info
          /\ u.fault = q.v.fault
      <4>1. HasFields(q.v) /\ SameButDisk(v, q.v)  BY <2>1 DEF Holds
      <4>2. /\ HasFields(u) /\ u.disk = q.v.disk /\ u.win = q.v.win /\ u.sect = q.v.sect
            /\ u.dirty = FALSE /\ u.last = q.v.last /\ u.free = q.v.free /\ u.info = q.v.info
            /\ u.fault = q.v.fault
        BY <4>1, Assigned
      <4> QED  BY <2>1, <4>1, <4>2 DEF SameButDisk
    <3> HIDE DEF u
    <3>5. DiskFat(u.disk) = Fat(v)
      BY <1>0, <3>2, <3>3, <3>4, Flushed, Sectors
    <3>6. IsVolume(u)
      <4>1. u.dirty \in BOOLEAN /\ IsFault(u.fault) /\ IsDisk(u.disk) /\ HasFields(u)
        BY <2>1, <3>3, <3>4
      <4>2. u.sect \in FirstCopy \cup {NoSector} /\
            (u.sect \in FirstCopy => u.win \in [EntriesOf(u.sect[3]) -> Link])
        BY <1>0, <3>4
      <4>3. u.sect \in FirstCopy => u.disk[u.sect] = u.win  BY <3>3, <3>4, Sectors
      <4> QED  BY <3>4, <4>1, <4>2, <4>3 DEF IsVolume
    <3>7. Fat(u) = Fat(v)
      <4>1. u.sect \in FirstCopy => u.disk[u.sect] = u.win  BY <3>3, <3>4, Sectors
      <4>2. DiskFat(u.disk) = Fat(u)  BY <3>6, <4>1, Flushed DEF IsVolume
      <4> QED  BY <3>5, <4>2
    <3>8. Stopped(u) => DiskFat(u.fault.image) \in G
      BY <1>0, <2>1, <3>4 DEF Stopped
    <3>9. Within(u, G)  BY <1>0, <3>5, <3>6, <3>7, <3>8 DEF Within
    <3>10. /\ Within(w, G) /\ Holds(u, w) /\ w.win = u.win /\ FaultAfter(u.fault, w.fault)
           /\ IsDisk(w.disk) /\ w.disk[FsInfo] = u.disk[FsInfo]
           /\ \A s \in FirstCopy : w.disk[s] = u.disk[s]
           /\ \A s \in FatSectors : (u.sect \in FirstCopy => s # SecondOf(u.sect)) =>
                                       w.disk[s] = u.disk[s]
           /\ u.fault = NoFault /\ u.sect \in FirstCopy /\ NFats = 2 =>
                w.disk[SecondOf(u.sect)] = u.win
      <4>1. w = WriteCopy(u)  OBVIOUS
      <4> HIDE DEF w
      <4>2. Copied(G, u, w)  BY <3>4, <3>9, <4>1, CopyWritten
      <4> QED  BY <4>2 DEF Copied
    <3> HIDE DEF w
    <3>11. SameButDisk(u, w) /\ w.dirty = FALSE  BY <3>4, <3>10 DEF Holds, SameButDisk
    <3>12. DiskFat(w.disk) = Fat(v) /\ Fat(w) = Fat(v)
      <4>1. \A c \in FatEntries : FatSector(0, c) \in FirstCopy
        BY Sectors
      <4>2. DiskFat(w.disk) = DiskFat(u.disk)  BY <3>10, <4>1 DEF DiskFat
      <4>3. Fat(w) = Fat(u)
        BY <3>10, <3>11, <4>1 DEF Fat, FatEntry, Seen, SameButDisk
      <4> QED  BY <3>5, <3>7, <4>2, <4>3
    <3>13. FaultAfter(v.fault, w.fault)
      BY <2>1, <3>4, <3>10, FaultTwice
    <3>14. ASSUME v.fault = NoFault, Mirrored(v.disk) PROVE Mirrored(w.disk)
      <4>1. u.fault = NoFault  BY <2>1, <3>4, <3>14 DEF FaultAfter
      <4>2. CASE v.sect \notin FirstCopy
        <5>1. \A t \in FatSectors : w.disk[t] = v.disk[t]
          BY <3>2, <3>3, <3>4, <3>10, <4>2
        <5> QED  BY <3>14, <5>1, Sectors DEF Mirrored
      <4>3. CASE v.sect \in FirstCopy
        <5>1. w.disk[v.sect] = v.win
          BY <3>3, <3>4, <3>10, <4>3, Sectors
        <5>2. NFats = 2 => w.disk[SecondOf(v.sect)] = v.win  BY <3>4, <3>10, <4>1, <4>3
        <5>3. \A t \in FatSectors : t # v.sect /\ t # SecondOf(v.sect) => w.disk[t] = v.disk[t]
          BY <3>3, <3>4, <3>10
        <5>4. /\ NFats = 2 => w.disk[SecondOf(v.sect)] = w.disk[v.sect]
              /\ IsDisk(w.disk) /\ IsDisk(v.disk) /\ Mirrored(v.disk)
          BY <1>0, <3>10, <3>14, <5>1, <5>2
        <5> QED  BY <4>3, <5>3, <5>4, BothWritten
      <4> QED  BY <4>2, <4>3
    <3>15. Moves(v, w)
      BY <3>3, <3>4, <3>10, <3>11, <3>12, <3>13, <3>14 DEF Moves, Follows, SameButDisk
    <3>16. r.v = w /\ r.res = "FR_OK" /\ IsReport(r)
      BY <2>2, <2>4 DEF Ok, Failed, IsReport
    <3> QED  BY <3>4, <3>10, <3>11, <3>12, <3>15, <3>16 DEF SameButDisk
  <2> QED  BY <2>3, <2>4
<1> QED  BY <1>0, <1>1, <1>2

\* Two steps that follow each other.
LEMMA FollowsThrough ==
  ASSUME NEW u, NEW v, NEW w, Follows(u, v), Follows(v, w)
  PROVE  Follows(u, w)
  BY DEF Follows, FaultAfter

\* Two steps that only move the window.
LEMMA MovesOn ==
  ASSUME NEW u, NEW v, NEW w, Moves(u, v), Moves(v, w)
  PROVE  Moves(u, w)
  BY FollowsThrough DEF Moves

\* What is not there cannot make a later step fail.
LEMMA FailsAfter ==
  ASSUME NEW u, NEW v, NEW res, Follows(u, v), IsFault(u.fault), FailsToo(v, res)
  PROVE  FailsToo(u, res)
<1>1. /\ u.fault = NoFault => v.fault = NoFault
      /\ v.fault.kind \in {"crash", "stopped"} <=> u.fault.kind \in {"crash", "stopped"}
  BY DEF Follows, FaultAfter
<1>2. v.fault.kind \in {"read", "write"} /\ res = "FR_DISK_ERR"
  BY DEF FailsToo
<1>3. v.fault # NoFault  BY <1>2 DEF NoFault, Fault
<1>4. u.fault # NoFault /\ u.fault.kind \notin {"crash", "stopped"}  BY <1>1, <1>2, <1>3
<1>5. u.fault.kind \in {"read", "write"}  BY <1>4, Kinds
<1> QED  BY <1>2, <1>5 DEF FailsToo

\* move_window brings the sector into the window, or fails.
LEMMA WindowMoved ==
  ASSUME NEW G, NEW v, Within(v, G), NEW s \in FirstCopy, NEW r, r = MoveWindow(v, s)
  PROVE  /\ IsReport(r) /\ Within(r.v, G) /\ Moves(v, r.v)
         /\ \/ r.res = "FR_OK" /\ r.v.sect = s
            \/ FailsToo(v, r.res) /\ r.v.sect = v.sect /\ r.v.fault = NoFault
<1>1. CASE s = v.sect
  <2>1. r.v = v /\ r.res = "FR_OK" /\ IsReport(r)
    BY <1>1 DEF MoveWindow, Ok, Failed, IsReport
  <2>2. Moves(v, v)  BY DEF Moves, Follows, FaultAfter
  <2> QED  BY <1>1, <2>1, <2>2
<1>2. CASE s # v.sect
  <2> DEFINE p == SyncWindow(v)
             w == p.v
             q == DiskRead(w, s)
             u == [q.v EXCEPT !.sect = s]
  <2>1. /\ IsReport(p) /\ Within(w, G) /\ Moves(v, w) /\ w.sect = v.sect /\ w.win = v.win
        /\ \/ p.res = "FR_OK" /\ w.dirty = FALSE /\ DiskFat(w.disk) = Fat(v)
           \/ FailsToo(v, p.res) /\ w.dirty = TRUE /\ v.dirty = TRUE /\ w.fault = NoFault
    <3>1. WrittenBack(G, v, p)  BY Syncs
    <3> QED  BY <3>1 DEF WrittenBack
  <2>2. IF p.res = "FR_OK" THEN IF q.res = "FR_OK" THEN r = Ok(u) ELSE r = q ELSE r = p
    BY <1>2 DEF MoveWindow, ReadAfter, ReadIn
  <2> HIDE DEF p, q
  <2>3. CASE p.res # "FR_OK"
    BY <2>1, <2>2, <2>3
  <2>4. CASE p.res = "FR_OK"
    <3>0. /\ IsVolume(w) /\ HasFields(w) /\ IsFault(w.fault) /\ IsDisk(w.disk) /\ w.dirty = FALSE
          /\ DiskFat(w.disk) = Fat(w) /\ Fat(w) = Fat(v)
          /\ Stopped(w) => DiskFat(w.fault.image) \in G
          /\ IsFault(v.fault)
      <4>1. FailsToo(v, p.res) => p.res # "FR_OK"  BY DEF FailsToo
      <4> QED  BY <2>1, <2>4, <4>1 DEF Within, IsVolume, Moves
    <3>1. /\ IsReport(q) /\ Holds(w, q.v) /\ q.v.disk = w.disk
          /\ IsFault(q.v.fault) /\ FaultAfter(w.fault, q.v.fault)
          /\ Stopped(q.v) => Stopped(w) /\ q.v.fault = w.fault
          /\ \/ q.res = "FR_OK" /\ q.v.win = w.disk[s]
             \/ q.res = "FR_DISK_ERR" /\ q.v.win = w.win /\ w.fault.kind = "read"
                /\ q.v.fault = NoFault
      <4> HIDE DEF w
      <4> QED  BY <3>0, Reads DEF q
    <3> HIDE DEF w
    <3>2. CASE q.res # "FR_OK"
      <4>1. r = q /\ q.v.win = w.win /\ w.fault.kind = "read" /\ q.res = "FR_DISK_ERR"
            /\ q.v.fault = NoFault
        BY <2>2, <2>4, <3>1, <3>2
      <4>2. HasFields(q.v) /\ SameButDisk(w, q.v)  BY <3>1 DEF Holds
      <4>3. Fat(q.v) = Fat(w)
        BY <3>1, <4>1, <4>2 DEF Fat, FatEntry, Seen, SameButDisk
      <4>4. IsVolume(q.v)
        BY <3>0, <3>1, <4>1, <4>2 DEF IsVolume, SameButDisk
      <4>5. Within(q.v, G)
        BY <2>1, <3>0, <3>1, <4>3, <4>4 DEF Within, Moves
      <4>6. Moves(w, q.v)
        BY <3>1, <4>2, <4>3 DEF Moves, Follows, SameButDisk
      <4>7. Moves(v, q.v)  BY <2>1, <4>6, MovesOn
      <4>8. FailsToo(w, q.res)  BY <4>1 DEF FailsToo
      <4>9. FailsToo(v, q.res)  BY <2>1, <3>0, <4>8, FailsAfter DEF Moves
      <4> QED  BY <2>1, <3>1, <4>1, <4>2, <4>5, <4>7, <4>9 DEF SameButDisk
    <3>3. CASE q.res = "FR_OK"
      <4>1. r.v = u /\ r.res = "FR_OK" /\ IsReport(r)
        BY <2>2, <2>4, <3>3 DEF Ok, Failed, IsReport
      <4>2. HasFields(q.v) /\ SameButDisk(w, q.v) /\ q.v.win = w.disk[s]
        BY <3>1, <3>3 DEF Holds
      <4>3. /\ HasFields(u) /\ u.disk = w.disk /\ u.win = w.disk[s] /\ u.sect = s
            /\ u.dirty = FALSE /\ u.last = w.last /\ u.free = w.free /\ u.info = w.info
            /\ u.fault = q.v.fault
        <5>1. /\ HasFields(u) /\ u.disk = q.v.disk /\ u.win = q.v.win
              /\ u.sect = s /\ u.dirty = q.v.dirty /\ u.last = q.v.last /\ u.free = q.v.free
              /\ u.info = q.v.info /\ u.fault = q.v.fault
          BY <4>2, Assigned
        <5> QED  BY <3>0, <3>1, <4>2, <5>1 DEF SameButDisk
      <4> HIDE DEF u
      <4>4. IsVolume(u)
        <5>1. s \in FatSectors  BY Sectors
        <5>2. w.disk[s] \in [EntriesOf(s[3]) -> Link]  BY <3>0, <5>1 DEF IsDisk
        <5> QED  BY <3>0, <3>1, <4>3, <5>2 DEF IsVolume
      <4>5. DiskFat(u.disk) = Fat(u)
        BY <3>0, <4>3, <4>4, Flushed
      <4>6. Within(u, G)
        <5>1. Fat(v) \in G  BY DEF Within
        <5> QED  BY <3>0, <3>1, <4>3, <4>4, <4>5, <5>1 DEF Within, Stopped
      <4>7. Moves(w, u)
        BY <3>0, <3>1, <4>3, <4>5 DEF Moves, Follows
      <4>8. Moves(v, u)  BY <2>1, <4>7, MovesOn
      <4> QED  BY <4>1, <4>3, <4>6, <4>8
    <3> QED  BY <3>2, <3>3
  <2> QED  BY <2>3, <2>4
<1> QED  BY <1>1, <1>2

----------------------------------------------------------------------------
(* get_fat and put_fat.                                                    *)

\* get_fat has the entry that the program sees, or fails; it changes nothing.
LEMMA EntryGot ==
  ASSUME NEW G, NEW v, Within(v, G), NEW c \in Clusters, NEW r, r = GetFat(v, c)
  PROVE  /\ Within(r.v, G) /\ Moves(v, r.v)
         /\ \/ r.val = Fat(v)[c] /\ r.v.sect = FatSector(0, c)
            \/ r.val = Max32 /\ FailsToo(v, "FR_DISK_ERR") /\ r.v.fault = NoFault
<1> DEFINE s == FatSector(0, c)
           m == MoveWindow(v, s)
<1>1. c \in FatEntries /\ s \in FirstCopy
  <2>1. c \in FatEntries  BY DEF Clusters, FatEntries
  <2> QED  BY <2>1, Sectors
<1>2. r = EntryIn(m, c)  BY DEF GetFat
<1> HIDE DEF s
<1>3. /\ Within(m.v, G) /\ Moves(v, m.v)
      /\ \/ m.res = "FR_OK" /\ m.v.sect = s
         \/ FailsToo(v, m.res) /\ m.v.fault = NoFault
  BY <1>1, WindowMoved
<1> HIDE DEF m
<1>4. r.v = m.v /\ r.val = IF m.res = "FR_OK" THEN m.v.win[c] ELSE Max32
  BY <1>2 DEF EntryIn, Value
<1>5. CASE m.res = "FR_OK"
  <2>1. m.v.sect = s  BY <1>3, <1>5 DEF FailsToo
  <2>2. m.v.win[c] = Fat(m.v)[c]  BY <1>1, <2>1 DEF Fat, FatEntry, Seen, s
  <2> QED  BY <1>3, <1>4, <1>5, <2>1, <2>2 DEF Moves, s
<1>6. CASE m.res # "FR_OK"
  BY <1>3, <1>4, <1>6 DEF FailsToo
<1> QED  BY <1>5, <1>6

\* put_fat sets the entry in what the program sees and touches no other, or fails and changes
\* nothing. The window is a sector when it is marked to be written back, also when it fails.
LEMMA EntryPut ==
  ASSUME NEW G, NEW v, Within(v, G), v.sect \in FirstCopy, NEW c \in Clusters, NEW val \in Link,
         [Fat(v) EXCEPT ![c] = val] \in G, NEW r, r = PutFat(v, c, val)
  PROVE  /\ IsReport(r) /\ Within(r.v, G) /\ Follows(v, r.v) /\ r.v.sect \in FirstCopy
         /\ r.v.last = v.last /\ r.v.free = v.free /\ r.v.info = v.info
         /\ r.v.disk[FsInfo] = v.disk[FsInfo]
         /\ \/ r.res = "FR_OK" /\ Fat(r.v) = [Fat(v) EXCEPT ![c] = val]
            \/ FailsToo(v, r.res) /\ Fat(r.v) = Fat(v)
<1> DEFINE s == FatSector(0, c)
           m == MoveWindow(v, s)
           u == [m.v EXCEPT !.win[c] = val]
           w == [u EXCEPT !.dirty = TRUE]
           x == [m.v EXCEPT !.dirty = TRUE]
<1>1. c \in FatEntries /\ s \in FirstCopy /\ s \in FatSectors /\ c \in EntriesOf(s[3])
  <2>1. c \in FatEntries  BY DEF Clusters, FatEntries
  <2> QED  BY <2>1, Sectors
<1>2. r = IF m.res = "FR_OK" THEN Dirtied(Ok(u)) ELSE Dirtied(m)
  BY DEF PutFat, EntryTo
<1>3. \A t \in FirstCopy : t # s => c \notin EntriesOf(t[3])
  BY Sectors
<1> HIDE DEF s
<1>4. /\ IsReport(m) /\ Within(m.v, G) /\ Moves(v, m.v)
      /\ \/ m.res = "FR_OK" /\ m.v.sect = s
         \/ FailsToo(v, m.res) /\ m.v.sect = v.sect
  BY <1>1, WindowMoved
<1>5. m.v.sect \in FirstCopy
  BY <1>1, <1>4
<1> HIDE DEF m
<1>6. CASE m.res = "FR_OK"
  <2>1. m.v.sect = s /\ Fat(m.v) = Fat(v)  BY <1>4, <1>6 DEF FailsToo, Moves
  <2>2. r.v = w /\ r.res = "FR_OK" /\ IsReport(r)
    <3>1. r = Dirtied(Ok(u))  BY <1>2, <1>6
    <3> HIDE DEF u
    <3> QED  BY <3>1 DEF Dirtied, Ok, Failed, IsReport
  <2>3. HasFields(m.v) /\ IsVolume(m.v)  BY <1>4 DEF Within, IsVolume
  <2>4. /\ HasFields(u) /\ u.disk = m.v.disk /\ u.win = [m.v.win EXCEPT ![c] = val]
        /\ u.sect = m.v.sect /\ u.dirty = m.v.dirty /\ u.last = m.v.last /\ u.free = m.v.free
        /\ u.info = m.v.info /\ u.fault = m.v.fault
    BY <2>3 DEF HasFields
  <2> HIDE DEF u
  <2>5. /\ HasFields(w) /\ w.disk = u.disk /\ w.win = u.win
        /\ w.sect = u.sect /\ w.dirty = TRUE /\ w.last = u.last /\ w.free = u.free
        /\ w.info = u.info /\ w.fault = u.fault
    BY <2>4, Assigned
  <2> HIDE DEF w
  <2>6. m.v.win \in [EntriesOf(s[3]) -> Link]  BY <1>1, <2>1, <2>3 DEF IsVolume
  <2>7. w.win = [m.v.win EXCEPT ![c] = val] /\ w.win \in [EntriesOf(s[3]) -> Link]
    BY <1>1, <2>4, <2>5, <2>6
  <2>8. IsVolume(w)
    <3>1. NoSector # s  BY <1>1, Sectors
    <3> QED  BY <1>1, <2>1, <2>3, <2>4, <2>5, <2>7, <3>1 DEF IsVolume
  <2>9. Fat(w) = [Fat(v) EXCEPT ![c] = val]
    <3>1. ASSUME NEW d \in FatEntries
          PROVE  FatEntry(w, d) = IF d = c THEN val ELSE FatEntry(m.v, d)
      <4>1. CASE FatSector(0, d) = s
        <5>1. d \in EntriesOf(s[3])  BY <4>1, Sectors
        <5>2. FatEntry(w, d) = w.win[d] /\ FatEntry(m.v, d) = m.v.win[d]
          BY <2>1, <2>4, <2>5, <4>1 DEF FatEntry, Seen
        <5> QED  BY <1>1, <2>6, <2>7, <5>1, <5>2
      <4>2. CASE FatSector(0, d) # s
        <5>1. d # c  BY <4>2 DEF s
        <5>2. FatEntry(w, d) = w.disk[FatSector(0, d)][d]
              /\ FatEntry(m.v, d) = m.v.disk[FatSector(0, d)][d]
          BY <2>1, <2>4, <2>5, <4>2 DEF FatEntry, Seen
        <5> QED  BY <2>4, <2>5, <5>1, <5>2
      <4> QED  BY <4>1, <4>2
    <3>2. Fat(m.v) = [d \in FatEntries |-> FatEntry(m.v, d)]
          /\ Fat(w) = [d \in FatEntries |-> FatEntry(w, d)]
      BY DEF Fat
    <3> QED  BY <1>1, <2>1, <3>1, <3>2
  <2>10. Within(w, G)
    BY <1>4, <2>4, <2>5, <2>8, <2>9 DEF Within, Stopped
  <2>11. Follows(v, w)
    BY <1>4, <2>4, <2>5 DEF Moves, Follows
  <2> QED  BY <1>4, <1>1, <2>1, <2>2, <2>4, <2>5, <2>9, <2>10, <2>11 DEF Moves
<1>7. CASE m.res # "FR_OK"
  <2>1. FailsToo(v, m.res) /\ Fat(m.v) = Fat(v)  BY <1>4, <1>7 DEF Moves
  <2>2. r.v = x /\ r.res = m.res
    <3>1. r = Dirtied(m)  BY <1>2, <1>7
    <3> QED  BY <1>4, <3>1 DEF Dirtied, Failed, IsReport
  <2>3. IsReport(r)
    <3>1. r = Dirtied(m)  BY <1>2, <1>7
    <3> QED  BY <1>4, <3>1 DEF Dirtied, Failed, IsReport
  <2>4. HasFields(m.v) /\ IsVolume(m.v)  BY <1>4 DEF Within, IsVolume
  <2>5. /\ HasFields(x) /\ x.disk = m.v.disk /\ x.win = m.v.win
        /\ x.sect = m.v.sect /\ x.dirty = TRUE /\ x.last = m.v.last /\ x.free = m.v.free
        /\ x.info = m.v.info /\ x.fault = m.v.fault
    BY <2>4, Assigned
  <2> HIDE DEF x
  <2>6. IsVolume(x)
    <3>1. x.sect # NoSector  BY <1>5, <2>5, Sectors
    <3> QED  BY <2>4, <2>5, <3>1 DEF IsVolume
  <2>7. Fat(x) = Fat(v)
    BY <2>1, <2>5 DEF Fat, FatEntry, Seen
  <2>8. Within(x, G)
    BY <1>4, <2>5, <2>6, <2>7 DEF Within, Stopped
  <2>9. Follows(v, x)
    BY <1>4, <2>5 DEF Moves, Follows
  <2> QED  BY <1>4, <1>5, <2>1, <2>2, <2>3, <2>5, <2>7, <2>8, <2>9 DEF Moves
<1> QED  BY <1>6, <1>7

\* If it fails, the FAT that was to be there need not be one that is allowed.
LEMMA PutFailed ==
  ASSUME NEW G, NEW v, Within(v, G), v.sect \in FirstCopy, NEW c \in Clusters, NEW val,
         NEW r, r = PutFat(v, c, val), r.res # "FR_OK"
  PROVE  Within(r.v, G)
<1> DEFINE s == FatSector(0, c)
           m == MoveWindow(v, s)
           u == [m.v EXCEPT !.win[c] = val]
           x == [m.v EXCEPT !.dirty = TRUE]
<1>1. s \in FirstCopy
  <2>1. c \in FatEntries  BY DEF Clusters, FatEntries
  <2> QED  BY <2>1, Sectors
<1>2. r = IF m.res = "FR_OK" THEN Dirtied(Ok(u)) ELSE Dirtied(m)
  BY DEF PutFat, EntryTo
<1> HIDE DEF s, u
<1>3. /\ IsReport(m) /\ Within(m.v, G) /\ Moves(v, m.v)
      /\ \/ m.res = "FR_OK" /\ m.v.sect = s
         \/ FailsToo(v, m.res) /\ m.v.sect = v.sect
  BY <1>1, WindowMoved
<1>4. m.v.sect \in FirstCopy
  BY <1>1, <1>3
<1> HIDE DEF m
<1>5. r = Dirtied(m)
  <2>1. Dirtied(Ok(u)).res = "FR_OK"  BY DEF Dirtied, Ok
  <2> QED  BY <1>2, <2>1
<1>6. r.v = x
  BY <1>3, <1>5 DEF Dirtied, Failed, IsReport
<1>7. HasFields(m.v) /\ IsVolume(m.v)  BY <1>3 DEF Within, IsVolume
<1>8. /\ HasFields(x) /\ x.disk = m.v.disk /\ x.win = m.v.win
      /\ x.sect = m.v.sect /\ x.dirty = TRUE /\ x.last = m.v.last /\ x.free = m.v.free
      /\ x.info = m.v.info /\ x.fault = m.v.fault
  BY <1>7, Assigned
<1> HIDE DEF x
<1>9. IsVolume(x)
  <2>1. x.sect # NoSector  BY <1>4, <1>8, Sectors
  <2> QED  BY <1>7, <1>8, <2>1 DEF IsVolume
<1>10. Fat(x) = Fat(m.v)
  BY <1>8 DEF Fat, FatEntry, Seen
<1> QED  BY <1>3, <1>6, <1>8, <1>9, <1>10 DEF Within, Stopped

----------------------------------------------------------------------------
(* sync_fs and the count of free clusters.                                 *)

FreeOf(F) == {c \in Clusters : F[c] = 0}

\* free_clust is known to be right or not known, and FSInfo has it when it is not to be written.
Counted(v) ==
  /\ v.free \in {Max32, Cardinality(FreeOf(Fat(v)))}
  /\ Fat32 /\ ~v.info => v.disk[FsInfo].free = v.free

\* A count that is right stays right when nothing fails.
KeepsCount(v, w) == v.fault = NoFault /\ Counted(v) => Counted(w)

\* The count does not depend on what is in the window.
LEMMA MovesKeepCount ==
  ASSUME NEW v, NEW w, Moves(v, w)
  PROVE  KeepsCount(v, w)
  BY DEF Moves, KeepsCount, Counted

\* Two steps that follow each other.
LEMMA CountKept2 ==
  ASSUME NEW u, NEW v, NEW w, Follows(u, v), KeepsCount(u, v), KeepsCount(v, w)
  PROVE  KeepsCount(u, w)
  BY DEF Follows, FaultAfter, KeepsCount

\* FSInfo is replaced on the disk.
LEMMA InfoReplaced ==
  ASSUME NEW d, IsDisk(d), NEW x, NEW e, WrittenTo(d, FsInfo, x, e)
  PROVE  /\ IsDisk(e) /\ e[FsInfo] = x
         /\ \A t \in FatSectors : e[t] = d[t]
<1>1. DOMAIN d = FatSectors \cup {FsInfo}
  BY DEF IsDisk
<1>2. /\ e = [t \in FatSectors \cup {FsInfo} |-> e[t]]
      /\ \A t \in FatSectors \cup {FsInfo} : e[t] = IF t = FsInfo THEN x ELSE d[t]
  BY <1>1 DEF WrittenTo
<1>3. FsInfo \notin FatSectors  BY Sectors
<1>4. \A t \in FatSectors : e[t] = d[t]  BY <1>2, <1>3
<1>5. \A t \in FatSectors : e[t] \in [EntriesOf(t[3]) -> Link]  BY <1>4 DEF IsDisk
<1> QED  BY <1>2, <1>4, <1>5 DEF IsDisk

\* The window and its sector are replaced.
WindowIs(v, s, x, u) == u = [v EXCEPT !.sect = s, !.win = x]

\* Nothing else of the volume is.
LEMMA WindowReplaced ==
  ASSUME NEW v, HasFields(v), NEW s, NEW x, NEW u, WindowIs(v, s, x, u)
  PROVE  /\ HasFields(u) /\ u.disk = v.disk /\ u.win = x
         /\ u.sect = s /\ u.dirty = v.dirty /\ u.last = v.last /\ u.free = v.free
         /\ u.info = v.info /\ u.fault = v.fault
<1> DEFINE w == [v EXCEPT !.sect = s]
<1>1. /\ HasFields(w) /\ w.disk = v.disk /\ w.win = v.win
      /\ w.sect = s /\ w.dirty = v.dirty /\ w.last = v.last /\ w.free = v.free
      /\ w.info = v.info /\ w.fault = v.fault
  BY DEF HasFields
<1>2. u = [w EXCEPT !.win = x]  BY DEF WindowIs
<1> HIDE DEF w
<1> QED  BY <1>1, <1>2 DEF HasFields

\* FSInfo is written, or not, when nothing else is to be.
LEMMA InfoWritten ==
  ASSUME NEW G, NEW v, Within(v, G), v.dirty = FALSE, DiskFat(v.disk) = Fat(v),
         NEW w, w = WriteInfo(v)
  PROVE  /\ Within(w, G) /\ Follows(v, w) /\ Fat(w) = Fat(v) /\ DiskFat(w.disk) = Fat(v)
         /\ KeepsCount(v, w)
<1> DEFINE u == [v EXCEPT !.sect = NoSector, !.win = InfoOf(v)]
           q == DiskWrite(u, FsInfo, InfoOf(v))
<1>0. /\ IsVolume(v) /\ HasFields(v) /\ IsFault(v.fault) /\ IsDisk(v.disk)
      /\ DiskFat(v.disk) \in G /\ (Stopped(v) => DiskFat(v.fault.image) \in G)
  BY DEF Within, IsVolume
<1>1. /\ HasFields(u) /\ u.disk = v.disk /\ u.win = InfoOf(v)
      /\ u.sect = NoSector /\ u.dirty = v.dirty /\ u.last = v.last /\ u.free = v.free
      /\ u.info = v.info /\ u.fault = v.fault
  <2> DEFINE x == InfoOf(v)
  <2>1. WindowIs(v, NoSector, x, u)  BY DEF WindowIs
  <2> HIDE DEF x, u
  <2>2. /\ HasFields(u) /\ u.disk = v.disk /\ u.win = x
        /\ u.sect = NoSector /\ u.dirty = v.dirty /\ u.last = v.last /\ u.free = v.free
        /\ u.info = v.info /\ u.fault = v.fault
    BY <1>0, <2>1, WindowReplaced
  <2> QED  BY <2>2 DEF x
<1>2. w = [q.v EXCEPT !.info = FALSE]
  BY DEF WriteInfo
<1> HIDE DEF u
<1>3. /\ IsReport(q) /\ Holds(u, q.v) /\ q.v.win = u.win
      /\ IsFault(q.v.fault) /\ FaultAfter(u.fault, q.v.fault)
      /\ Stopped(q.v) => q.v.fault.image = u.disk \/ (Stopped(u) /\ q.v.fault = u.fault)
      /\ \/ q.res = "FR_OK" /\ WrittenTo(u.disk, FsInfo, InfoOf(v), q.v.disk)
         \/ q.res = "FR_DISK_ERR" /\ q.v.disk = u.disk /\ u.fault.kind = "write"
  BY <1>0, <1>1, Writes
<1> HIDE DEF q
<1>4. /\ IsDisk(q.v.disk) /\ \A t \in FatSectors : q.v.disk[t] = v.disk[t]
      /\ v.fault = NoFault => q.v.disk[FsInfo] = InfoOf(v)
  <2>1. CASE WrittenTo(u.disk, FsInfo, InfoOf(v), q.v.disk)
    <3> DEFINE d == v.disk
               x == InfoOf(v)
               e == q.v.disk
    <3>1. IsDisk(d) /\ WrittenTo(d, FsInfo, x, e)  BY <1>0, <1>1, <2>1
    <3> HIDE DEF d, x, e
    <3>2. IsDisk(e) /\ e[FsInfo] = x /\ \A t \in FatSectors : e[t] = d[t]
      BY <3>1, InfoReplaced
    <3> QED  BY <3>2 DEF d, x, e
  <2>2. CASE q.v.disk = u.disk /\ u.fault.kind = "write"
    <3>1. v.fault # NoFault  BY <1>1, <2>2 DEF NoFault, Fault
    <3> QED  BY <1>0, <1>1, <2>2, <3>1
  <2> QED  BY <1>3, <2>1, <2>2
<1>5. /\ HasFields(w) /\ w.disk = q.v.disk /\ w.win = InfoOf(v) /\ w.sect = NoSector
      /\ w.dirty = FALSE /\ w.last = v.last /\ w.free = v.free /\ w.info = FALSE
      /\ w.fault = q.v.fault
  <2>1. HasFields(q.v) /\ SameButDisk(u, q.v)  BY <1>3 DEF Holds
  <2>2. /\ HasFields(w) /\ w.disk = q.v.disk /\ w.win = q.v.win /\ w.sect = q.v.sect
        /\ w.dirty = q.v.dirty /\ w.last = q.v.last /\ w.free = q.v.free /\ w.info = FALSE
        /\ w.fault = q.v.fault
    BY <1>2, <2>1 DEF HasFields
  <2> QED  BY <1>1, <1>3, <2>1, <2>2 DEF SameButDisk
<1>6. NoSector \notin FirstCopy
  BY Sectors
<1>7. IsVolume(w)
  BY <1>3, <1>4, <1>5, <1>6 DEF IsVolume
<1>8. DiskFat(w.disk) = Fat(v) /\ Fat(w) = Fat(v)
  <2>1. \A c \in FatEntries : FatSector(0, c) \in FirstCopy /\ FatSector(0, c) \in FatSectors
    BY Sectors
  <2>2. \A c \in FatEntries : FatSector(0, c) # w.sect  BY <1>5, <1>6, <2>1
  <2>3. DiskFat(w.disk) = DiskFat(v.disk)  BY <1>4, <1>5, <2>1 DEF DiskFat
  <2>4. Fat(w) = DiskFat(w.disk)  BY <2>2 DEF Fat, FatEntry, Seen, DiskFat
  <2> QED  BY <2>3, <2>4
<1>9. Within(w, G)
  BY <1>0, <1>1, <1>3, <1>5, <1>7, <1>8 DEF Within, Stopped
<1>10. Follows(v, w)
  <2>1. FaultAfter(v.fault, w.fault)  BY <1>1, <1>3, <1>5
  <2>2. Mirrored(v.disk) => Mirrored(w.disk)
    <3>1. \A s \in FatSectors : FirstOf(s) \in FatSectors  BY Sectors
    <3> QED  BY <1>4, <1>5, <3>1 DEF Mirrored
  <2> QED  BY <2>1, <2>2 DEF Follows
<1>11. KeepsCount(v, w)
  <2>1. InfoOf(v).free = v.free  BY DEF InfoOf
  <2> QED  BY <1>4, <1>5, <1>8, <2>1 DEF KeepsCount, Counted
<1> QED  BY <1>8, <1>9, <1>10, <1>11

\* sync_fs leaves the FAT that the program sees on the disk, or fails; it changes no entry.
LEMMA FsSynced ==
  ASSUME NEW G, NEW v, Within(v, G), NEW r, r = SyncFs(v)
  PROVE  /\ Within(r.v, G) /\ Follows(v, r.v) /\ Fat(r.v) = Fat(v) /\ KeepsCount(v, r.v)
         /\ \/ r.res = "FR_OK" /\ DiskFat(r.v.disk) = Fat(v)
            \/ FailsToo(v, r.res)
<1> DEFINE p == SyncWindow(v)
<1>1. /\ IsReport(p) /\ Within(p.v, G) /\ Moves(v, p.v)
      /\ p.v.sect = v.sect /\ p.v.win = v.win
      /\ \/ p.res = "FR_OK" /\ p.v.dirty = FALSE /\ DiskFat(p.v.disk) = Fat(v)
         \/ FailsToo(v, p.res) /\ p.v.dirty = TRUE /\ v.dirty = TRUE
  <2>1. WrittenBack(G, v, p)  BY Syncs
  <2> QED  BY <2>1 DEF WrittenBack
<1>2. IF p.res = "FR_OK" THEN r = Ok(IF Fat32 /\ p.v.info THEN WriteInfo(p.v) ELSE p.v) ELSE r = p
  BY DEF SyncFs, Then
<1> HIDE DEF p
<1>3. Fat(p.v) = Fat(v) /\ Follows(v, p.v) /\ KeepsCount(v, p.v)
  BY <1>1, MovesKeepCount DEF Moves
<1>4. CASE p.res # "FR_OK"
  BY <1>1, <1>2, <1>3, <1>4
<1>5. CASE p.res = "FR_OK" /\ ~(Fat32 /\ p.v.info)
  <2>1. r.v = p.v /\ r.res = "FR_OK"  BY <1>2, <1>5 DEF Ok
  <2> QED  BY <1>1, <1>3, <1>5, <2>1 DEF FailsToo
<1>6. CASE p.res = "FR_OK" /\ Fat32 /\ p.v.info
  <2> DEFINE u == p.v
             w == WriteInfo(u)
  <2>1. r.v = w /\ r.res = "FR_OK"  BY <1>2, <1>6 DEF Ok
  <2>2. Within(u, G) /\ u.dirty = FALSE /\ DiskFat(u.disk) = Fat(u)
    BY <1>1, <1>3, <1>6 DEF FailsToo
  <2> HIDE DEF u
  <2>3. /\ Within(w, G) /\ Follows(u, w) /\ Fat(w) = Fat(u) /\ DiskFat(w.disk) = Fat(u)
        /\ KeepsCount(u, w)
    BY <2>2, InfoWritten
  <2>4. Follows(v, w) /\ KeepsCount(v, w)
    BY <1>3, <2>3, FollowsThrough, CountKept2 DEF u
  <2> QED  BY <1>3, <2>1, <2>3, <2>4 DEF u
<1> QED  BY <1>4, <1>5, <1>6

----------------------------------------------------------------------------
(* Numbers, and how many clusters are free.                                *)

\* A set of numbers that is not empty has a least one.
LEMMA LeastOf ==
  ASSUME NEW T \in SUBSET Nat, T # {}
  PROVE  \E x \in T : \A y \in T : x <= y
<1>1. \E x \in T : \A y \in T : ~(<<y, x>> \in OpToRel(<, Nat))
  BY NatLessThanWellFounded, WFMin, Zenon
<1>2. PICK x \in T : \A y \in T : ~(y < x)
  BY <1>1, Zenon DEF OpToRel
<1> QED  BY <1>2

\* What holds for 0, and for the next number with every one, holds for all numbers.
LEMMA Inductive ==
  ASSUME NEW S, 0 \in S, \A n \in Nat : n \in S => n + 1 \in S
  PROVE  \A n \in Nat : n \in S
<1> DEFINE T == Nat \ S
<1> SUFFICES ASSUME T # {} PROVE FALSE
  OBVIOUS
<1>1. PICK x \in T : \A y \in T : x <= y
  BY LeastOf
<1>2. x # 0 /\ x \in Nat /\ x \notin S
  OBVIOUS
<1>3. x - 1 \in Nat /\ (x - 1) + 1 = x /\ ~(x <= x - 1)
  BY <1>2
<1>4. x - 1 \in S
  BY <1>1, <1>3
<1> QED  BY <1>2, <1>3, <1>4

\* The values that are no cluster.
LEMMA Numbers ==
  /\ NFatEnt \in Nat /\ 3 <= NFatEnt /\ NFatEnt <= LastLink
  /\ LastLink \in Nat /\ Max32 = LastLink + 1 /\ Max32 \notin Link
  /\ Clusters = 2..(NFatEnt - 1) /\ Clusters \subseteq FatEntries /\ Clusters \subseteq Link
  /\ 0 \in Link /\ LastLink \in Link /\ LastLink # 0
<1>1. LastLink \in Nat /\ 3 <= LastLink  BY DEF LastLink
<1>2. NFatEnt \in 3..LastLink  BY GeometryAssumption
<1>3. Max32 = LastLink + 1 /\ Clusters = 2..(NFatEnt - 1)  BY DEF Max32, Clusters
<1> QED  BY <1>1, <1>2, <1>3 DEF FatEntries, Link

\* There are NFatEnt - 2 clusters.
LEMMA HowManyClusters ==
  /\ IsFiniteSet(Clusters) /\ Cardinality(Clusters) = NFatEnt - 2
<1>1. 2 \in Int /\ NFatEnt - 1 \in Int /\ ~(2 > NFatEnt - 1)  BY Numbers
<1>2. IsFiniteSet(2..(NFatEnt - 1))
      /\ Cardinality(2..(NFatEnt - 1)) = IF 2 > NFatEnt - 1 THEN 0 ELSE (NFatEnt - 1) - 2 + 1
  BY <1>1, FS_Interval
<1> QED  BY <1>1, <1>2, Numbers

\* Their number is a number that free_clust can hold.
LEMMA FreeCount ==
  ASSUME NEW F
  PROVE  /\ IsFiniteSet(FreeOf(F)) /\ Cardinality(FreeOf(F)) \in Nat
         /\ Cardinality(FreeOf(F)) <= NFatEnt - 2 /\ Cardinality(FreeOf(F)) # Max32
         /\ FreeOf(F) # {} => Cardinality(FreeOf(F)) # 0
<1>1. FreeOf(F) \in SUBSET Clusters  BY DEF FreeOf
<1>2. IsFiniteSet(FreeOf(F)) /\ Cardinality(FreeOf(F)) <= NFatEnt - 2
  BY <1>1, HowManyClusters, FS_Subset
<1>3. Cardinality(FreeOf(F)) \in Nat  BY <1>2, FS_CardinalityType
<1>4. FreeOf(F) # {} => Cardinality(FreeOf(F)) # 0  BY <1>2, FS_EmptySet
<1> QED  BY <1>2, <1>3, <1>4, Numbers

\* One more is free when an entry becomes 0.
LEMMA OneFreed ==
  ASSUME NEW F \in Fats, NEW c \in Clusters, F[c] # 0
  PROVE  Cardinality(FreeOf([F EXCEPT ![c] = 0])) = Cardinality(FreeOf(F)) + 1
<1>1. c \in FatEntries  BY Numbers
<1>2. FreeOf([F EXCEPT ![c] = 0]) = FreeOf(F) \cup {c}
  BY <1>1, Numbers DEF FreeOf, Fats
<1>3. c \notin FreeOf(F)  BY DEF FreeOf
<1> QED  BY <1>2, <1>3, FreeCount, FS_AddElement

\* One less is when it becomes something else.
LEMMA OneTaken ==
  ASSUME NEW F \in Fats, NEW c \in Clusters, F[c] = 0, NEW x, x # 0
  PROVE  Cardinality(FreeOf([F EXCEPT ![c] = x])) = Cardinality(FreeOf(F)) - 1
<1>1. c \in FatEntries  BY Numbers
<1>2. FreeOf([F EXCEPT ![c] = x]) = FreeOf(F) \ {c}
  BY <1>1, Numbers DEF FreeOf, Fats
<1>3. c \in FreeOf(F)  BY DEF FreeOf
<1> QED  BY <1>2, <1>3, FreeCount, FS_RemoveElement

\* As many are free when an entry that is not 0 becomes another that is not.
LEMMA NoneFreed ==
  ASSUME NEW F \in Fats, NEW c \in Clusters, F[c] # 0, NEW x, x # 0
  PROVE  FreeOf([F EXCEPT ![c] = x]) = FreeOf(F)
<1>1. c \in FatEntries  BY Numbers
<1> QED  BY <1>1, Numbers DEF FreeOf, Fats

\* The program sees a FAT.
LEMMA FatSeen ==
  ASSUME NEW v, IsVolume(v)
  PROVE  Fat(v) \in Fats
<1> SUFFICES ASSUME NEW c \in FatEntries PROVE FatEntry(v, c) \in Link
  BY DEF Fat, Fats
<1>1. FatSector(0, c) \in FirstCopy /\ c \in EntriesOf(FatSector(0, c)[3])
      /\ FatSector(0, c) \in FatSectors
  BY Sectors
<1>2. v.disk[FatSector(0, c)] \in [EntriesOf(FatSector(0, c)[3]) -> Link]
  BY <1>1 DEF IsVolume, IsDisk
<1>3. v.sect = FatSector(0, c) => v.win \in [EntriesOf(FatSector(0, c)[3]) -> Link]
  BY <1>1 DEF IsVolume
<1> QED  BY <1>1, <1>2, <1>3 DEF FatEntry, Seen

----------------------------------------------------------------------------
(* remove_chain.                                                           *)

\* The rounds of remove_chain.
LEMMA RemovingRounds ==
  ASSUME NEW v, NEW c
  PROVE  \E f : /\ f[0] = Removing(v, c)
                /\ \A n \in 1..NFatEnt : f[n] = RemoveRound(f[n - 1])
                /\ RemoveFrom(v, c) = Failed(f[NFatEnt].v, f[NFatEnt].res)
<1> DEFINE Rounds(f, m) ==
             f = [n \in 0..m |-> IF n = 0 THEN Removing(v, c) ELSE RemoveRound(f[n - 1])]
           S == {m \in Nat : \E f : Rounds(f, m)}
           after[n \in 0..NFatEnt] ==
             IF n = 0 THEN Removing(v, c) ELSE RemoveRound(after[n - 1])
<1>1. 0 \in S
  <2>1. Rounds([n \in 0..0 |-> Removing(v, c)], 0)  OBVIOUS
  <2> QED  BY <2>1
<1>2. ASSUME NEW m \in Nat, m \in S PROVE m + 1 \in S
  <2>1. PICK g : Rounds(g, m)  BY <1>2
  <2> DEFINE f == [n \in 0..(m + 1) |-> IF n = m + 1 THEN RemoveRound(g[m]) ELSE g[n]]
  <2>2. \A n \in 0..m : g[n] = IF n = 0 THEN Removing(v, c) ELSE RemoveRound(g[n - 1])
    BY <2>1
  <2>3. ASSUME NEW n \in 0..(m + 1)
        PROVE  f[n] = IF n = 0 THEN Removing(v, c) ELSE RemoveRound(f[n - 1])
    <3>1. CASE n = m + 1
      <4>1. f[n - 1] = g[m] /\ n # 0  BY <3>1
      <4> QED  BY <3>1, <4>1
    <3>2. CASE n \in 1..m
      <4>1. f[n] = g[n] /\ f[n - 1] = g[n - 1]  BY <3>2
      <4> QED  BY <2>2, <3>2, <4>1
    <3>3. CASE n = 0
      BY <2>2, <3>3
    <3> QED  BY <3>1, <3>2, <3>3
  <2>4. Rounds(f, m + 1)
    <3>1. f = [n \in 0..(m + 1) |-> f[n]]  OBVIOUS
    <3> HIDE DEF f
    <3> QED  BY <2>3, <3>1
  <2>5. m + 1 \in Nat  OBVIOUS
  <2> HIDE DEF f, Rounds
  <2> QED  BY <2>4, <2>5
<1> HIDE DEF S
<1>3. NFatEnt \in S
  BY <1>1, <1>2, Inductive, Numbers
<1>4. Rounds(after, NFatEnt)
  <2>1. after = CHOOSE f : Rounds(f, NFatEnt)  BY Zenon DEF Rounds
  <2>2. \E f : Rounds(f, NFatEnt)  BY <1>3 DEF S
  <2> HIDE DEF after, Rounds
  <2> QED  BY <2>1, <2>2
<1>5. RemoveFrom(v, c) = Failed(after[NFatEnt].v, after[NFatEnt].res)
  BY Zenon DEF RemoveFrom, Iterate
<1> HIDE DEF after
<1>6. after[0] = Removing(v, c) /\ \A n \in 1..NFatEnt : after[n] = RemoveRound(after[n - 1])
  <2>1. \A n \in 0..NFatEnt :
          after[n] = IF n = 0 THEN Removing(v, c) ELSE RemoveRound(after[n - 1])
    BY <1>4
  <2>2. 0 \in 0..NFatEnt /\ \A n \in 1..NFatEnt : n \in 0..NFatEnt /\ n # 0  BY Numbers
  <2> QED  BY <2>1, <2>2
<1> QED BY <1>5, <1>6

\* The count and its flag are set.
LEMMA FreedCounted ==
  ASSUME NEW v, HasFields(v), NEW w, w = CountFreed(v)
  PROVE  /\ HasFields(w) /\ w.disk = v.disk /\ w.win = v.win /\ w.sect = v.sect
         /\ w.dirty = v.dirty /\ w.last = v.last /\ w.fault = v.fault
         /\ v.free = Max32 => w.free = Max32 /\ w.info = v.info
         /\ v.free # Max32 => w.free = v.free + 1 /\ w.info = TRUE
  BY DEF CountFreed, HasFields

\* What the program sees does not depend on the count.
LEMMA SameSound ==
  ASSUME NEW G, NEW v, Within(v, G), NEW w, HasFields(w), w.disk = v.disk, w.win = v.win,
         w.sect = v.sect, w.dirty = v.dirty, w.fault = v.fault
  PROVE  Within(w, G) /\ Fat(w) = Fat(v) /\ Follows(v, w)
<1>1. Fat(w) = Fat(v)  BY DEF Fat, FatEntry, Seen
<1>2. IsVolume(w)  BY DEF Within, IsVolume
<1>3. Within(w, G)  BY <1>1, <1>2 DEF Within, Stopped
<1>4. Follows(v, w)  BY DEF Follows, FaultAfter
<1> QED  BY <1>1, <1>3, <1>4

\* What a round at cluster c of the FAT F leaves.
FreedOne(G, v, F, c, r) ==
  /\ Within(r.v, G) /\ Follows(v, r.v) /\ KeepsCount(v, r.v)
  /\ \/ r = Removing(r.v, F[c]) /\ Fat(r.v) = [F EXCEPT ![c] = 0]
     \/ r.on = FALSE /\ FailsToo(v, r.res) /\ Fat(r.v) = F

\* One round of remove_chain frees one cluster of a chain and goes to the next.
LEMMA RoundRemoves ==
  ASSUME NEW G, NEW v, Within(v, G), NEW c \in Clusters, NEW F, F = Fat(v), F[c] \in 2..LastLink,
         [F EXCEPT ![c] = 0] \in G, NEW r, r = RemoveRound(Removing(v, c))
  PROVE  FreedOne(G, v, F, c, r)
<1> USE DEF FreedOne
<1> DEFINE g == GetFat(v, c)
           p == PutFat(g.v, c, 0)
<1>0. /\ F \in Fats /\ F[c] # 0 /\ F[c] # 1 /\ F[c] # Max32 /\ 0 \in Link
      /\ IsFault(v.fault) /\ Max32 # 0 /\ Max32 # 1
  <2>1. IsVolume(v)  BY DEF Within
  <2>2. \A x \in 2..LastLink : x # 0 /\ x # 1 /\ x # Max32  BY Numbers
  <2> QED  BY <2>1, <2>2, FatSeen, Numbers DEF IsVolume
<1>1. r = RemoveNext(g, c)
  <2>1. c < NFatEnt  BY Numbers
  <2> QED  BY <2>1 DEF RemoveRound, Removing
<1>2. /\ Within(g.v, G) /\ Moves(v, g.v)
      /\ \/ g.val = F[c] /\ g.v.sect = FatSector(0, c)
         \/ g.val = Max32 /\ FailsToo(v, "FR_DISK_ERR")
  BY EntryGot
<1> HIDE DEF g
<1>3. Follows(v, g.v) /\ Fat(g.v) = F /\ KeepsCount(v, g.v)
  BY <1>2, MovesKeepCount DEF Moves
<1>4. CASE g.val = Max32
  <2>1. r = RemoveEnds(g.v, "FR_DISK_ERR")
    BY <1>0, <1>1, <1>4, Zenon DEF RemoveNext
  <2>2. r.v = g.v /\ r.on = FALSE /\ r.res = "FR_DISK_ERR"  BY <2>1 DEF RemoveEnds
  <2>3. FailsToo(v, "FR_DISK_ERR")  BY <1>0, <1>2, <1>4
  <2> QED  BY <1>2, <1>3, <2>2, <2>3
<1>5. CASE g.val # Max32
  <2>1. g.val = F[c] /\ g.v.sect = FatSector(0, c)  BY <1>2, <1>5
  <2>2. r = Cleared(p, F[c])
    <3>1. g.val # 0 /\ g.val # 1  BY <1>0, <2>1
    <3> QED  BY <1>1, <1>5, <2>1, <3>1, Zenon DEF RemoveNext
  <2>3. g.v.sect \in FirstCopy
    <3>1. c \in FatEntries  BY Numbers
    <3> QED  BY <2>1, <3>1, Sectors
  <2>4. [Fat(g.v) EXCEPT ![c] = 0] \in G  BY <1>3
  <2>5. /\ IsReport(p) /\ Within(p.v, G) /\ Follows(g.v, p.v) /\ p.v.sect \in FirstCopy
        /\ p.v.last = g.v.last /\ p.v.free = g.v.free /\ p.v.info = g.v.info
        /\ p.v.disk[FsInfo] = g.v.disk[FsInfo]
        /\ \/ p.res = "FR_OK" /\ Fat(p.v) = [Fat(g.v) EXCEPT ![c] = 0]
           \/ FailsToo(g.v, p.res) /\ Fat(p.v) = Fat(g.v)
    <3> DEFINE u == g.v
    <3>1. Within(u, G) /\ u.sect \in FirstCopy /\ [Fat(u) EXCEPT ![c] = 0] \in G /\ p = PutFat(u, c, 0)
      BY <1>2, <2>3, <2>4
    <3> HIDE DEF u, p
    <3>2. /\ IsReport(p) /\ Within(p.v, G) /\ Follows(u, p.v) /\ p.v.sect \in FirstCopy
          /\ p.v.last = u.last /\ p.v.free = u.free /\ p.v.info = u.info
          /\ p.v.disk[FsInfo] = u.disk[FsInfo]
          /\ \/ p.res = "FR_OK" /\ Fat(p.v) = [Fat(u) EXCEPT ![c] = 0]
             \/ FailsToo(u, p.res) /\ Fat(p.v) = Fat(u)
      BY <1>0, <3>1, EntryPut
    <3> QED  BY <3>2 DEF u
  <2> HIDE DEF p
  <2>6. Follows(v, p.v)  BY <1>3, <2>5, FollowsThrough
  <2>7. CASE p.res # "FR_OK"
    <3>1. r.v = p.v /\ r.on = FALSE /\ r.res = p.res  BY <2>2, <2>7 DEF Cleared, RemoveEnds
    <3>2. FailsToo(v, p.res) /\ Fat(p.v) = F
      BY <1>0, <1>3, <2>5, <2>7, FailsAfter
    <3>3. KeepsCount(v, p.v)
      <4>1. v.fault # NoFault  BY <3>2 DEF FailsToo, NoFault, Fault
      <4> QED  BY <4>1 DEF KeepsCount
    <3> QED  BY <2>5, <2>6, <3>1, <3>2, <3>3
  <2>8. CASE p.res = "FR_OK"
    <3> DEFINE w == CountFreed(p.v)
    <3>1. r = Removing(w, F[c])  BY <2>2, <2>8 DEF Cleared
    <3>2. r.v = w  BY <3>1 DEF Removing
    <3>3. Fat(p.v) = [F EXCEPT ![c] = 0]  BY <1>3, <2>5, <2>8 DEF FailsToo
    <3>4. HasFields(p.v)  BY <2>5 DEF Within, IsVolume
    <3>5. /\ HasFields(w) /\ w.disk = p.v.disk /\ w.win = p.v.win /\ w.sect = p.v.sect
          /\ w.dirty = p.v.dirty /\ w.last = p.v.last /\ w.fault = p.v.fault
          /\ p.v.free = Max32 => w.free = Max32 /\ w.info = p.v.info
          /\ p.v.free # Max32 => w.free = p.v.free + 1 /\ w.info = TRUE
      BY <3>4, FreedCounted
    <3> HIDE DEF w
    <3>6. Within(w, G) /\ Fat(w) = Fat(p.v) /\ Follows(p.v, w)
      BY <2>5, <3>5, SameSound
    <3>7. Follows(v, w)  BY <2>6, <3>6, FollowsThrough
    <3>8. KeepsCount(v, w)
      <4> SUFFICES ASSUME v.fault = NoFault, Counted(v) PROVE Counted(w)
        BY DEF KeepsCount
      <4>1. Counted(g.v)  BY <1>3 DEF KeepsCount
      <4>2. Cardinality(FreeOf(Fat(w))) = Cardinality(FreeOf(F)) + 1
        BY <1>0, <3>3, <3>6, OneFreed
      <4>3. g.v.free \in {Max32, Cardinality(FreeOf(F))}
            /\ (Fat32 /\ ~g.v.info => g.v.disk[FsInfo].free = g.v.free)
        BY <1>3, <4>1 DEF Counted
      <4>4. CASE g.v.free = Max32
        BY <2>5, <3>5, <4>3, <4>4 DEF Counted
      <4>5. CASE g.v.free # Max32
        BY <2>5, <3>5, <4>2, <4>3, <4>5 DEF Counted
      <4> QED  BY <4>4, <4>5
    <3> QED  BY <3>1, <3>2, <3>3, <3>6, <3>7, <3>8
  <2> QED  BY <2>7, <2>8
<1> QED  BY <1>4, <1>5

\* e is a chain in the FAT F: it leads through other clusters every time to an end.
Path(F, e) ==
  /\ e \in Seq(Clusters) /\ Len(e) > 0
  /\ \A i, j \in 1..Len(e) : e[i] = e[j] => i = j
  /\ \A i \in 1..Len(e) : F[e[i]] = IF i < Len(e) THEN e[i + 1] ELSE LastLink

\* The first clusters of a chain, and a FAT in which some are free.
Firsts(e, k) == {e[i] : i \in 1..k}
Zeroed(F, A) == [c \in FatEntries |-> IF c \in A THEN 0 ELSE F[c]]

\* No chain is longer than there are clusters.
LEMMA PathBounded ==
  ASSUME NEW e \in Seq(Clusters), \A i, j \in 1..Len(e) : e[i] = e[j] => i = j
  PROVE  Len(e) \in Nat /\ Len(e) <= NFatEnt - 2
<1>1. Len(e) \in Nat /\ e \in [1..Len(e) -> Clusters]
  OBVIOUS
<1> DEFINE L == Len(e)
<1> HIDE DEF L
<1>2. L \in Nat /\ e \in [1..L -> Clusters]  BY <1>1 DEF L
<1>3. IsFiniteSet(1..L) /\ Cardinality(1..L) = L
  <2>1. IsFiniteSet(1..L) /\ Cardinality(1..L) = IF 1 > L THEN 0 ELSE L - 1 + 1
    BY <1>2, FS_Interval
  <2> QED  BY <1>2, <2>1
<1>4. CASE Cardinality(Clusters) < Cardinality(1..L)
  <2>1. \E x, y \in 1..L : x # y /\ e[x] = e[y]
    BY <1>2, <1>3, <1>4, HowManyClusters, FS_PigeonHole
  <2> QED  BY <2>1 DEF L
<1>5. CASE ~(Cardinality(Clusters) < Cardinality(1..L))
  BY <1>1, <1>2, <1>3, <1>5, HowManyClusters, Numbers DEF L
<1> QED  BY <1>4, <1>5

\* The next cluster of a chain is freed after the first k.
FreesNext(F, e, k) ==
  LET H == Zeroed(F, Firsts(e, k))
      c == e[k + 1]
  IN  /\ [H EXCEPT ![c] = 0] = Zeroed(F, Firsts(e, k + 1))
      /\ H[c] = F[c] /\ c \in Clusters /\ F[c] \in 2..LastLink

\* One cluster more is free.
LEMMA ZeroedNext ==
  ASSUME NEW F \in Fats, NEW e, Path(F, e), NEW k \in 0..(Len(e) - 1)
  PROVE  FreesNext(F, e, k)
<1>1. Len(e) \in Nat /\ k \in Nat /\ k + 1 \in 1..Len(e) /\ e \in [1..Len(e) -> Clusters]
  BY DEF Path
<1>2. e[k + 1] \in Clusters /\ e[k + 1] \in FatEntries
  BY <1>1, Numbers
<1>3. e[k + 1] \notin Firsts(e, k)
  BY <1>1 DEF Path, Firsts
<1>4. Firsts(e, k + 1) = Firsts(e, k) \cup {e[k + 1]}
  <2>1. \A i : i \in 1..(k + 1) <=> i \in 1..k \/ i = k + 1  BY <1>1
  <2> QED  BY <2>1 DEF Firsts
<1>5. [Zeroed(F, Firsts(e, k)) EXCEPT ![e[k + 1]] = 0] = Zeroed(F, Firsts(e, k + 1))
  <2> DEFINE A == Firsts(e, k)
             c == e[k + 1]
  <2>1. c \in FatEntries /\ Firsts(e, k + 1) = A \cup {c}  BY <1>2, <1>4
  <2> HIDE DEF A, c
  <2>2. [Zeroed(F, A) EXCEPT ![c] = 0] = Zeroed(F, A \cup {c})  BY <2>1 DEF Zeroed
  <2> QED  BY <2>1, <2>2 DEF A, c
<1>6. Zeroed(F, Firsts(e, k))[e[k + 1]] = F[e[k + 1]]
  BY <1>2, <1>3 DEF Zeroed
<1>7. F[e[k + 1]] \in 2..LastLink
  <2>1. F[e[k + 1]] = IF k + 1 < Len(e) THEN e[k + 2] ELSE LastLink  BY <1>1 DEF Path
  <2>2. k + 1 < Len(e) => e[k + 2] \in Clusters
    <3>1. k + 1 < Len(e) => k + 2 \in 1..Len(e)  BY <1>1
    <3> QED  BY <1>1, <3>1
  <2> QED  BY <2>1, <2>2, Numbers
<1> QED  BY <1>2, <1>5, <1>6, <1>7 DEF FreesNext

\* remove_chain frees a chain, or when it fails clusters from its start on, and nothing else.
LEMMA ChainRemoved ==
  ASSUME NEW G, NEW v, Within(v, G), NEW F, F = Fat(v), NEW e, Path(F, e),
         \A k \in 0..Len(e) : Zeroed(F, Firsts(e, k)) \in G,
         NEW r, r = RemoveChain(v, e[1])
  PROVE  /\ IsReport(r) /\ Within(r.v, G) /\ Follows(v, r.v) /\ KeepsCount(v, r.v)
         /\ \/ r.res = "FR_OK" /\ Fat(r.v) = Zeroed(F, Firsts(e, Len(e)))
            \/ FailsToo(v, r.res) /\ \E k \in 0..Len(e) : Fat(r.v) = Zeroed(F, Firsts(e, k))
<1> DEFINE L == Len(e)
<1>0. L \in Nat /\ 0 < L /\ L <= NFatEnt - 2 /\ F \in Fats /\ e[1] \in Clusters
      /\ IsFault(v.fault) /\ Fat(v) = F
  <2>1. L \in Nat /\ 0 < L  BY DEF Path
  <2>2. L <= NFatEnt - 2  BY PathBounded DEF Path
  <2>3. IsVolume(v)  BY DEF Within
  <2>4. e[1] \in Clusters  BY <2>1 DEF Path
  <2> QED  BY <2>1, <2>2, <2>3, <2>4, FatSeen DEF IsVolume
<1>1. r = RemoveFrom(v, e[1])
  BY <1>0 DEF RemoveChain
<1>2. PICK f : /\ f[0] = Removing(v, e[1])
               /\ \A n \in 1..NFatEnt : f[n] = RemoveRound(f[n - 1])
               /\ RemoveFrom(v, e[1]) = Failed(f[NFatEnt].v, f[NFatEnt].res)
  BY RemovingRounds
<1> DEFINE Keeps(l) == Within(l.v, G) /\ Follows(v, l.v) /\ KeepsCount(v, l.v)
           On(n, l) == n < L /\ l = Removing(l.v, e[n + 1]) /\ Fat(l.v) = Zeroed(F, Firsts(e, n))
           AtEnd(n, l) == L <= n /\ l.on = FALSE /\ l.res = "FR_OK" /\ Fat(l.v) = Zeroed(F, Firsts(e, L))
           Broken(l) == l.on = FALSE /\ FailsToo(v, l.res)
                        /\ \E k \in 0..L : Fat(l.v) = Zeroed(F, Firsts(e, k))
           Inv(n, l) == Keeps(l) /\ (On(n, l) \/ AtEnd(n, l) \/ Broken(l))
           S == {n \in Nat : n <= NFatEnt => Inv(n, f[n])}
<1>3. 0 \in S
  <2>1. f[0].v = v  BY <1>2 DEF Removing
  <2>2. Fat(v) = Zeroed(F, Firsts(e, 0))
    <3>1. Firsts(e, 0) = {}  BY DEF Firsts
    <3>2. Zeroed(F, {}) = [c \in FatEntries |-> F[c]]  BY DEF Zeroed
    <3> QED  BY <1>0, <3>1, <3>2 DEF Fats
  <2>3. Keeps(f[0])
    BY <2>1 DEF Follows, FaultAfter, KeepsCount
  <2>4. On(0, f[0])  BY <1>0, <1>2, <2>1, <2>2
  <2> QED  BY <2>3, <2>4
<1>4. ASSUME NEW n \in Nat, n \in S PROVE n + 1 \in S
  <2> HIDE DEF Inv
  <2> SUFFICES ASSUME n + 1 <= NFatEnt PROVE Inv(n + 1, f[n + 1])
    OBVIOUS
  <2> USE DEF Inv
  <2> DEFINE l == f[n]
             m == f[n + 1]
  <2>1. Inv(n, l)
    <3>1. n <= NFatEnt  BY Numbers
    <3> QED  BY <1>4, <3>1
  <2>2. m = RemoveRound(l)
    <3>1. n + 1 \in 1..NFatEnt /\ (n + 1) - 1 = n  BY Numbers
    <3> QED  BY <1>2, <3>1
  <2> HIDE DEF l, m
  <2>3. CASE l.on = FALSE /\ (AtEnd(n, l) \/ Broken(l))
    <3>1. m = l  BY <2>2, <2>3 DEF RemoveRound
    <3>2. AtEnd(n, l) => AtEnd(n + 1, l)  BY <1>0
    <3> QED  BY <2>1, <2>3, <3>1, <3>2 DEF m
  <2>4. CASE On(n, l)
    <3> DEFINE u == l.v
               c == e[n + 1]
               H == Zeroed(F, Firsts(e, n))
    <3>1. n \in 0..(L - 1)  BY <1>0, <2>4
    <3>2. /\ [H EXCEPT ![c] = 0] = Zeroed(F, Firsts(e, n + 1))
          /\ H[c] = F[c] /\ c \in Clusters /\ F[c] \in 2..LastLink
      <4>1. n \in 0..(Len(e) - 1) /\ F \in Fats /\ Path(F, e)  BY <1>0, <3>1
      <4>2. FreesNext(F, e, n)  BY <4>1, ZeroedNext
      <4> QED  BY <4>2 DEF FreesNext
    <3>3. F[c] = IF n + 1 < L THEN e[n + 2] ELSE LastLink
      <4>1. n + 1 \in 1..L /\ (n + 1) + 1 = n + 2  BY <3>1
      <4> QED  BY <4>1 DEF Path
    <3>4. n + 1 \in 0..L  BY <3>1
    <3>5. Zeroed(F, Firsts(e, n + 1)) \in G  BY <3>4
    <3>6. Within(u, G) /\ H = Fat(u) /\ [H EXCEPT ![c] = 0] \in G /\ m = RemoveRound(Removing(u, c))
          /\ Follows(v, u) /\ KeepsCount(v, u) /\ H[c] \in 2..LastLink
      BY <2>1, <2>2, <2>4, <3>2, <3>5
    <3> HIDE DEF u, c, H
    <3>7. /\ Within(m.v, G) /\ Follows(u, m.v) /\ KeepsCount(u, m.v)
          /\ \/ m = Removing(m.v, H[c]) /\ Fat(m.v) = [H EXCEPT ![c] = 0]
             \/ m.on = FALSE /\ FailsToo(u, m.res) /\ Fat(m.v) = H
      <4>1. c \in Clusters  BY <3>2
      <4>2. FreedOne(G, u, H, c, m)  BY <3>6, <4>1, RoundRemoves
      <4> QED  BY <4>2 DEF FreedOne
    <3>8. Keeps(m)  BY <3>6, <3>7, FollowsThrough, CountKept2
    <3>9. CASE m = Removing(m.v, H[c]) /\ n + 1 < L
      <4>1. Fat(m.v) = Zeroed(F, Firsts(e, n + 1))
        <5>1. m.on = TRUE
          <6>1. F[c] \in Clusters
            <7>1. n + 2 \in 1..L  BY <3>1, <3>9
            <7> QED  BY <3>3, <3>9, <7>1 DEF Path
          <6>2. H[c] < NFatEnt  BY <3>2, <6>1, Numbers
          <6>3. Removing(m.v, H[c]).on = (H[c] < NFatEnt)  BY DEF Removing
          <6> QED  BY <3>9, <6>2, <6>3
        <5> QED  BY <3>2, <3>7, <5>1
      <4>2. m = Removing(m.v, e[(n + 1) + 1])  BY <3>2, <3>3, <3>9
      <4> QED  BY <3>8, <3>9, <4>1, <4>2 DEF m
    <3>10. CASE m = Removing(m.v, H[c]) /\ Fat(m.v) = [H EXCEPT ![c] = 0] /\ ~(n + 1 < L)
      <4>1. n + 1 = L  BY <3>1, <3>10
      <4>2. H[c] = LastLink  BY <3>2, <3>3, <3>10
      <4>3. Removing(m.v, LastLink) = [v |-> m.v, res |-> "FR_OK", clst |-> LastLink, on |-> FALSE]
        <5>1. (LastLink < NFatEnt) = FALSE  BY Numbers
        <5> QED  BY <5>1 DEF Removing
      <4>4. m.on = FALSE /\ m.res = "FR_OK"  BY <3>10, <4>2, <4>3
      <4>5. Fat(m.v) = Zeroed(F, Firsts(e, L))  BY <3>2, <3>10, <4>1
      <4>6. AtEnd(n + 1, m)  BY <4>1, <4>4, <4>5
      <4> QED  BY <3>8, <4>6 DEF m
    <3>11. CASE m.on = FALSE /\ FailsToo(u, m.res) /\ Fat(m.v) = H
      <4>1. FailsToo(v, m.res)  BY <1>0, <3>6, <3>11, FailsAfter
      <4>2. n \in 0..L  BY <3>1
      <4>3. Broken(m)  BY <3>11, <4>1, <4>2 DEF H
      <4> QED  BY <3>8, <4>3 DEF m
    <3> QED  BY <3>7, <3>9, <3>10, <3>11
  <2> QED  BY <2>1, <2>3, <2>4
<1> HIDE DEF S
<1>5. NFatEnt \in S
  BY <1>3, <1>4, Inductive, Numbers
<1>6. Inv(NFatEnt, f[NFatEnt])
  BY <1>5, Numbers DEF S
<1>7. r.v = f[NFatEnt].v /\ r.res = f[NFatEnt].res /\ IsReport(r)
  BY <1>1, <1>2 DEF Failed, IsReport
<1>8. ~On(NFatEnt, f[NFatEnt])
  BY <1>0, Numbers
<1> QED  BY <1>6, <1>7, <1>8

----------------------------------------------------------------------------
(* create_chain.                                                           *)

\* The rounds of the search in create_chain.
LEMMA SearchRounds ==
  ASSUME NEW v, NEW scl
  PROVE  \E f : /\ f[0] = Searching(v, scl)
                /\ \A n \in 1..NFatEnt : f[n] = SearchRound(f[n - 1], scl)
                /\ FindFree(v, scl) = Value(f[NFatEnt].v, f[NFatEnt].val)
<1> DEFINE Rounds(f, m) ==
             f = [n \in 0..m |-> IF n = 0 THEN Searching(v, scl) ELSE SearchRound(f[n - 1], scl)]
           S == {m \in Nat : \E f : Rounds(f, m)}
           after[n \in 0..NFatEnt] ==
             IF n = 0 THEN Searching(v, scl) ELSE SearchRound(after[n - 1], scl)
<1>1. 0 \in S
  <2>1. Rounds([n \in 0..0 |-> Searching(v, scl)], 0)  OBVIOUS
  <2> QED  BY <2>1
<1>2. ASSUME NEW m \in Nat, m \in S PROVE m + 1 \in S
  <2>1. PICK g : Rounds(g, m)  BY <1>2
  <2> DEFINE f == [n \in 0..(m + 1) |-> IF n = m + 1 THEN SearchRound(g[m], scl) ELSE g[n]]
  <2>2. \A n \in 0..m : g[n] = IF n = 0 THEN Searching(v, scl) ELSE SearchRound(g[n - 1], scl)
    BY <2>1
  <2>3. ASSUME NEW n \in 0..(m + 1)
        PROVE  f[n] = IF n = 0 THEN Searching(v, scl) ELSE SearchRound(f[n - 1], scl)
    <3>1. CASE n = m + 1
      <4>1. f[n - 1] = g[m] /\ n # 0  BY <3>1
      <4> QED  BY <3>1, <4>1
    <3>2. CASE n \in 1..m
      <4>1. f[n] = g[n] /\ f[n - 1] = g[n - 1]  BY <3>2
      <4> QED  BY <2>2, <3>2, <4>1
    <3>3. CASE n = 0
      BY <2>2, <3>3
    <3> QED  BY <3>1, <3>2, <3>3
  <2>4. Rounds(f, m + 1)
    <3>1. f = [n \in 0..(m + 1) |-> f[n]]  OBVIOUS
    <3> HIDE DEF f
    <3> QED  BY <2>3, <3>1
  <2>5. m + 1 \in Nat  OBVIOUS
  <2> HIDE DEF f, Rounds
  <2> QED  BY <2>4, <2>5
<1> HIDE DEF S
<1>3. NFatEnt \in S
  BY <1>1, <1>2, Inductive, Numbers
<1>4. Rounds(after, NFatEnt)
  <2>1. after = CHOOSE f : Rounds(f, NFatEnt)  BY Zenon DEF Rounds
  <2>2. \E f : Rounds(f, NFatEnt)  BY <1>3 DEF S
  <2> HIDE DEF after, Rounds
  <2> QED  BY <2>1, <2>2
<1>5. FindFree(v, scl) = Value(after[NFatEnt].v, after[NFatEnt].val)
  BY Zenon DEF FindFree, Iterate
<1> HIDE DEF after
<1>6. after[0] = Searching(v, scl) /\ \A n \in 1..NFatEnt : after[n] = SearchRound(after[n - 1], scl)
  <2>1. \A n \in 0..NFatEnt :
          after[n] = IF n = 0 THEN Searching(v, scl) ELSE SearchRound(after[n - 1], scl)
    BY <1>4
  <2>2. 0 \in 0..NFatEnt /\ \A n \in 1..NFatEnt : n \in 0..NFatEnt /\ n # 0  BY Numbers
  <2> QED  BY <2>1, <2>2
<1> QED BY <1>5, <1>6

\* What the search at cluster n of the FAT F leaves.
LookedAt(G, v, F, scl, n, r) ==
  /\ Within(r.v, G) /\ Moves(v, r.v)
  /\ \/ r = Searching(r.v, n) /\ F[n] # 0 /\ n # scl
     \/ r.on = FALSE /\ r.val = n /\ F[n] = 0 /\ r.v.sect = FatSector(0, n)
     \/ r.on = FALSE /\ r.val = 0 /\ F[n] # 0 /\ n = scl
     \/ r.on = FALSE /\ r.val \in {1, Max32}

\* The search takes a cluster whose entry is 0, and stops at the one where it began.
LEMMA EntryLookedAt ==
  ASSUME NEW G, NEW v, Within(v, G), NEW n \in Clusters, NEW F, F = Fat(v), NEW scl,
         NEW r, r = FoundAt(GetFat(v, n), scl, n)
  PROVE  LookedAt(G, v, F, scl, n, r)
<1> DEFINE g == GetFat(v, n)
<1>1. /\ Within(g.v, G) /\ Moves(v, g.v)
      /\ \/ g.val = Fat(v)[n] /\ g.v.sect = FatSector(0, n)
         \/ g.val = Max32 /\ FailsToo(v, "FR_DISK_ERR")
  BY EntryGot
<1>2. r = FoundAt(g, scl, n) /\ Max32 # 0
  BY Numbers
<1> HIDE DEF g
<1>3. CASE g.val = 0
  <2>1. g.val \notin {1, Max32} /\ ~(g.val \notin {0, 1, Max32} /\ n = scl)  BY <1>2, <1>3
  <2>2. r = SearchEnds(g.v, n)  BY <1>2, <1>3, <2>1, Zenon DEF FoundAt
  <2>3. F[n] = 0 /\ g.v.sect = FatSector(0, n)  BY <1>1, <1>2, <1>3
  <2> QED  BY <1>1, <2>2, <2>3 DEF LookedAt, SearchEnds
<1>4. CASE g.val \in {1, Max32}
  <2>1. g.val # 0 /\ ~(g.val \notin {0, 1, Max32} /\ n = scl)  BY <1>2, <1>4
  <2>2. r = SearchEnds(g.v, g.val)  BY <1>2, <1>4, <2>1, Zenon DEF FoundAt
  <2> QED  BY <1>1, <1>4, <2>2 DEF LookedAt, SearchEnds
<1>5. CASE g.val \notin {0, 1, Max32} /\ n = scl
  <2>1. g.val # 0 /\ g.val \notin {1, Max32}  BY <1>5
  <2>2. r = SearchEnds(g.v, 0)  BY <1>2, <1>5, <2>1, Zenon DEF FoundAt
  <2>3. F[n] # 0  BY <1>1, <1>5
  <2> QED  BY <1>1, <1>5, <2>2, <2>3 DEF LookedAt, SearchEnds
<1>6. CASE g.val \notin {0, 1, Max32} /\ n # scl
  <2>1. g.val # 0 /\ g.val \notin {1, Max32} /\ ~(g.val \notin {0, 1, Max32} /\ n = scl)
    BY <1>6
  <2>2. r = Searching(g.v, n)  BY <1>2, <2>1, Zenon DEF FoundAt
  <2>3. F[n] # 0  BY <1>1, <1>6
  <2> QED  BY <1>1, <1>6, <2>2, <2>3 DEF LookedAt, Searching
<1> QED  BY <1>3, <1>4, <1>5, <1>6

\* What the search of a FAT F has found: a free cluster, or that there is none, or an error.
FoundOrFull(F, w, val) ==
  \/ val \in Clusters /\ F[val] = 0 /\ w.sect = FatSector(0, val)
  \/ val = 0 /\ \A c \in Clusters : F[c] # 0
  \/ val \in {1, Max32}

\* The search goes round to everything before it says that the disk is full.
LEMMA FreeFound ==
  ASSUME NEW G, NEW v, Within(v, G), NEW F, F = Fat(v), NEW scl \in 1..(NFatEnt - 1),
         NEW r, r = FindFree(v, scl)
  PROVE  Within(r.v, G) /\ Moves(v, r.v) /\ FoundOrFull(F, r.v, r.val)
<1>1. PICK f : /\ f[0] = Searching(v, scl)
               /\ \A n \in 1..NFatEnt : f[n] = SearchRound(f[n - 1], scl)
               /\ FindFree(v, scl) = Value(f[NFatEnt].v, f[NFatEnt].val)
  BY SearchRounds
<1> DEFINE Up(k, l) == /\ scl + k < NFatEnt /\ l.n = scl + k
                       /\ \A c \in Clusters : scl < c /\ c <= l.n => F[c] # 0
           Around(k, l) == /\ NFatEnt <= scl + k /\ l.n = k + scl - NFatEnt + 2 /\ l.n < scl
                           /\ \A c \in Clusters : scl < c \/ c <= l.n => F[c] # 0
           Inv(k, l) == /\ Within(l.v, G) /\ Moves(v, l.v)
                        /\ \/ l = Searching(l.v, l.n) /\ (Up(k, l) \/ Around(k, l))
                           \/ l.on = FALSE /\ FoundOrFull(F, l.v, l.val)
           S == {k \in Nat : k <= NFatEnt => Inv(k, f[k])}
<1>2. 0 \in S
  <2>1. f[0].v = v /\ f[0].n = scl  BY <1>1 DEF Searching
  <2>2. Moves(v, v)  BY DEF Moves, Follows, FaultAfter
  <2>3. \A c \in Clusters : ~(scl < c /\ c <= scl)  BY Numbers
  <2>4. Up(0, f[0])  BY <2>1, <2>3, Numbers
  <2> QED  BY <1>1, <2>1, <2>2, <2>4
<1>3. ASSUME NEW k \in Nat, k \in S PROVE k + 1 \in S
  <2> HIDE DEF Inv
  <2> SUFFICES ASSUME k + 1 <= NFatEnt PROVE Inv(k + 1, f[k + 1])
    OBVIOUS
  <2> USE DEF Inv
  <2> DEFINE l == f[k]
             m == f[k + 1]
  <2>1. Inv(k, l)
    <3>1. k <= NFatEnt  BY Numbers
    <3> QED  BY <1>3, <3>1
  <2>2. m = SearchRound(l, scl)
    <3>1. k + 1 \in 1..NFatEnt /\ (k + 1) - 1 = k  BY Numbers
    <3> QED  BY <1>1, <3>1
  <2> HIDE DEF l, m
  <2>3. CASE l.on = FALSE /\ FoundOrFull(F, l.v, l.val)
    <3>1. m = l  BY <2>2, <2>3 DEF SearchRound
    <3> QED  BY <2>1, <2>3, <3>1 DEF m
  <2>4. CASE l = Searching(l.v, l.n) /\ (Up(k, l) \/ Around(k, l))
    <3> DEFINE u == l.v
    <3>1. m = LookFrom(u, scl, l.n)
      <4>1. l.on = TRUE  BY <2>4 DEF Searching
      <4> QED  BY <2>2, <4>1 DEF SearchRound
    <3>2. Within(u, G) /\ Moves(v, u) /\ Fat(u) = F /\ l.n \in Int
      BY <2>1, <2>4, Numbers DEF Moves
    <3>3. ASSUME NEW n \in Clusters, m = FoundAt(GetFat(u, n), scl, n)
          PROVE  /\ Within(m.v, G) /\ Moves(v, m.v)
                 /\ \/ m = Searching(m.v, m.n) /\ m.n = n /\ F[n] # 0 /\ n # scl
                    \/ m.on = FALSE /\ m.val = 0 /\ F[n] # 0 /\ n = scl
                    \/ m.on = FALSE /\ FoundOrFull(F, m.v, m.val)
      <4> HIDE DEF u
      <4>1. LookedAt(G, u, F, scl, n, m)
        BY <3>2, <3>3, EntryLookedAt
      <4>2. Within(m.v, G) /\ Moves(v, m.v)  BY <3>2, <4>1, MovesOn DEF LookedAt
      <4>3. m = Searching(m.v, n) => m.n = n  BY DEF Searching
      <4> QED  BY <4>1, <4>2, <4>3 DEF LookedAt, FoundOrFull
    <3> HIDE DEF u
    <3>4. CASE l.n + 1 < NFatEnt
      <4> DEFINE n == l.n + 1
      <4>1. n \in Clusters  BY <2>4, <3>4, Numbers
      <4>2. m = FoundAt(GetFat(u, n), scl, n)
        <5>1. ~(l.n + 1 >= NFatEnt /\ scl < 2)  BY <3>2, <3>4, Numbers
        <5>2. ClusterAfter(l.n) = n  BY <3>4 DEF ClusterAfter
        <5> QED  BY <3>1, <5>1, <5>2, Zenon DEF LookFrom
      <4> HIDE DEF n
      <4>3. /\ Within(m.v, G) /\ Moves(v, m.v)
            /\ \/ m = Searching(m.v, m.n) /\ m.n = n /\ F[n] # 0 /\ n # scl
               \/ m.on = FALSE /\ m.val = 0 /\ F[n] # 0 /\ n = scl
               \/ m.on = FALSE /\ FoundOrFull(F, m.v, m.val)
        BY <3>3, <4>1, <4>2
      <4>4. \A c \in Clusters : c <= n <=> c <= l.n \/ c = n  BY <3>2, Numbers DEF n
      <4>5. CASE Up(k, l)
        <5>1. scl + (k + 1) < NFatEnt /\ n = scl + (k + 1) /\ n # scl
          BY <3>4, <4>5, Numbers DEF n
        <5>2. F[n] # 0 => \A c \in Clusters : scl < c /\ c <= n => F[c] # 0
          BY <4>4, <4>5
        <5> QED  BY <4>3, <5>1, <5>2 DEF m
      <4>6. CASE Around(k, l)
        <5>1. NFatEnt <= scl + (k + 1) /\ n = (k + 1) + scl - NFatEnt + 2 /\ n <= scl
          BY <3>4, <4>6, Numbers DEF n
        <5>2. F[n] # 0 => \A c \in Clusters : scl < c \/ c <= n => F[c] # 0
          BY <4>4, <4>6
        <5>3. n # scl => n < scl  BY <5>1, <4>1, Numbers
        <5>4. n = scl => \A c \in Clusters : scl < c \/ c <= n  BY Numbers
        <5>5. CASE m = Searching(m.v, m.n) /\ m.n = n /\ F[n] # 0 /\ n # scl
          BY <4>3, <5>1, <5>2, <5>3, <5>5 DEF m
        <5>6. CASE m.on = FALSE /\ m.val = 0 /\ F[n] # 0 /\ n = scl
          BY <4>3, <5>2, <5>4, <5>6 DEF m, FoundOrFull
        <5> QED  BY <4>3, <5>5, <5>6 DEF m
      <4> QED  BY <2>4, <4>5, <4>6
    <3>5. CASE l.n + 1 >= NFatEnt
      <4>1. Up(k, l) /\ l.n = NFatEnt - 1 /\ k = NFatEnt - 1 - scl
        BY <2>4, <3>2, <3>5, Numbers
      <4>2. \A c \in Clusters : scl < c => F[c] # 0
        BY <4>1, Numbers
      <4>3. CASE 2 <= scl
        <5>1. 2 \in Clusters  BY Numbers
        <5>2. m = FoundAt(GetFat(u, 2), scl, 2)
          <6>1. ~(l.n + 1 < NFatEnt) /\ ~(scl < 2)  BY <3>2, <3>5, <4>3, Numbers
          <6>2. ClusterAfter(l.n) = 2  BY <6>1 DEF ClusterAfter
          <6> QED  BY <3>1, <6>1, <6>2, Zenon DEF LookFrom
        <5>3. /\ Within(m.v, G) /\ Moves(v, m.v)
              /\ \/ m = Searching(m.v, m.n) /\ m.n = 2 /\ F[2] # 0 /\ 2 # scl
                 \/ m.on = FALSE /\ m.val = 0 /\ F[2] # 0 /\ 2 = scl
                 \/ m.on = FALSE /\ FoundOrFull(F, m.v, m.val)
          BY <3>3, <5>1, <5>2
        <5>4. F[2] # 0 => \A c \in Clusters : scl < c \/ c <= 2 => F[c] # 0
          BY <4>2, Numbers
        <5>5. CASE m = Searching(m.v, m.n) /\ m.n = 2 /\ F[2] # 0 /\ 2 # scl
          <6>1. NFatEnt <= scl + (k + 1) /\ 2 = (k + 1) + scl - NFatEnt + 2 /\ 2 < scl
            BY <4>1, <4>3, <5>5, Numbers
          <6> QED  BY <5>3, <5>4, <5>5, <6>1 DEF m
        <5>6. CASE m.on = FALSE /\ m.val = 0 /\ F[2] # 0 /\ 2 = scl
          <6>1. \A c \in Clusters : F[c] # 0  BY <5>4, <5>6, Numbers
          <6> QED  BY <5>3, <5>6, <6>1 DEF m, FoundOrFull
        <5> QED  BY <5>3, <5>5, <5>6 DEF m
      <4>4. CASE ~(2 <= scl)
        <5>1. m = SearchEnds(u, 0)
          <6>1. l.n + 1 >= NFatEnt /\ scl < 2  BY <3>2, <3>5, <4>4, Numbers
          <6> QED  BY <3>1, <6>1, Zenon DEF LookFrom
        <5>2. \A c \in Clusters : F[c] # 0  BY <4>2, <4>4, Numbers
        <5>3. m.v = u /\ m.on = FALSE /\ m.val = 0  BY <5>1 DEF SearchEnds
        <5> QED  BY <3>2, <5>2, <5>3 DEF m, FoundOrFull
      <4> QED  BY <4>3, <4>4
    <3>6. l.n + 1 < NFatEnt \/ l.n + 1 >= NFatEnt  BY <3>2, Numbers
    <3> HIDE DEF Inv
    <3> QED  BY <3>4, <3>5, <3>6
  <2> QED  BY <2>1, <2>3, <2>4
<1> HIDE DEF S
<1>4. NFatEnt \in S
  BY <1>2, <1>3, Inductive, Numbers
<1>5. Inv(NFatEnt, f[NFatEnt])
  BY <1>4, Numbers DEF S
<1>6. r.v = f[NFatEnt].v /\ r.val = f[NFatEnt].val
  BY <1>1 DEF Value
<1>7. ~Up(NFatEnt, f[NFatEnt]) /\ ~Around(NFatEnt, f[NFatEnt])
  BY Numbers
<1> QED  BY <1>5, <1>6, <1>7

\* More FATs are allowed.
LEMMA SoundIn ==
  ASSUME NEW G, NEW H, G \subseteq H, NEW v, Within(v, G)
  PROVE  Within(v, H)
  BY DEF Within

\* The count, its flag and last_clust are set.
LEMMA TakenCounted ==
  ASSUME NEW v, HasFields(v), NEW c, NEW w, w = CountTaken(v, c)
  PROVE  /\ HasFields(w) /\ w.disk = v.disk /\ w.win = v.win /\ w.sect = v.sect
         /\ w.dirty = v.dirty /\ w.fault = v.fault
         /\ v.free = Max32 => w.free = Max32 /\ w.info = v.info
         /\ v.free # Max32 => w.free = (IF v.free = 0 THEN Max32 ELSE v.free - 1) /\ w.info = TRUE
<1>1. CASE v.free = Max32
  BY <1>1 DEF CountTaken, HasFields
<1>2. CASE v.free # Max32
  <2> DEFINE t == [v EXCEPT !.last = c]
             u == [t EXCEPT !.info = TRUE]
             x == IF v.free = 0 THEN Max32 ELSE v.free - 1
  <2>1. w = [v EXCEPT !.last = c, !.info = TRUE, !.free = IF @ = 0 THEN Max32 ELSE @ - 1]
    BY <1>2 DEF CountTaken
  <2>2. t = [disk |-> v.disk, win |-> v.win, sect |-> v.sect, dirty |-> v.dirty,
             last |-> c, free |-> v.free, info |-> v.info, fault |-> v.fault]
    BY DEF HasFields
  <2>3. w = [u EXCEPT !.free = IF @ = 0 THEN Max32 ELSE @ - 1]
    BY <2>1
  <2>7. u = [t EXCEPT !.info = TRUE]  OBVIOUS
  <2> HIDE DEF t, u
  <2>4. u = [disk |-> v.disk, win |-> v.win, sect |-> v.sect, dirty |-> v.dirty,
             last |-> c, free |-> v.free, info |-> TRUE, fault |-> v.fault]
    BY <2>2, <2>7
  <2>5. w = [disk |-> v.disk, win |-> v.win, sect |-> v.sect, dirty |-> v.dirty,
             last |-> c, free |-> x, info |-> TRUE, fault |-> v.fault]
    BY <2>3, <2>4
  <2> HIDE DEF x
  <2>6. /\ HasFields(w) /\ w.disk = v.disk /\ w.win = v.win /\ w.sect = v.sect
        /\ w.dirty = v.dirty /\ w.fault = v.fault /\ w.free = x /\ w.info = TRUE
    BY <2>5 DEF HasFields
  <2> QED  BY <1>2, <2>6 DEF x
<1> QED  BY <1>1, <1>2

\* The FAT F with the cluster n as an end that c leads to, or nothing does if c is 0.
Linked(F, c, n) ==
  [x \in FatEntries |-> IF x = n THEN LastLink ELSE IF x = c /\ c # 0 THEN n ELSE F[x]]

\* It is made in two steps.
LEMMA LinkedInSteps ==
  ASSUME NEW F \in Fats, NEW n \in Clusters, NEW c \in Clusters, c # n
  PROVE  /\ Linked(F, 0, n) = [F EXCEPT ![n] = LastLink]
         /\ Linked(F, c, n) = [Linked(F, 0, n) EXCEPT ![c] = n]
         /\ Linked(F, 0, n) \in Fats /\ Linked(F, 0, n)[c] = F[c]
<1>1. n \in FatEntries /\ c \in FatEntries /\ c # 0 /\ LastLink \in Link /\ F = [x \in FatEntries |-> F[x]]
  BY Numbers DEF Fats
<1>2. Linked(F, 0, n) = [F EXCEPT ![n] = LastLink]
  BY <1>1 DEF Linked
<1>3. Linked(F, c, n) = [Linked(F, 0, n) EXCEPT ![c] = n]
  BY <1>1 DEF Linked
<1>4. Linked(F, 0, n) \in Fats
  BY <1>1 DEF Linked, Fats
<1>5. Linked(F, 0, n)[c] = F[c]
  BY <1>1 DEF Linked
<1> QED  BY <1>2, <1>3, <1>4, <1>5

\* The first of them for any cluster.
LEMMA Marked ==
  ASSUME NEW F \in Fats, NEW n \in Clusters
  PROVE  Linked(F, 0, n) = [F EXCEPT ![n] = LastLink] /\ Linked(F, 0, n) \in Fats
<1>1. n \in FatEntries /\ LastLink \in Link /\ F = [x \in FatEntries |-> F[x]]
  BY Numbers DEF Fats
<1> QED  BY <1>1 DEF Linked, Fats

\* The FATs that taking a cluster n for c may leave, in G before c leads to it and in H after.
MayTake(F, c, n, G, H) ==
  /\ G \subseteq H
  /\ Linked(F, 0, n) \in G /\ Linked(F, c, n) \in H

\* A cluster is taken, and counted; or an access fails.
HasTaken(G, H, v, F, c, n, r) ==
  /\ Within(r.v, H) /\ Follows(v, r.v) /\ KeepsCount(v, r.v)
  /\ \/ r.val = n /\ Fat(r.v) = Linked(F, c, n)
     \/ r.val = Max32 /\ FailsToo(v, "FR_DISK_ERR") /\ Fat(r.v) \in {F, Linked(F, 0, n)}

\* A free cluster n, whose sector is in the window, is marked as an end, and c leads to it.
LEMMA ClusterTaken ==
  ASSUME NEW G, NEW H, NEW v, Within(v, G), NEW F, F = Fat(v),
         NEW n \in Clusters, v.sect = FatSector(0, n), F[n] = 0,
         NEW c \in Clusters \cup {0}, c # n, c # 0 => F[c] # 0,
         MayTake(F, c, n, G, H),
         NEW r, r = TakeCluster(v, c, n)
  PROVE  HasTaken(G, H, v, F, c, n, r)
<1> DEFINE p == PutFat(v, n, LastLink)
           q == PutFat(p.v, c, n)
           l == IF p.res = "FR_OK" /\ c # 0 THEN q ELSE p
<1>0. /\ IsVolume(v) /\ IsFault(v.fault) /\ F \in Fats /\ LastLink \in Link /\ n \in Link
      /\ LastLink # 0 /\ G \subseteq H /\ Linked(F, 0, n) \in G /\ Linked(F, c, n) \in H
      /\ v.sect \in FirstCopy
  <2>1. IsVolume(v)  BY DEF Within
  <2>2. n \in FatEntries /\ n \in Link  BY Numbers
  <2> QED  BY <2>1, <2>2, FatSeen, Numbers, Sectors DEF IsVolume, MayTake
<1>1. r = Taken(l, n)
  BY DEF TakeCluster, LinkTo
<1>2. Linked(F, 0, n) = [F EXCEPT ![n] = LastLink] /\ Linked(F, 0, n) \in Fats
  BY <1>0, Marked
<1>3. /\ IsReport(p) /\ Within(p.v, G) /\ Follows(v, p.v) /\ p.v.sect \in FirstCopy
      /\ p.v.last = v.last /\ p.v.free = v.free /\ p.v.info = v.info
      /\ p.v.disk[FsInfo] = v.disk[FsInfo]
      /\ \/ p.res = "FR_OK" /\ Fat(p.v) = Linked(F, 0, n)
         \/ FailsToo(v, p.res) /\ Fat(p.v) = F
  <2>1. [Fat(v) EXCEPT ![n] = LastLink] \in G  BY <1>0, <1>2
  <2> HIDE DEF p
  <2>2. /\ IsReport(p) /\ Within(p.v, G) /\ Follows(v, p.v) /\ p.v.sect \in FirstCopy
        /\ p.v.last = v.last /\ p.v.free = v.free /\ p.v.info = v.info
        /\ p.v.disk[FsInfo] = v.disk[FsInfo]
        /\ \/ p.res = "FR_OK" /\ Fat(p.v) = [Fat(v) EXCEPT ![n] = LastLink]
           \/ FailsToo(v, p.res) /\ Fat(p.v) = Fat(v)
    BY <1>0, <2>1, EntryPut DEF p
  <2> QED  BY <1>2, <2>2
<1> HIDE DEF p
<1>4. ASSUME NEW k, k = l, Within(k.v, H), Follows(v, k.v),
             k.v.free = v.free, k.v.info = v.info, k.v.disk[FsInfo] = v.disk[FsInfo],
             \/ k.res = "FR_OK" /\ Fat(k.v) = Linked(F, c, n)
             \/ FailsToo(v, k.res) /\ Fat(k.v) \in {F, Linked(F, 0, n)}
      PROVE  HasTaken(G, H, v, F, c, n, r)
  <2>1. r = Taken(k, n)  BY <1>1, <1>4
  <2> HIDE DEF l
  <2>2. CASE FailsToo(v, k.res) /\ Fat(k.v) \in {F, Linked(F, 0, n)}
    <3>1. k.res = "FR_DISK_ERR"  BY <2>2 DEF FailsToo
    <3>2. r = Value(k.v, Max32)
      <4>1. k.res # "FR_OK"  BY <3>1
      <4> QED  BY <2>1, <3>1, <4>1, Zenon DEF Taken
    <3>3. r.v = k.v /\ r.val = Max32  BY <3>2 DEF Value
    <3>4. v.fault # NoFault  BY <2>2 DEF FailsToo, NoFault, Fault
    <3> QED  BY <1>4, <2>2, <3>1, <3>3, <3>4 DEF HasTaken, KeepsCount
  <2>3. CASE k.res = "FR_OK" /\ Fat(k.v) = Linked(F, c, n)
    <3> DEFINE w == CountTaken(k.v, n)
    <3>1. r = Value(w, n)
      <4>1. k.res # "FR_DISK_ERR"  BY <2>3
      <4> QED  BY <2>1, <2>3, <4>1, Zenon DEF Taken
    <3>2. r.v = w /\ r.val = n  BY <3>1 DEF Value
    <3>3. HasFields(k.v)  BY <1>4 DEF Within, IsVolume
    <3>4. /\ HasFields(w) /\ w.disk = k.v.disk /\ w.win = k.v.win /\ w.sect = k.v.sect
          /\ w.dirty = k.v.dirty /\ w.fault = k.v.fault
          /\ k.v.free = Max32 => w.free = Max32 /\ w.info = k.v.info
          /\ k.v.free # Max32 => w.free = (IF k.v.free = 0 THEN Max32 ELSE k.v.free - 1) /\ w.info = TRUE
      BY <3>3, TakenCounted
    <3> HIDE DEF w
    <3>5. Within(w, H) /\ Fat(w) = Fat(k.v) /\ Follows(k.v, w)
      BY <1>4, <3>4, SameSound
    <3>6. Follows(v, w)  BY <1>4, <3>5, FollowsThrough
    <3>7. Cardinality(FreeOf(Linked(F, c, n))) = Cardinality(FreeOf(F)) - 1
      <4>1. FreeOf(Linked(F, c, n)) = FreeOf(Linked(F, 0, n))
        <5>1. \A x \in Clusters : x \in FatEntries /\ x # 0  BY Numbers
        <5>2. \A x \in Clusters : Linked(F, c, n)[x] = 0 <=> Linked(F, 0, n)[x] = 0
          BY <1>0, <5>1 DEF Linked
        <5> QED  BY <5>2 DEF FreeOf
      <4>2. Cardinality(FreeOf([F EXCEPT ![n] = LastLink])) = Cardinality(FreeOf(F)) - 1
        BY <1>0, OneTaken
      <4> QED  BY <1>2, <4>1, <4>2
    <3>8. FreeOf(F) # {}  BY DEF FreeOf
    <3>9. KeepsCount(v, w)
      <4> SUFFICES ASSUME v.fault = NoFault, Counted(v) PROVE Counted(w)
        BY DEF KeepsCount
      <4>1. v.free \in {Max32, Cardinality(FreeOf(F))}
            /\ (Fat32 /\ ~v.info => v.disk[FsInfo].free = v.free)
        BY DEF Counted
      <4>2. CASE v.free = Max32
        BY <1>4, <3>4, <4>1, <4>2 DEF Counted
      <4>3. CASE v.free # Max32
        <5>1. v.free = Cardinality(FreeOf(F)) /\ v.free # 0  BY <3>8, <4>1, <4>3, FreeCount
        <5>2. w.free = v.free - 1 /\ w.info = TRUE  BY <1>4, <3>4, <4>3, <5>1
        <5> QED  BY <2>3, <3>5, <3>7, <5>1, <5>2 DEF Counted
      <4> QED  BY <4>2, <4>3
    <3> QED  BY <2>3, <3>2, <3>5, <3>6, <3>9 DEF HasTaken
  <2> QED  BY <1>4, <2>2, <2>3
<1>5. CASE p.res # "FR_OK"
  <2>1. l = p  BY <1>5
  <2>2. Within(p.v, H)  BY <1>0, <1>3, SoundIn
  <2> HIDE DEF l
  <2> QED  BY <1>3, <1>4, <1>5, <2>1, <2>2
<1>6. CASE p.res = "FR_OK" /\ c = 0
  <2>1. l = p  BY <1>6
  <2>2. l.v = p.v /\ l.res = "FR_OK"  BY <1>6, <2>1
  <2>3. Within(p.v, H)  BY <1>0, <1>3, SoundIn
  <2>4. Fat(p.v) = Linked(F, c, n)  BY <1>3, <1>6 DEF FailsToo
  <2> HIDE DEF l
  <2> QED  BY <1>3, <1>4, <2>2, <2>3, <2>4
<1>7. CASE p.res = "FR_OK" /\ c # 0
  <2>1. l = q  BY <1>7
  <2>2. c \in Clusters /\ Fat(p.v) = Linked(F, 0, n)  BY <1>3, <1>7 DEF FailsToo
  <2>3. Linked(F, c, n) = [Fat(p.v) EXCEPT ![c] = n]  BY <1>0, <2>2, LinkedInSteps
  <2>4. Within(p.v, H)  BY <1>0, <1>3, SoundIn
  <2>5. /\ Within(q.v, H) /\ Follows(p.v, q.v)
        /\ q.v.free = p.v.free /\ q.v.info = p.v.info
        /\ q.v.disk[FsInfo] = p.v.disk[FsInfo]
        /\ \/ q.res = "FR_OK" /\ Fat(q.v) = [Fat(p.v) EXCEPT ![c] = n]
           \/ FailsToo(p.v, q.res) /\ Fat(q.v) = Fat(p.v)
    <3> DEFINE u == p.v
    <3>1. Within(u, H) /\ u.sect \in FirstCopy /\ [Fat(u) EXCEPT ![c] = n] \in H /\ q = PutFat(u, c, n)
      BY <1>0, <1>3, <2>3, <2>4
    <3> HIDE DEF u, q
    <3>2. /\ IsReport(q) /\ Within(q.v, H) /\ Follows(u, q.v) /\ q.v.sect \in FirstCopy
          /\ q.v.last = u.last /\ q.v.free = u.free /\ q.v.info = u.info
          /\ q.v.disk[FsInfo] = u.disk[FsInfo]
          /\ \/ q.res = "FR_OK" /\ Fat(q.v) = [Fat(u) EXCEPT ![c] = n]
             \/ FailsToo(u, q.res) /\ Fat(q.v) = Fat(u)
      BY <1>0, <2>2, <3>1, EntryPut
    <3> QED  BY <3>2 DEF u
  <2> HIDE DEF q, l
  <2>6. Follows(v, q.v)  BY <1>3, <2>5, FollowsThrough
  <2>7. FailsToo(p.v, q.res) => FailsToo(v, q.res)  BY <1>0, <1>3, FailsAfter
  <2> QED  BY <1>3, <1>4, <2>1, <2>2, <2>3, <2>4, <2>5, <2>6, <2>7
<1> QED  BY <1>5, <1>6, <1>7

\* What create_chain may do for a cluster c of the FAT F, from FATs in G to FATs in H.
MayAllocate(F, c, G, H) ==
  /\ G \subseteq H /\ (c # 0 => F[c] # 0)
  /\ \A n \in Clusters : F[n] = 0 => Linked(F, 0, n) \in G /\ Linked(F, c, n) \in H

\* A cluster has been found free and taken, or there was none, or an access has failed: then c
\* still leads where it did.
HasAllocated(G, H, v, F, c, r) ==
  /\ Within(r.v, H) /\ Follows(v, r.v) /\ KeepsCount(v, r.v)
  /\ \/ r.val \in Clusters /\ F[r.val] = 0 /\ Fat(r.v) = Linked(F, c, r.val)
     \/ r.val = 0 /\ Within(r.v, G) /\ Fat(r.v) = F /\ FreeOf(F) = {}
     \/ r.val \in {1, Max32} /\ Within(r.v, G) /\ Fat(r.v) = F
     \/ /\ r.val = Max32 /\ FailsToo(v, "FR_DISK_ERR")
        /\ \E n \in Clusters : F[n] = 0 /\ Fat(r.v) \in {F, Linked(F, 0, n)}

\* The search and what it finds.
LEMMA Allocated ==
  ASSUME NEW G, NEW H, NEW v, Within(v, G), NEW F, F = Fat(v), NEW c \in Clusters \cup {0},
         NEW scl \in 1..(NFatEnt - 1), MayAllocate(F, c, G, H), NEW r, r = Allocate(v, c, scl)
  PROVE  HasAllocated(G, H, v, F, c, r)
<1> DEFINE f == FindFree(v, scl)
<1>1. Within(f.v, G) /\ Moves(v, f.v) /\ FoundOrFull(F, f.v, f.val)
  BY FreeFound
<1>2. r = IF f.val \in Clusters THEN TakeCluster(f.v, c, f.val) ELSE f
  BY DEF Allocate, TakeFound
<1> HIDE DEF f
<1>0. IsFault(v.fault) /\ ~(0 \in Clusters) /\ ~(1 \in Clusters) /\ ~(Max32 \in Clusters)
  <2>1. \A x \in Clusters : 2 <= x /\ x <= LastLink  BY Numbers
  <2> QED  BY <2>1, Numbers DEF Within, IsVolume
<1>3. Follows(v, f.v) /\ Fat(f.v) = F /\ KeepsCount(v, f.v) /\ G \subseteq H
  BY <1>1, MovesKeepCount DEF Moves, MayAllocate
<1>4. CASE f.val \notin Clusters
  <2>1. r = f  BY <1>2, <1>4
  <2>2. Within(f.v, H)  BY <1>1, <1>3, SoundIn
  <2>3. f.val = 0 => FreeOf(F) = {}
    BY <1>0, <1>1, <1>4, Numbers DEF FoundOrFull, FreeOf
  <2> QED  BY <1>1, <1>3, <1>4, <2>1, <2>2, <2>3 DEF HasAllocated, FoundOrFull
<1>5. CASE f.val \in Clusters
  <2> DEFINE n == f.val
             u == f.v
  <2>1. n \in Clusters /\ F[n] = 0 /\ u.sect = FatSector(0, n)
    BY <1>0, <1>1, <1>5 DEF FoundOrFull
  <2>2. r = TakeCluster(u, c, n)  BY <1>2, <1>5
  <2>3. c # n /\ MayTake(F, c, n, G, H) /\ (c # 0 => F[c] # 0)
    BY <1>0, <2>1 DEF MayAllocate, MayTake
  <2>4. Within(u, G) /\ F = Fat(u)  BY <1>1, <1>3
  <2> HIDE DEF n, u
  <2>5. HasTaken(G, H, u, F, c, n, r)
    BY <2>1, <2>2, <2>3, <2>4, ClusterTaken
  <2>6. Follows(v, r.v) /\ KeepsCount(v, r.v)
    BY <1>3, <2>5, FollowsThrough, CountKept2 DEF HasTaken, u
  <2>7. FailsToo(u, "FR_DISK_ERR") => FailsToo(v, "FR_DISK_ERR")
    BY <1>0, <1>3, FailsAfter DEF u
  <2> QED  BY <2>1, <2>5, <2>6, <2>7 DEF HasTaken, HasAllocated
<1> QED  BY <1>4, <1>5

\* Where create_chain searches from when there is no chain yet: where the last cluster was taken.
LEMMA BegunAt ==
  ASSUME NEW v
  PROVE  CreateChain(v, 0) = Allocate(v, 0, Suggested(v))
<1> DEFINE s == Suggested(v)
<1>1. ChainStart(v, 0) = Searching(v, s)  BY DEF ChainStart
<1> HIDE DEF s
<1>2. AllocateFrom(Searching(v, s), 0) = Allocate(v, 0, s)  BY DEF AllocateFrom, Searching
<1> QED  BY <1>1, <1>2 DEF CreateChain, s

\* What create_chain does at cluster c of a chain, by its entry.
LEMMA StretchedAt ==
  ASSUME NEW v, NEW c, c # 0, NEW g, g = GetFat(v, c), NEW r, r = CreateChain(v, c)
  PROVE  /\ ~(g.val < 2) /\ g.val \in Clusters => r = Value(g.v, g.val)
         /\ ~(g.val < 2) /\ ~(g.val \in Clusters) => r = Allocate(g.v, c, c)
<1>1. r = AllocateFrom(StretchFrom(g, c), c)  BY DEF CreateChain, ChainStart
<1>2. ASSUME ~(g.val < 2), g.val \in Clusters PROVE r = Value(g.v, g.val)
  <2>1. StretchFrom(g, c) = SearchEnds(g.v, g.val)  BY <1>2, Zenon DEF StretchFrom
  <2> QED  BY <1>1, <2>1 DEF AllocateFrom, SearchEnds
<1>3. ASSUME ~(g.val < 2), ~(g.val \in Clusters) PROVE r = Allocate(g.v, c, c)
  <2>1. StretchFrom(g, c) = Searching(g.v, c)  BY <1>3, Zenon DEF StretchFrom
  <2> QED  BY <1>1, <2>1 DEF AllocateFrom, Searching
<1> QED  BY <1>2, <1>3

\* create_chain for a file that has no cluster, or for the last cluster of a chain.
LEMMA ChainCreated ==
  ASSUME NEW G, NEW H, NEW v, Within(v, G), NEW F, F = Fat(v), MayAllocate(F, 0, G, H),
         NEW r, r = CreateChain(v, 0)
  PROVE  HasAllocated(G, H, v, F, 0, r)
<1>1. Suggested(v) \in 1..(NFatEnt - 1)  BY Numbers DEF Suggested
<1>2. r = Allocate(v, 0, Suggested(v))  BY BegunAt
<1> DEFINE s == Suggested(v)
<1>3. s \in 1..(NFatEnt - 1) /\ r = Allocate(v, 0, s) /\ 0 \in Clusters \cup {0}  BY <1>1, <1>2
<1> HIDE DEF s
<1> QED  BY <1>3, Allocated

\* For a cluster that leads to another one create_chain is to return that. But if the entry
\* cannot be read, it is taken for the end of the chain.
HasFollowed(G, H, v, F, c, r) ==
  /\ Within(r.v, H) /\ Follows(v, r.v) /\ KeepsCount(v, r.v)
  /\ \/ r.val = F[c] /\ Within(r.v, G) /\ Fat(r.v) = F
     \/ r.val \in {0, 1, Max32} /\ Within(r.v, G) /\ Fat(r.v) = F /\ (r.val = 0 => FreeOf(F) = {})
     \/ /\ r.val \in Clusters /\ F[r.val] = 0 /\ Fat(r.v) = Linked(F, c, r.val)
        /\ FailsToo(v, "FR_DISK_ERR")

\* create_chain at a cluster of a chain.
LEMMA ChainStretched ==
  ASSUME NEW G, NEW H, NEW v, Within(v, G), NEW F, F = Fat(v), NEW c \in Clusters,
         F[c] \in Clusters \cup {LastLink}, MayAllocate(F, c, G, H), NEW r, r = CreateChain(v, c)
  PROVE  IF F[c] \in Clusters THEN HasFollowed(G, H, v, F, c, r) ELSE HasAllocated(G, H, v, F, c, r)
<1> DEFINE g == GetFat(v, c)
<1>0. /\ IsFault(v.fault) /\ G \subseteq H /\ c # 0 /\ c \in 1..(NFatEnt - 1)
      /\ ~(LastLink \in Clusters) /\ ~(Max32 \in Clusters) /\ ~(Max32 < 2) /\ ~(F[c] < 2)
  <2>1. \A x \in Clusters : 2 <= x /\ x < LastLink /\ ~(x < 2) /\ x # 0 /\ x \in 1..(NFatEnt - 1)
    BY Numbers
  <2>2. ~(LastLink < 2) /\ ~(Max32 < 2)  BY Numbers
  <2>3. ~(LastLink \in Clusters)  BY Numbers
  <2>4. ~(Max32 \in Clusters)  BY <2>1, Numbers
  <2>5. ~(F[c] < 2)  BY <2>1, <2>2
  <2>6. IsFault(v.fault) /\ G \subseteq H  BY DEF Within, IsVolume, MayAllocate
  <2> QED  BY <2>1, <2>2, <2>3, <2>4, <2>5, <2>6
<1>1. /\ Within(g.v, G) /\ Moves(v, g.v)
      /\ \/ g.val = F[c] /\ g.v.sect = FatSector(0, c)
         \/ g.val = Max32 /\ FailsToo(v, "FR_DISK_ERR") /\ g.v.fault = NoFault
  BY EntryGot
<1>2. /\ ~(g.val < 2) /\ g.val \in Clusters => r = Value(g.v, g.val)
      /\ ~(g.val < 2) /\ ~(g.val \in Clusters) => r = Allocate(g.v, c, c)
  BY <1>0, StretchedAt
<1>3. Follows(v, g.v) /\ Fat(g.v) = F /\ KeepsCount(v, g.v) /\ Within(g.v, H)
  BY <1>0, <1>1, MovesKeepCount, SoundIn DEF Moves
<1> HIDE DEF g
<1>4. CASE g.val = F[c] /\ F[c] \in Clusters
  <2>1. ~(g.val < 2) /\ g.val \in Clusters  BY <1>0, <1>4
  <2>2. r.v = g.v /\ r.val = g.val  BY <1>2, <2>1 DEF Value
  <2> QED  BY <1>1, <1>3, <1>4, <2>2 DEF HasFollowed
<1>5. CASE ~(g.val = F[c] /\ F[c] \in Clusters)
  <2> DEFINE u == g.v
  <2>1. ~(g.val < 2) /\ ~(g.val \in Clusters)  BY <1>0, <1>1, <1>5
  <2>2. r = Allocate(u, c, c)  BY <1>2, <2>1
  <2>3. Within(u, G) /\ F = Fat(u) /\ Follows(v, u) /\ KeepsCount(v, u)  BY <1>1, <1>3
  <2>4. F[c] \in Clusters => FailsToo(v, "FR_DISK_ERR") /\ u.fault = NoFault
    BY <1>1, <1>5
  <2> HIDE DEF u
  <2>5. HasAllocated(G, H, u, F, c, r)
    BY <1>0, <2>2, <2>3, Allocated
  <2>6. Follows(v, r.v) /\ KeepsCount(v, r.v)
    BY <2>3, <2>5, FollowsThrough, CountKept2 DEF HasAllocated
  <2>7. FailsToo(u, "FR_DISK_ERR") => FailsToo(v, "FR_DISK_ERR")
    BY <1>0, <2>3, FailsAfter
  <2>8. CASE F[c] \notin Clusters
    <3>1. HasAllocated(G, H, v, F, c, r)  BY <2>5, <2>6, <2>7 DEF HasAllocated
    <3> QED  BY <2>8, <3>1
  <2>9. CASE F[c] \in Clusters
    <3>1. FailsToo(v, "FR_DISK_ERR") /\ ~FailsToo(u, "FR_DISK_ERR")
      BY <2>4, <2>9 DEF FailsToo, NoFault, Fault
    <3>2. Max32 # 0  BY Numbers
    <3>3. HasFollowed(G, H, v, F, c, r)
      BY <2>5, <2>6, <3>1, <3>2 DEF HasAllocated, HasFollowed
    <3> QED  BY <2>9, <3>3
  <2> QED  BY <2>8, <2>9
<1> QED  BY <1>4, <1>5

----------------------------------------------------------------------------
(* f_getfree.                                                              *)

\* The sector of the FAT in which the entry of a cluster is.
SectorNo(c) == c \div PerSector
Top == LastSector + 1

\* The sectors are numbered from 0 to the last one, and are all of the first copy.
LEMMA SectorNumbers ==
  /\ Top \in Nat /\ LastSector \in Nat /\ Top = LastSector + 1
  /\ \A c \in FatEntries : SectorNo(c) \in 0..LastSector
  /\ \A k \in 0..LastSector : <<"fat", 0, k>> \in FirstCopy
  /\ \A k \in Nat : EntriesOf(k) = {c \in FatEntries : SectorNo(c) = k}
<1>0. NFatEnt - 1 \in Nat /\ PerSector \in Nat \ {0} /\ 3 <= NFatEnt /\ NFatEnt \in Nat
  BY GeometryAssumption, Numbers
<1>1. \A n, P, k : n \in Nat /\ P \in Nat \ {0} /\ k \in Nat =>
        /\ n \div P \in Nat /\ (P * k) \div P = k
        /\ P * k \in Nat
        /\ k <= n \div P => P * k <= n
  OBVIOUS
<1>2. \A n, P, k : n \in Nat /\ P \in Nat \ {0} /\ k \in Nat /\ k <= n => k \div P <= n \div P
  OBVIOUS
<1>3. LastSector \in Nat  BY <1>0, <1>1 DEF LastSector
<1>4. Top = LastSector + 1 /\ Top \in Nat  BY <1>3 DEF Top
<1>5. ASSUME NEW c \in FatEntries PROVE SectorNo(c) \in 0..LastSector
  <2>1. c \in Nat /\ c <= NFatEnt - 1  BY <1>0 DEF FatEntries
  <2>2. c \div PerSector \in Nat /\ c \div PerSector <= (NFatEnt - 1) \div PerSector
    BY <1>0, <1>1, <1>2, <2>1
  <2>3. SectorNo(c) \in Nat /\ SectorNo(c) <= LastSector  BY <2>2 DEF SectorNo, LastSector
  <2> QED  BY <1>3, <2>3
<1>6. ASSUME NEW k \in 0..LastSector PROVE <<"fat", 0, k>> \in FirstCopy
  <2> DEFINE c == PerSector * k
  <2>1. k \in Nat /\ k <= LastSector  BY <1>3
  <2>2. c \in Nat /\ c <= NFatEnt - 1 /\ c \div PerSector = k
    BY <1>0, <1>1, <2>1 DEF LastSector
  <2> HIDE DEF c
  <2>3. c \in FatEntries  BY <1>0, <2>2 DEF FatEntries
  <2>4. FatSector(0, c) = <<"fat", 0, k>>  BY <2>2 DEF FatSector
  <2> QED  BY <2>3, <2>4, Sectors
<1>7. \A k \in Nat : EntriesOf(k) = {c \in FatEntries : SectorNo(c) = k}
  BY DEF EntriesOf, FatEntries, SectorNo
<1> QED  BY <1>3, <1>4, <1>5, <1>6, <1>7

\* The rounds of f_getfree.
LEMMA CountingRounds ==
  ASSUME NEW v
  PROVE  \E f : /\ f[0] = Counting(v, 0)
                /\ \A n \in 1..Top : f[n] = CountRound(f[n - 1], n - 1)
                /\ CountFree(v) = Value(f[Top].v, f[Top].n)
<1> DEFINE Rounds(f, m) ==
             f = [n \in 0..m |-> IF n = 0 THEN Counting(v, 0) ELSE CountRound(f[n - 1], n - 1)]
           S == {m \in Nat : \E f : Rounds(f, m)}
           after[n \in 0..Top] ==
             IF n = 0 THEN Counting(v, 0) ELSE CountRound(after[n - 1], n - 1)
<1>1. 0 \in S
  <2>1. Rounds([n \in 0..0 |-> Counting(v, 0)], 0)  OBVIOUS
  <2> QED  BY <2>1
<1>2. ASSUME NEW m \in Nat, m \in S PROVE m + 1 \in S
  <2>1. PICK g : Rounds(g, m)  BY <1>2
  <2> DEFINE f == [n \in 0..(m + 1) |-> IF n = m + 1 THEN CountRound(g[m], m) ELSE g[n]]
  <2>2. \A n \in 0..m : g[n] = IF n = 0 THEN Counting(v, 0) ELSE CountRound(g[n - 1], n - 1)
    BY <2>1
  <2>3. ASSUME NEW n \in 0..(m + 1)
        PROVE  f[n] = IF n = 0 THEN Counting(v, 0) ELSE CountRound(f[n - 1], n - 1)
    <3>1. CASE n = m + 1
      <4>1. f[n - 1] = g[m] /\ n # 0  BY <3>1
      <4> QED  BY <3>1, <4>1
    <3>2. CASE n \in 1..m
      <4>1. f[n] = g[n] /\ f[n - 1] = g[n - 1]  BY <3>2
      <4> QED  BY <2>2, <3>2, <4>1
    <3>3. CASE n = 0
      BY <2>2, <3>3
    <3> QED  BY <3>1, <3>2, <3>3
  <2>4. Rounds(f, m + 1)
    <3>1. f = [n \in 0..(m + 1) |-> f[n]]  OBVIOUS
    <3> HIDE DEF f
    <3> QED  BY <2>3, <3>1
  <2>5. m + 1 \in Nat  OBVIOUS
  <2> HIDE DEF f, Rounds
  <2> QED  BY <2>4, <2>5
<1> HIDE DEF S
<1>3. Top \in S
  BY <1>1, <1>2, Inductive, SectorNumbers
<1>4. Rounds(after, Top)
  <2>1. after = CHOOSE f : Rounds(f, Top)  BY Zenon DEF Rounds
  <2>2. \E f : Rounds(f, Top)  BY <1>3 DEF S
  <2> HIDE DEF after, Rounds
  <2> QED  BY <2>1, <2>2
<1>5. CountFree(v) = Value(after[Top].v, after[Top].n)
  BY Zenon DEF CountFree, Top
<1> HIDE DEF after
<1>6. after[0] = Counting(v, 0) /\ \A n \in 1..Top : after[n] = CountRound(after[n - 1], n - 1)
  <2>1. \A n \in 0..Top :
          after[n] = IF n = 0 THEN Counting(v, 0) ELSE CountRound(after[n - 1], n - 1)
    BY <1>4
  <2>2. 0 \in 0..Top /\ \A n \in 1..Top : n \in 0..Top /\ n # 0  BY SectorNumbers
  <2> QED  BY <2>1, <2>2
<1> QED BY <1>5, <1>6

\* The entries 0 and 1 belong to no cluster, and are never free.
Reserved(F) == F[0] # 0 /\ F[1] # 0

\* What is free in the first k sectors.
FreeBefore(F, k) == {c \in FatEntries : SectorNo(c) < k /\ F[c] = 0}

\* It is counted sector by sector, and in the end it is all that is free.
LEMMA FreeBySector ==
  ASSUME NEW F \in Fats
  PROVE  /\ Cardinality(FreeBefore(F, 0)) = 0
         /\ \A k \in 0..LastSector : \A win \in [EntriesOf(k) -> Link] :
              (\A c \in EntriesOf(k) : win[c] = F[c]) =>
                Cardinality(FreeBefore(F, k + 1)) = Cardinality(FreeBefore(F, k)) + FreeIn(win)
         /\ Reserved(F) => Cardinality(FreeBefore(F, Top)) = Cardinality(FreeOf(F))
<1>0. /\ NFatEnt - 1 \in Int /\ IsFiniteSet(FatEntries)
      /\ \A c \in FatEntries : SectorNo(c) \in Nat /\ SectorNo(c) < Top
  <2>1. NFatEnt - 1 \in Int /\ 0 \in Int  BY Numbers
  <2>2. IsFiniteSet(0..(NFatEnt - 1))  BY <2>1, FS_Interval
  <2> QED  BY <2>1, <2>2, SectorNumbers DEF FatEntries
<1>1. \A k : IsFiniteSet(FreeBefore(F, k))
  <2>1. \A k : FreeBefore(F, k) \in SUBSET FatEntries  BY DEF FreeBefore
  <2> QED  BY <1>0, <2>1, FS_Subset
<1>2. FreeBefore(F, 0) = {}
  BY <1>0 DEF FreeBefore
<1>3. ASSUME NEW k \in 0..LastSector, NEW win \in [EntriesOf(k) -> Link],
             \A c \in EntriesOf(k) : win[c] = F[c]
      PROVE  Cardinality(FreeBefore(F, k + 1)) = Cardinality(FreeBefore(F, k)) + FreeIn(win)
  <2> DEFINE A == FreeBefore(F, k)
             B == {c \in DOMAIN win : win[c] = 0}
  <2>1. k \in Nat /\ EntriesOf(k) = {c \in FatEntries : SectorNo(c) = k}  BY SectorNumbers
  <2>2. B = {c \in FatEntries : SectorNo(c) = k /\ F[c] = 0}  BY <1>3, <2>1
  <2>3. FreeBefore(F, k + 1) = A \cup B /\ A \cap B = {}
    <3>1. \A c \in FatEntries : /\ SectorNo(c) < k + 1 <=> SectorNo(c) < k \/ SectorNo(c) = k
                             /\ ~(SectorNo(c) < k /\ SectorNo(c) = k)
      BY <1>0, <2>1
    <3> HIDE DEF B
    <3> QED  BY <2>2, <3>1 DEF FreeBefore
  <2>4. IsFiniteSet(A) /\ IsFiniteSet(B)
    <3>1. B \in SUBSET FatEntries  BY <2>2
    <3> QED  BY <1>0, <1>1, <3>1, FS_Subset
  <2>5. FreeIn(win) = Cardinality(B)  BY DEF FreeIn
  <2>8. Cardinality(FreeBefore(F, k)) = Cardinality(A)  OBVIOUS
  <2> HIDE DEF A, B
  <2>6. Cardinality(A \cup B) = Cardinality(A) + Cardinality(B) - Cardinality(A \cap B)
    BY <2>4, FS_Union
  <2>7. Cardinality(A \cap B) = 0 /\ Cardinality(A) \in Nat /\ Cardinality(B) \in Nat
    BY <2>3, <2>4, FS_EmptySet, FS_CardinalityType
  <2>9. Cardinality(FreeBefore(F, k + 1)) = Cardinality(A \cup B)  BY <2>3
  <2>10. Cardinality(A \cup B) = Cardinality(A) + Cardinality(B)  BY <2>6, <2>7
  <2> QED  BY <2>5, <2>8, <2>9, <2>10
<1>4. ASSUME Reserved(F) PROVE FreeBefore(F, Top) = FreeOf(F)
  <2>1. \A c \in FatEntries : c \in Clusters \/ c = 0 \/ c = 1  BY Numbers DEF FatEntries
  <2>2. Clusters \subseteq FatEntries  BY Numbers
  <2> QED  BY <1>0, <1>4, <2>1, <2>2 DEF FreeBefore, FreeOf, Reserved
<1> QED  BY <1>2, <1>3, <1>4, FS_EmptySet

\* f_getfree counts what is free of the FAT that the program sees, or fails; it changes nothing.
LEMMA FreeCounted ==
  ASSUME NEW G, NEW v, Within(v, G), NEW F, F = Fat(v), NEW r, r = CountFree(v)
  PROVE  /\ Within(r.v, G) /\ Moves(v, r.v)
         /\ v.fault = NoFault => r.val = Cardinality(FreeBefore(F, Top))
<1>1. PICK f : /\ f[0] = Counting(v, 0)
               /\ \A n \in 1..Top : f[n] = CountRound(f[n - 1], n - 1)
               /\ CountFree(v) = Value(f[Top].v, f[Top].n)
  BY CountingRounds
<1>0. F \in Fats /\ IsFault(v.fault)
  <2>1. IsVolume(v)  BY DEF Within
  <2> QED  BY <2>1, FatSeen DEF IsVolume
<1> DEFINE Inv(k, l) == /\ Within(l.v, G) /\ Moves(v, l.v)
                        /\ \/ l.on = TRUE /\ l.n = Cardinality(FreeBefore(F, k))
                           \/ l.on = FALSE /\ v.fault # NoFault
           S == {k \in Nat : k <= Top => Inv(k, f[k])}
<1>2. 0 \in S
  <2>1. f[0].v = v /\ f[0].n = 0 /\ f[0].on = TRUE  BY <1>1 DEF Counting
  <2>2. Moves(v, v)  BY DEF Moves, Follows, FaultAfter
  <2>3. Cardinality(FreeBefore(F, 0)) = 0  BY <1>0, FreeBySector
  <2> QED  BY <2>1, <2>2, <2>3
<1>3. ASSUME NEW k \in Nat, k \in S PROVE k + 1 \in S
  <2> HIDE DEF Inv
  <2> SUFFICES ASSUME k + 1 <= Top PROVE Inv(k + 1, f[k + 1])
    OBVIOUS
  <2> USE DEF Inv
  <2> DEFINE l == f[k]
             m == f[k + 1]
             u == l.v
             s == <<"fat", 0, k>>
             w == MoveWindow(u, s)
  <2>1. Inv(k, l)
    <3>1. k <= Top  BY SectorNumbers
    <3> QED  BY <1>3, <3>1
  <2>2. m = CountRound(l, k) /\ k \in 0..LastSector
    <3>1. k + 1 \in 1..Top /\ (k + 1) - 1 = k /\ k \in 0..LastSector  BY SectorNumbers
    <3> QED  BY <1>1, <3>1
  <2> HIDE DEF l, m
  <2>3. CASE l.on = FALSE /\ v.fault # NoFault
    <3>1. m = l  BY <2>2, <2>3 DEF CountRound
    <3> QED  BY <2>1, <2>3, <3>1 DEF m
  <2>4. CASE l.on = TRUE /\ l.n = Cardinality(FreeBefore(F, k))
    <3>1. m = CountIn(w, l.n)  BY <2>2, <2>4 DEF CountRound
    <3>2. s \in FirstCopy /\ s[3] = k  BY <2>2, SectorNumbers
    <3>3. Within(u, G) /\ Moves(v, u) /\ Fat(u) = F  BY <2>1 DEF Moves
    <3> HIDE DEF u, s
    <3>4. /\ IsReport(w) /\ Within(w.v, G) /\ Moves(u, w.v)
          /\ \/ w.res = "FR_OK" /\ w.v.sect = s
             \/ FailsToo(u, w.res) /\ w.v.sect = u.sect /\ w.v.fault = NoFault
      BY <3>2, <3>3, WindowMoved
    <3> HIDE DEF w
    <3>5. Moves(v, w.v)  BY <3>3, <3>4, MovesOn
    <3>6. CASE w.res # "FR_OK"
      <4>1. m.v = w.v /\ m.on = FALSE  BY <3>1, <3>6 DEF CountIn
      <4>2. FailsToo(v, w.res)  BY <1>0, <3>3, <3>4, <3>6, FailsAfter DEF Moves
      <4>3. v.fault # NoFault  BY <4>2 DEF FailsToo, NoFault, Fault
      <4> QED  BY <3>4, <3>5, <4>1, <4>3 DEF m
    <3>7. CASE w.res = "FR_OK"
      <4> DEFINE x == w.v.win
      <4>1. w.v.sect = s /\ Fat(w.v) = F  BY <3>3, <3>4, <3>7 DEF FailsToo, Moves
      <4>2. m.v = w.v /\ m.on = TRUE /\ m.n = l.n + FreeIn(x)
        BY <3>1, <3>7 DEF CountIn, Counting
      <4>3. x \in [EntriesOf(k) -> Link]
        BY <3>2, <3>4, <4>1 DEF Within, IsVolume
      <4>4. \A c \in EntriesOf(k) : x[c] = F[c]
        <5>1. \A c \in EntriesOf(k) : c \in FatEntries /\ FatSector(0, c) = s
          BY <3>2, Sectors
        <5>2. \A c \in EntriesOf(k) : FatEntry(w.v, c) = x[c]
          BY <4>1, <5>1 DEF FatEntry, Seen
        <5> QED  BY <4>1, <5>1, <5>2 DEF Fat
      <4> HIDE DEF x
      <4>5. Cardinality(FreeBefore(F, k + 1)) = Cardinality(FreeBefore(F, k)) + FreeIn(x)
        BY <1>0, <2>2, <4>3, <4>4, FreeBySector
      <4> QED  BY <2>4, <3>4, <3>5, <4>2, <4>5 DEF m
    <3> QED  BY <3>6, <3>7
  <2> QED  BY <2>1, <2>3, <2>4
<1> HIDE DEF S
<1>4. Top \in S
  BY <1>2, <1>3, Inductive, SectorNumbers
<1>5. Inv(Top, f[Top])
  BY <1>4, SectorNumbers DEF S
<1>6. r.v = f[Top].v /\ r.val = f[Top].n
  BY <1>1 DEF Value
<1> QED  BY <1>5, <1>6

\* f_getfree leaves the right number, if it was known or if nothing fails, and changes no entry.
LEMMA FreeGot ==
  ASSUME NEW G, NEW v, Within(v, G), Reserved(Fat(v)), NEW r, r = GetFree(v)
  PROVE  Within(r.v, G) /\ Follows(v, r.v) /\ Fat(r.v) = Fat(v) /\ KeepsCount(v, r.v)
<1>1. CASE v.free <= NFatEnt - 2
  <2>1. r.v = v  BY <1>1 DEF GetFree, Value
  <2> QED  BY <2>1 DEF Follows, FaultAfter, KeepsCount
<1>2. CASE ~(v.free <= NFatEnt - 2)
  <2> DEFINE q == CountFree(v)
             u == [q.v EXCEPT !.free = q.val]
             w == [u EXCEPT !.info = (q.v.info \/ Fat32)]
  <2>1. r = CountKept(q)  BY <1>2 DEF GetFree
  <2>2. q = Value(q.v, q.val)
    <3>1. PICK f : CountFree(v) = Value(f[Top].v, f[Top].n)  BY CountingRounds
    <3> QED  BY <3>1 DEF Value
  <2>3. /\ Within(q.v, G) /\ Moves(v, q.v)
        /\ v.fault = NoFault => q.val = Cardinality(FreeBefore(Fat(v), Top))
    BY FreeCounted
  <2> HIDE DEF q
  <2>4. r.v = w
    <3> DEFINE a == [q EXCEPT !.v.free = q.val]
               b == [a EXCEPT !.v.info = (q.v.info \/ Fat32)]
    <3>1. a = [v |-> u, val |-> q.val]  BY <2>2 DEF Value
    <3>2. r = b
      <4>1. r = [q EXCEPT !.v.free = q.val, !.v.info = (q.v.info \/ Fat32)]
        BY <2>1 DEF CountKept
      <4> QED  BY <4>1
    <3> HIDE DEF a, u
    <3>3. b.v = w  BY <3>1
    <3> QED  BY <3>2, <3>3
  <2>5. HasFields(q.v)  BY <2>3 DEF Within, IsVolume
  <2>6. /\ HasFields(u) /\ u.disk = q.v.disk /\ u.win = q.v.win /\ u.sect = q.v.sect
        /\ u.dirty = q.v.dirty /\ u.fault = q.v.fault /\ u.free = q.val /\ u.info = q.v.info
    BY <2>5 DEF HasFields
  <2> HIDE DEF u
  <2>7. /\ HasFields(w) /\ w.disk = q.v.disk /\ w.win = q.v.win /\ w.sect = q.v.sect
        /\ w.dirty = q.v.dirty /\ w.fault = q.v.fault /\ w.free = q.val
        /\ w.info = (q.v.info \/ Fat32)
    BY <2>6 DEF HasFields
  <2> HIDE DEF w
  <2>8. Within(w, G) /\ Fat(w) = Fat(q.v) /\ Follows(q.v, w)
    BY <2>3, <2>7, SameSound
  <2>9. Fat(w) = Fat(v) /\ Follows(v, w)
    BY <2>3, <2>8, FollowsThrough DEF Moves
  <2>10. KeepsCount(v, w)
    <3> SUFFICES ASSUME v.fault = NoFault PROVE Counted(w)
      BY DEF KeepsCount
    <3>1. Fat(v) \in Fats
      <4>1. IsVolume(v)  BY DEF Within
      <4> QED  BY <4>1, FatSeen
    <3>2. w.free = Cardinality(FreeOf(Fat(w)))  BY <2>3, <2>7, <2>9, <3>1, FreeBySector
    <3>3. Fat32 => w.info  BY <2>7
    <3> QED  BY <3>2, <3>3 DEF Counted
  <2> QED  BY <2>4, <2>8, <2>9, <2>10
<1> QED  BY <1>1, <1>2

----------------------------------------------------------------------------
(* Volumes between and during calls in which nothing fails.  T is the set  *)
(* of the sectors of tables, X what they hold, and F the FAT.              *)

IsTrace(f) == f = [kind |-> "trace", left |-> 0, images |-> f.images]

\* The window holds a sector of the FAT or of a table, or nothing that is to be written.
Volume(v, T) ==
  /\ HasFields(v) /\ IsTrace(v.fault) /\ v.dirty \in BOOLEAN
  /\ v.disk = [s \in ImageSectors |-> v.disk[s]]
  /\ v.dirty => v.sect \in FirstCopy \cup T
  /\ v.sect \in FirstCopy \cup T /\ ~v.dirty => v.win = v.disk[v.sect]

Holding(F, X, s) == IF s \in FirstCopy THEN [c \in EntriesOf(s[3]) |-> F[c]] ELSE X[s]
DataSectors == {DataSector(c) : c \in Clusters}
RootSectors == IF Fat32 THEN {} ELSE {RootSector(k) : k \in 0..(RootTables - 1)}
MayBeTables == RootSectors \cup DataSectors

Shows(v, T, F, X) ==
  /\ Volume(v, T) /\ T \subseteq MayBeTables /\ F \in Fats /\ X = [s \in T |-> X[s]]
  /\ \A c \in Clusters : F[c] # 1
  /\ \A s \in FirstCopy \cup T : Seen(v, s) = Holding(F, X, s)

\* A step that goes through.
Goes(r) == r.res = "FR_OK"

\* The sectors of the FAT, the tables and the files are apart.
LEMMA SectorsApart ==
  /\ \A c, d : DataSector(c) = DataSector(d) => c = d
  /\ \A c, d : RootSector(c) = RootSector(d) => c = d
  /\ \A c, k : DataSector(c) # RootSector(k)
  /\ FirstCopy \cap MayBeTables = {} /\ FatSectors \cap MayBeTables = {}
  /\ FsInfo \notin FirstCopy \cup MayBeTables /\ NoSector \notin FirstCopy \cup MayBeTables
  /\ FirstCopy \cup MayBeTables \subseteq ImageSectors /\ FatSectors \subseteq ImageSectors
  /\ Fat32 => FsInfo \in ImageSectors
  /\ \A s \in FirstCopy : SecondOf(s) \notin FirstCopy \cup MayBeTables
<1>1. \A c : DataSector(c)[1] = "data" /\ DataSector(c)[2] = c /\ Len(DataSector(c)) = 2
  BY DEF DataSector
<1>2. \A c : RootSector(c)[1] = "root" /\ RootSector(c)[2] = c /\ Len(RootSector(c)) = 2
  BY DEF RootSector
<1>3. \A s \in FatSectors : s[1] = "fat"
  BY DEF FatSectors, FatSector
<1>4. FsInfo[1] = "info"
  BY DEF FsInfo
<1>5. \A s \in MayBeTables : s[1] \in {"data", "root"} /\ s \in TableSectors
  BY <1>1, <1>2 DEF MayBeTables, RootSectors, DataSectors, TableSectors
<1>6. "data" # "root" /\ "fat" \notin {"data", "root"} /\ "info" \notin {"data", "root", "fat"}
  OBVIOUS
<1>7. FatSectors \cap MayBeTables = {} /\ FsInfo \notin MayBeTables
  BY <1>3, <1>4, <1>5, <1>6
<1>8. NoSector \notin MayBeTables  BY <1>5, NoTableAssumption
<1>9. \A s : SecondOf(s)[1] = "fat"  BY DEF SecondOf
<1>10. \A s \in FirstCopy : SecondOf(s) \notin MayBeTables
  BY <1>5, <1>6, <1>9
<1>11. FirstCopy \cup MayBeTables \subseteq ImageSectors /\ FatSectors \subseteq ImageSectors
  BY Sectors DEF ImageSectors, MayBeTables, RootSectors, DataSectors
<1>12. Fat32 => FsInfo \in ImageSectors  BY DEF ImageSectors
<1>13. \A c, k : DataSector(c) # RootSector(k)  BY <1>1, <1>2, <1>6
<1>14. /\ \A c, d : DataSector(c) = DataSector(d) => c = d
       /\ \A c, d : RootSector(c) = RootSector(d) => c = d
  BY <1>1, <1>2
<1> QED  BY <1>7, <1>8, <1>10, <1>11, <1>12, <1>13, <1>14, Sectors

\* disk_write, of a volume that keeps a trace.
LEMMA WritesTraced ==
  ASSUME NEW v, HasFields(v), IsTrace(v.fault), NEW s, NEW x, NEW r, r = DiskWrite(v, s, x)
  PROVE  /\ Goes(r) /\ Holds(v, r.v) /\ r.v.win = v.win /\ IsTrace(r.v.fault)
         /\ WrittenTo(v.disk, s, x, r.v.disk) /\ r = Ok(r.v)
<1>1. v.fault # Fault("write", 0) /\ v.fault # Fault("crash", 0) /\ v.fault.kind = "trace"
  BY DEF IsTrace, Fault
<1>2. r = Ok([v EXCEPT !.fault.images = @ \cup {v.disk}, !.disk[s] = x])
  BY <1>1, Zenon DEF DiskWrite
<1> DEFINE u == [v EXCEPT !.fault.images = @ \cup {v.disk}]
<1>3. r = Ok([u EXCEPT !.disk[s] = x])  BY <1>2
<1>4. u = [disk |-> v.disk, win |-> v.win, sect |-> v.sect, dirty |-> v.dirty,
           last |-> v.last, free |-> v.free, info |-> v.info,
           fault |-> [v.fault EXCEPT !.images = @ \cup {v.disk}]]
  BY DEF HasFields
<1>5. IsTrace([v.fault EXCEPT !.images = @ \cup {v.disk}])
  BY DEF IsTrace
<1> HIDE DEF u
<1>6. r.v = [disk |-> [v.disk EXCEPT ![s] = x], win |-> v.win, sect |-> v.sect, dirty |-> v.dirty,
             last |-> v.last, free |-> v.free, info |-> v.info, fault |-> u.fault] /\ Goes(r)
      /\ r = Ok(r.v)
  BY <1>3, <1>4 DEF Ok, Goes
<1>7. IsTrace(u.fault)  BY <1>4, <1>5
<1> QED  BY <1>6, <1>7 DEF Holds, HasFields, SameButDisk, WrittenTo

\* disk_read.
LEMMA ReadsTraced ==
  ASSUME NEW v, HasFields(v), IsTrace(v.fault), NEW s, NEW r, r = DiskRead(v, s)
  PROVE  /\ Goes(r) /\ r = Ok(r.v) /\ Holds(v, r.v) /\ r.v.win = v.disk[s] /\ r.v.disk = v.disk
         /\ r.v.fault = v.fault
<1>1. v.fault # Fault("read", 0) /\ v.fault.kind \notin {"read"}
  BY DEF IsTrace, Fault
<1>2. r = Ok([v EXCEPT !.win = v.disk[s]])
  <2>1. [v EXCEPT !.win = v.disk[s]] = [disk |-> v.disk, win |-> v.disk[s], sect |-> v.sect, dirty |-> v.dirty,
           last |-> v.last, free |-> v.free, info |-> v.info, fault |-> v.fault]
    BY DEF HasFields
  <2>2. [v EXCEPT !.win = v.disk[s]].fault.kind \notin {"read"}  BY <1>1, <2>1
  <2>3. Closer([v EXCEPT !.win = v.disk[s]], {"read"}) = [v EXCEPT !.win = v.disk[s]]
    BY <2>2 DEF Closer
  <2> QED  BY <1>1, <2>3, Zenon DEF DiskRead
<1>3. r.v = [disk |-> v.disk, win |-> v.disk[s], sect |-> v.sect, dirty |-> v.dirty,
           last |-> v.last, free |-> v.free, info |-> v.info, fault |-> v.fault] /\ Goes(r)
      /\ r = Ok(r.v)
  BY <1>2 DEF HasFields, Ok, Goes
<1> QED  BY <1>3 DEF Holds, HasFields, SameButDisk

\* What the window and the disk are before they are written.
Writable(v) ==
  /\ HasFields(v) /\ IsTrace(v.fault) /\ v.dirty \in BOOLEAN
  /\ v.disk = [s \in ImageSectors |-> v.disk[s]]
  /\ v.dirty => v.sect \in FirstCopy \cup MayBeTables

SameCounts(v, w) == w.last = v.last /\ w.free = v.free /\ w.info = v.info

\* sync_window writes the sector of the window and leaves the others alone.
LEMMA SyncWrites ==
  ASSUME NEW v, Writable(v), NEW r, r = SyncWindow(v)
  PROVE  /\ Goes(r) /\ r = Ok(r.v) /\ Writable(r.v) /\ r.v.dirty = FALSE
         /\ r.v.sect = v.sect /\ r.v.win = v.win /\ SameCounts(v, r.v)
         /\ \A s \in FirstCopy \cup MayBeTables :
              r.v.disk[s] = IF v.dirty /\ s = v.sect THEN v.win ELSE v.disk[s]
<1>1. CASE ~v.dirty
  <2>1. r = Ok(v)  BY <1>1 DEF SyncWindow
  <2>2. r.v = v /\ Goes(r)  BY <2>1 DEF Ok, Goes
  <2> QED  BY <1>1, <2>1, <2>2 DEF Writable, SameCounts
<1>2. CASE v.dirty
  <2> DEFINE d == DiskWrite(v, v.sect, v.win)
             w == [d.v EXCEPT !.dirty = FALSE]
  <2>0. HasFields(v) /\ IsTrace(v.fault) /\ d = DiskWrite(v, v.sect, v.win)  BY DEF Writable
  <2> HIDE DEF d
  <2>1. /\ Goes(d) /\ Holds(v, d.v) /\ d.v.win = v.win /\ IsTrace(d.v.fault)
        /\ WrittenTo(v.disk, v.sect, v.win, d.v.disk)
    BY <2>0, WritesTraced
  <2>2. r = Ok(WriteCopy(w))
    BY <1>2, <2>0, <2>1 DEF SyncWindow, WrittenOut, Goes
  <2>3. w = [disk |-> d.v.disk, win |-> v.win, sect |-> v.sect, dirty |-> FALSE,
             last |-> v.last, free |-> v.free, info |-> v.info, fault |-> d.v.fault]
    <3>1. \A x : x = [d.v EXCEPT !.dirty = FALSE] =>
              HasFields(x) /\ x.disk = d.v.disk /\ x.win = d.v.win
              /\ x.sect = d.v.sect /\ x.dirty = FALSE /\ x.last = d.v.last /\ x.free = d.v.free
              /\ x.info = d.v.info /\ x.fault = d.v.fault
      BY <2>1, Assigned DEF Holds
    <3> QED  BY <2>1, <3>1 DEF Holds, SameButDisk, HasFields
  <2> HIDE DEF w
  <2>4. /\ HasFields(w) /\ IsTrace(w.fault) /\ w.dirty = FALSE /\ w.sect = v.sect /\ w.win = v.win
        /\ SameCounts(v, w) /\ w.disk = d.v.disk
    BY <2>1, <2>3 DEF HasFields, SameCounts
  <2>5. v.sect \in ImageSectors  BY <1>2, SectorsApart DEF Writable
  <2>6. /\ w.disk = [s \in ImageSectors |-> w.disk[s]]
        /\ \A s \in ImageSectors : w.disk[s] = IF s = v.sect THEN v.win ELSE v.disk[s]
    BY <2>1, <2>4, <2>5 DEF Writable, WrittenTo
  <2>7. CASE v.sect \in FatSectors /\ NFats = 2
    <3> DEFINE s2 == <<"fat", 1, w.sect[3]>>
               e == DiskWrite(w, s2, w.win)
    <3>1. WriteCopy(w) = e.v  BY <2>4, <2>7 DEF WriteCopy
    <3> HIDE DEF e
    <3>2. /\ Goes(e) /\ Holds(w, e.v) /\ e.v.win = w.win /\ IsTrace(e.v.fault)
          /\ WrittenTo(w.disk, s2, w.win, e.v.disk)
      BY <2>4, WritesTraced DEF e
    <3>3. v.sect \in FirstCopy
      BY <1>2, <2>7, SectorsApart DEF Writable
    <3>4. s2 = SecondOf(v.sect)  BY <2>4 DEF SecondOf
    <3>5. s2 \in FatSectors /\ s2 \notin FirstCopy \cup MayBeTables
      BY <2>7, <3>3, <3>4, Sectors, SectorsApart
    <3>6. s2 \in ImageSectors  BY <3>5, SectorsApart
    <3> HIDE DEF s2
    <3>7. r.v = e.v /\ Goes(r) /\ r = Ok(r.v)  BY <2>2, <3>1 DEF Ok, Goes
    <3>8. \A s \in FirstCopy \cup MayBeTables : e.v.disk[s] = w.disk[s]
      BY <2>6, <3>2, <3>5, SectorsApart DEF WrittenTo
    <3>9. e.v.disk = [s \in ImageSectors |-> e.v.disk[s]]
      BY <2>6, <3>2, <3>6 DEF WrittenTo
    <3>10. Writable(e.v) /\ e.v.dirty = FALSE
      BY <2>4, <3>2, <3>9 DEF Writable, Holds, SameButDisk
    <3>11. e.v.sect = v.sect /\ e.v.win = v.win /\ SameCounts(v, e.v)
      BY <2>4, <3>2 DEF Holds, SameButDisk, SameCounts
    <3> QED  BY <1>2, <2>6, <3>7, <3>8, <3>10, <3>11, SectorsApart
  <2>8. CASE ~(v.sect \in FatSectors /\ NFats = 2)
    <3>1. r.v = w /\ Goes(r) /\ r = Ok(r.v)  BY <2>2, <2>4, <2>8 DEF WriteCopy, Ok, Goes
    <3> QED  BY <1>2, <2>4, <2>6, <3>1, SectorsApart DEF Writable
  <2> QED  BY <2>7, <2>8
<1> QED  BY <1>1, <1>2 DEF Writable

\* A volume that shows something can be written.
LEMMA ShowsWritable ==
  ASSUME NEW v, NEW T, NEW F, NEW X, Shows(v, T, F, X)
  PROVE  Writable(v) /\ T \subseteq MayBeTables
BY DEF Shows, Volume, Writable

\* What is seen is on the disk.
DiskHolds(d, T, F, X) == \A s \in FirstCopy \cup T : d[s] = Holding(F, X, s)

\* sync_window changes nothing of what is seen.
LEMMA SyncShows ==
  ASSUME NEW v, NEW T, NEW F, NEW X, Shows(v, T, F, X), NEW r, r = SyncWindow(v)
  PROVE  /\ Goes(r) /\ r = Ok(r.v) /\ Shows(r.v, T, F, X) /\ r.v.dirty = FALSE
         /\ r.v.sect = v.sect /\ r.v.win = v.win /\ SameCounts(v, r.v) /\ DiskHolds(r.v.disk, T, F, X)
<1>1. Writable(v) /\ T \subseteq MayBeTables  BY ShowsWritable
<1>2. /\ Goes(r) /\ r = Ok(r.v) /\ Writable(r.v) /\ r.v.dirty = FALSE
      /\ r.v.sect = v.sect /\ r.v.win = v.win /\ SameCounts(v, r.v)
      /\ \A s \in FirstCopy \cup MayBeTables :
           r.v.disk[s] = IF v.dirty /\ s = v.sect THEN v.win ELSE v.disk[s]
  BY <1>1, SyncWrites
<1>3. \A s \in FirstCopy \cup T : r.v.disk[s] = Seen(v, s)
  BY <1>1, <1>2 DEF Shows, Volume, Seen
<1>4. \A s \in FirstCopy \cup T : Seen(r.v, s) = Seen(v, s)
  BY <1>2, <1>3 DEF Seen
<1>5. Volume(r.v, T)
  BY <1>2, <1>3 DEF Writable, Volume, Seen
<1> QED  BY <1>1, <1>2, <1>3, <1>4, <1>5 DEF Shows, DiskHolds

\* move_window brings the sector in and changes nothing of what is seen.
LEMMA WindowAt ==
  ASSUME NEW v, NEW T, NEW F, NEW X, Shows(v, T, F, X), NEW s \in FirstCopy \cup T,
         NEW r, r = MoveWindow(v, s)
  PROVE  /\ Goes(r) /\ r = Ok(r.v) /\ Shows(r.v, T, F, X) /\ r.v.sect = s
         /\ r.v.win = Holding(F, X, s) /\ SameCounts(v, r.v)
<1>1. CASE s = v.sect
  <2>1. r = Ok(v)  BY <1>1 DEF MoveWindow
  <2>2. r.v = v /\ Goes(r)  BY <2>1 DEF Ok, Goes
  <2> QED  BY <1>1, <2>1, <2>2 DEF Shows, Seen, SameCounts
<1>2. CASE s # v.sect
  <2> DEFINE y == SyncWindow(v)
             d == DiskRead(y.v, s)
             w == [d.v EXCEPT !.sect = s]
  <2>0. y = SyncWindow(v) /\ d = DiskRead(y.v, s)  OBVIOUS
  <2> HIDE DEF y, d
  <2>1. /\ Goes(y) /\ Shows(y.v, T, F, X) /\ y.v.dirty = FALSE /\ SameCounts(v, y.v)
        /\ DiskHolds(y.v.disk, T, F, X)
    BY <2>0, SyncShows
  <2>2. /\ Goes(d) /\ Holds(y.v, d.v) /\ d.v.win = y.v.disk[s] /\ d.v.disk = y.v.disk
        /\ d.v.fault = y.v.fault
    BY <2>0, <2>1, ReadsTraced DEF Shows, Volume
  <2>3. r = Ok(w)
    BY <1>2, <2>0, <2>1, <2>2 DEF MoveWindow, ReadAfter, ReadIn, Goes
  <2>4. w = [disk |-> y.v.disk, win |-> y.v.disk[s], sect |-> s, dirty |-> FALSE,
             last |-> y.v.last, free |-> y.v.free, info |-> y.v.info, fault |-> y.v.fault]
    <3>1. \A x : x = [d.v EXCEPT !.sect = s] =>
              HasFields(x) /\ x.disk = d.v.disk /\ x.win = d.v.win
              /\ x.sect = s /\ x.dirty = d.v.dirty /\ x.last = d.v.last /\ x.free = d.v.free
              /\ x.info = d.v.info /\ x.fault = d.v.fault
      BY <2>2, Assigned DEF Holds
    <3>2. HasFields(w) /\ w.disk = y.v.disk /\ w.win = y.v.disk[s] /\ w.sect = s /\ w.dirty = FALSE
          /\ w.last = y.v.last /\ w.free = y.v.free /\ w.info = y.v.info /\ w.fault = y.v.fault
      BY <2>1, <2>2, <3>1 DEF Holds, SameButDisk
    <3> HIDE DEF w
    <3> QED  BY <3>2 DEF HasFields
  <2> HIDE DEF w
  <2>5. r.v = w /\ Goes(r) /\ r = Ok(r.v)  BY <2>3 DEF Ok, Goes
  <2>6. HasFields(w)  BY <2>4 DEF HasFields
  <2>7. \A t \in FirstCopy \cup T : Seen(w, t) = Holding(F, X, t)
    BY <2>1, <2>4 DEF Seen, DiskHolds
  <2>8. Volume(w, T)
    BY <2>1, <2>4, <2>6 DEF Shows, Volume
  <2>9. Shows(w, T, F, X)  BY <2>1, <2>7, <2>8 DEF Shows
  <2>10. w.sect = s /\ w.win = Holding(F, X, s) /\ SameCounts(v, w)
    BY <2>1, <2>4 DEF DiskHolds, SameCounts
  <2> QED  BY <2>5, <2>9, <2>10
<1> QED  BY <1>1, <1>2

\* A FAT with another entry, and tables with another sector.
Put(F, c, val) == [F EXCEPT ![c] = val]
Laid(X, s, x) == [X EXCEPT ![s] = x]

\* w is v but for the window, which is now to be written.
Overwritten(v, x, w) ==
  /\ HasFields(w) /\ w.disk = v.disk /\ w.sect = v.sect /\ w.fault = v.fault
  /\ w.win = x /\ w.dirty = TRUE

\* An entry of the FAT is changed in the buffer of its sector: the FAT shown
\* changes in that entry alone.
LEMMA FatOverwritten ==
  ASSUME NEW v, NEW T, NEW F, NEW X, Shows(v, T, F, X), NEW c \in FatEntries, NEW val \in Link \ {1},
         v.sect = FatSector(0, c), NEW w, Overwritten(v, [v.win EXCEPT ![c] = val], w)
  PROVE  Shows(w, T, Put(F, c, val), X)
<1> DEFINE s0 == FatSector(0, c)
           G == Put(F, c, val)
<1>0. s0 \in FirstCopy /\ c \in EntriesOf(s0[3]) /\ v.sect = s0 /\ s0 \notin T /\ T \subseteq MayBeTables
      /\ FirstCopy \cap MayBeTables = {}
  BY Sectors, SectorsApart DEF Shows
<1>1. v.win = [e \in EntriesOf(s0[3]) |-> F[e]]
  BY <1>0 DEF Shows, Seen, Holding
<1>2. F = [e \in FatEntries |-> F[e]] /\ \A e \in FatEntries : F[e] \in Link
  BY DEF Shows, Fats
<1>3. G \in Fats /\ \A e \in FatEntries : G[e] = IF e = c THEN val ELSE F[e]
  BY <1>2 DEF Put, Fats
<1>4. \A s \in FirstCopy : \A e \in EntriesOf(s[3]) : e \in FatEntries /\ (e = c => s = s0)
  BY Sectors
<1> HIDE DEF s0, G
<1>5. \A s \in FirstCopy : s # s0 => [e \in EntriesOf(s[3]) |-> G[e]] = [e \in EntriesOf(s[3]) |-> F[e]]
  BY <1>3, <1>4
<1>6. [v.win EXCEPT ![c] = val] = [e \in EntriesOf(s0[3]) |-> G[e]]
  BY <1>0, <1>1, <1>3, <1>4
<1>7. w.win = [e \in EntriesOf(s0[3]) |-> G[e]] /\ w.sect = s0 /\ w.disk = v.disk
  BY <1>0, <1>6 DEF Overwritten
<1>8. ASSUME NEW s \in FirstCopy \cup T PROVE Seen(w, s) = Holding(G, X, s)
  <2>0. s \in T => s \notin FirstCopy /\ s # s0  BY <1>0
  <2>1. CASE s = s0
    BY <1>0, <1>7, <2>1 DEF Seen, Holding
  <2>2. CASE s # s0
    <3>1. Seen(w, s) = Seen(v, s)  BY <1>0, <1>7, <2>2 DEF Seen
    <3>2. Seen(v, s) = Holding(F, X, s)  BY DEF Shows
    <3>3. Holding(F, X, s) = Holding(G, X, s)  BY <1>5, <2>0, <2>2 DEF Holding
    <3> QED  BY <3>1, <3>2, <3>3
  <2> QED  BY <2>1, <2>2
<1>9. Volume(w, T)
  BY <1>0, <1>7 DEF Shows, Volume, Overwritten
<1>10. \A e \in Clusters : G[e] # 1  BY <1>3, Numbers DEF Shows
<1> QED  BY <1>0, <1>3, <1>8, <1>9, <1>10 DEF Shows, G

\* The buffer holds a sector of a table and is given other contents.
LEMMA TableOverwritten ==
  ASSUME NEW v, NEW T, NEW F, NEW X, Shows(v, T, F, X), v.sect \in T, NEW x,
         NEW w, Overwritten(v, x, w)
  PROVE  Shows(w, T, F, Laid(X, v.sect, x))
<1> DEFINE Y == Laid(X, v.sect, x)
<1>0. v.sect \notin FirstCopy /\ T \subseteq MayBeTables /\ FirstCopy \cap MayBeTables = {}
  BY SectorsApart DEF Shows
<1>1. X = [s \in T |-> X[s]]  BY DEF Shows
<1>2. Y = [s \in T |-> Y[s]] /\ \A s \in T : Y[s] = IF s = v.sect THEN x ELSE X[s]
  BY <1>1 DEF Laid
<1> HIDE DEF Y
<1>3. ASSUME NEW s \in FirstCopy \cup T PROVE Seen(w, s) = Holding(F, Y, s)
  <2>1. s \in T => s \notin FirstCopy  BY <1>0
  <2>2. Seen(v, s) = Holding(F, X, s)  BY DEF Shows
  <2> QED  BY <1>0, <1>2, <2>1, <2>2 DEF Seen, Holding, Overwritten
<1>4. Volume(w, T)
  BY DEF Shows, Volume, Overwritten
<1> QED  BY <1>2, <1>3, <1>4 DEF Shows, Y

\* The counts are no part of what is seen.
LEMMA CountsAside ==
  ASSUME NEW v, NEW T, NEW F, NEW X, Shows(v, T, F, X), NEW w, HasFields(w),
         w.disk = v.disk, w.win = v.win, w.sect = v.sect, w.dirty = v.dirty, w.fault = v.fault
  PROVE  Shows(w, T, F, X)
<1>1. Volume(w, T)  BY DEF Shows, Volume
<1>2. \A s \in FirstCopy \cup T : Seen(w, s) = Seen(v, s)  BY DEF Seen
<1> QED  BY <1>1, <1>2 DEF Shows

\* get_fat.
LEMMA EntrySeen ==
  ASSUME NEW v, NEW T, NEW F, NEW X, Shows(v, T, F, X), NEW c \in Clusters,
         NEW g, g = GetFat(v, c)
  PROVE  g.val = F[c] /\ F[c] \in Link /\ Shows(g.v, T, F, X) /\ g = Value(g.v, g.val)
         /\ g.v.sect = FatSector(0, c)
<1> DEFINE m == MoveWindow(v, FatSector(0, c))
<1>0. m = MoveWindow(v, FatSector(0, c)) /\ c \in FatEntries /\ FatSector(0, c) \in FirstCopy
      /\ c \in EntriesOf(FatSector(0, c)[3])
  BY Sectors, Numbers
<1> HIDE DEF m
<1>1. Goes(m) /\ Shows(m.v, T, F, X) /\ m.v.win = Holding(F, X, FatSector(0, c))
      /\ m.v.sect = FatSector(0, c)
  BY <1>0, WindowAt
<1>2. g = Value(m.v, m.v.win[c])
  BY <1>0, <1>1 DEF GetFat, EntryIn, Goes
<1>3. m.v.win[c] = F[c]
  BY <1>0, <1>1 DEF Holding
<1>4. F[c] \in Link  BY <1>0 DEF Shows, Fats
<1> QED  BY <1>1, <1>2, <1>3, <1>4 DEF Value

\* put_fat.
LEMMA FatEntrySet ==
  ASSUME NEW v, NEW T, NEW F, NEW X, Shows(v, T, F, X), NEW c \in Clusters, NEW val \in Link \ {1},
         NEW r, r = PutFat(v, c, val)
  PROVE  Goes(r) /\ Shows(r.v, T, Put(F, c, val), X) /\ r = Ok(r.v) /\ r.v.sect = FatSector(0, c)
<1> DEFINE m == MoveWindow(v, FatSector(0, c))
           x == [m.v.win EXCEPT ![c] = val]
           u == [m.v EXCEPT !.win = x]
           w == [u EXCEPT !.dirty = TRUE]
<1>0. m = MoveWindow(v, FatSector(0, c)) /\ c \in FatEntries /\ FatSector(0, c) \in FirstCopy
  BY Sectors, Numbers
<1> HIDE DEF m
<1>1. Goes(m) /\ Shows(m.v, T, F, X) /\ m.v.sect = FatSector(0, c)
  BY <1>0, WindowAt
<1>2. r = Dirtied(Ok(u))
  BY <1>0, <1>1 DEF PutFat, EntryTo, Goes
<1>3. HasFields(m.v)  BY <1>1 DEF Shows, Volume
<1>4. HasFields(u) /\ u.disk = m.v.disk /\ u.sect = m.v.sect /\ u.fault = m.v.fault /\ u.win = x
  <2>1. WindowIs(m.v, m.v.sect, x, u)
    BY <1>3 DEF WindowIs, HasFields
  <2> HIDE DEF u, x
  <2> QED  BY <1>3, <2>1, WindowReplaced
<1> HIDE DEF u
<1>5. r = Ok(w)  BY <1>2 DEF Dirtied, Ok
<1>6. HasFields(w) /\ w.disk = u.disk /\ w.win = u.win /\ w.sect = u.sect /\ w.dirty = TRUE /\ w.fault = u.fault
  BY <1>4, Assigned
<1> HIDE DEF w
<1>7. Overwritten(m.v, x, w)
  BY <1>4, <1>6 DEF Overwritten
<1>8. Shows(w, T, Put(F, c, val), X)
  BY <1>0, <1>1, <1>7, FatOverwritten
<1>9. w.sect = FatSector(0, c)  BY <1>1, <1>4, <1>6
<1> QED  BY <1>5, <1>8, <1>9 DEF Ok, Goes

----------------------------------------------------------------------------
(* remove_chain, of a chain.                                               *)

\* What the volume is after one of its counters is set.
LEMMA FieldsSet ==
  ASSUME NEW v, HasFields(v), NEW x, NEW y, NEW z
  PROVE  /\ \A w : w = [v EXCEPT !.free = x] => w = [disk |-> v.disk, win |-> v.win, sect |-> v.sect,
              dirty |-> v.dirty, last |-> v.last, free |-> x, info |-> v.info, fault |-> v.fault]
         /\ \A w : w = [v EXCEPT !.last = x] => w = [disk |-> v.disk, win |-> v.win, sect |-> v.sect,
              dirty |-> v.dirty, last |-> x, free |-> v.free, info |-> v.info, fault |-> v.fault]
         /\ \A w : w = [v EXCEPT !.info = x] => w = [disk |-> v.disk, win |-> v.win, sect |-> v.sect,
              dirty |-> v.dirty, last |-> v.last, free |-> v.free, info |-> x, fault |-> v.fault]
         /\ \A w : w = [v EXCEPT !.fault = x] => w = [disk |-> v.disk, win |-> v.win, sect |-> v.sect,
              dirty |-> v.dirty, last |-> v.last, free |-> v.free, info |-> v.info, fault |-> x]
BY DEF HasFields

FreeSet(v, x, y) == [v EXCEPT !.free = x, !.info = y]
LastSet(v, z) == [v EXCEPT !.last = z]
AllSet(v, z, y, x) == [v EXCEPT !.last = z, !.info = y, !.free = x]

\* The counters of free clusters say nothing of the FAT or of a table.
LEMMA CountSet ==
  ASSUME NEW v, NEW T, NEW F, NEW X, Shows(v, T, F, X), NEW x, NEW y, NEW z
  PROVE  /\ Shows(FreeSet(v, x, y), T, F, X)
         /\ Shows(LastSet(v, z), T, F, X)
         /\ Shows(AllSet(v, z, y, x), T, F, X)
         /\ FreeSet(v, x, y).sect = v.sect
         /\ LastSet(v, z).sect = v.sect
         /\ AllSet(v, z, y, x).sect = v.sect
<1>0. HasFields(v)  BY DEF Shows, Volume
<1> DEFINE Rest(w) == HasFields(w) /\ w.disk = v.disk /\ w.win = v.win /\ w.sect = v.sect /\ w.dirty = v.dirty
                     /\ w.fault = v.fault
<1>1. \A u, t : Rest(u) => Rest([u EXCEPT !.free = t]) /\ Rest([u EXCEPT !.last = t]) /\ Rest([u EXCEPT !.info = t])
  <2> TAKE u, t
  <2> SUFFICES ASSUME Rest(u) PROVE Rest([u EXCEPT !.free = t]) /\ Rest([u EXCEPT !.last = t]) /\ Rest([u EXCEPT !.info = t])
    OBVIOUS
  <2>1. Rest([u EXCEPT !.free = t])  BY FieldsSet DEF HasFields
  <2>2. Rest([u EXCEPT !.last = t])  BY FieldsSet DEF HasFields
  <2>3. Rest([u EXCEPT !.info = t])  BY FieldsSet DEF HasFields
  <2> QED  BY <2>1, <2>2, <2>3
<1>2. Rest(v)  BY <1>0
<1>3. \A w : Rest(w) => Shows(w, T, F, X)  BY CountsAside
<1> HIDE DEF Rest
<1> DEFINE a == [v EXCEPT !.free = x]
           b == [v EXCEPT !.last = z]
           c == [b EXCEPT !.info = y]
<1>4. Rest(a) /\ Rest(b)  BY <1>1, <1>2
<1>5. Rest([a EXCEPT !.info = y]) /\ Rest(c)  BY <1>1, <1>4
<1>6. Rest([c EXCEPT !.free = x])  BY <1>1, <1>5
<1> QED  BY <1>3, <1>4, <1>5, <1>6 DEF Rest, FreeSet, AllSet, LastSet

\* free_clust is raised.
LEMMA CountAfter ==
  ASSUME NEW v, NEW T, NEW F, NEW X, Shows(v, T, F, X)
  PROVE  Shows(CountFreed(v), T, F, X) /\ CountFreed(v).sect = v.sect
<1>1. CASE v.free = Max32
  BY <1>1 DEF CountFreed
<1>2. CASE v.free # Max32
  <2> DEFINE n == v.free + 1
             b == TRUE
  <2>1. CountFreed(v) = FreeSet(v, n, b)  BY <1>2 DEF CountFreed, FreeSet
  <2> HIDE DEF n, b
  <2> QED  BY <2>1, CountSet
<1> QED  BY <1>1, <1>2

\* One round of remove_chain at a cluster that is taken.
LEMMA RoundFrees ==
  ASSUME NEW v, NEW T, NEW F, NEW X, Shows(v, T, F, X), NEW c \in Clusters, F[c] \in 2..LastLink,
         NEW m, m = RemoveRound(Removing(v, c))
  PROVE  Shows(m.v, T, Put(F, c, 0), X) /\ m = Removing(m.v, F[c]) /\ m.v.sect = FatSector(0, c)
<1> DEFINE g == GetFat(v, c)
           p == PutFat(g.v, c, 0)
<1>0. g = GetFat(v, c) /\ p = PutFat(g.v, c, 0)  OBVIOUS
<1> HIDE DEF g, p
<1>1. g.val = F[c] /\ Shows(g.v, T, F, X)  BY <1>0, EntrySeen
<1>2. 0 \in Link \ {1} /\ 0 \notin 2..LastLink /\ 1 \notin 2..LastLink /\ Max32 \notin 2..LastLink /\ c < NFatEnt
  BY Numbers
<1>3. Goes(p) /\ Shows(p.v, T, Put(F, c, 0), X) /\ p.v.sect = FatSector(0, c)
  BY <1>0, <1>1, <1>2, FatEntrySet
<1>4. m = RemoveNext(g, c)
  BY <1>0, <1>2 DEF RemoveRound, Removing
<1>5. g.val # 0 /\ g.val # 1 /\ g.val # Max32  BY <1>1, <1>2
<1>6. m = Cleared(p, g.val)
  BY <1>0, <1>4, <1>5, Zenon DEF RemoveNext
<1>7. m = Removing(CountFreed(p.v), F[c])
  BY <1>1, <1>3, <1>6 DEF Cleared, Goes
<1>8. m.v = CountFreed(p.v)  BY <1>7 DEF Removing
<1> QED  BY <1>3, <1>7, <1>8, CountAfter

\* remove_chain frees the clusters of a chain and no others.
LEMMA ChainFreed ==
  ASSUME NEW v, NEW T, NEW F, NEW X, Shows(v, T, F, X), NEW e, Path(F, e),
         NEW r, r = RemoveChain(v, e[1])
  PROVE  /\ Goes(r) /\ r = Ok(r.v) /\ Shows(r.v, T, Zeroed(F, Firsts(e, Len(e))), X)
         /\ r.v.sect \in FirstCopy
<1> DEFINE L == Len(e)
<1>0. L \in Nat /\ 0 < L /\ L <= NFatEnt - 2 /\ F \in Fats /\ e[1] \in Clusters
  <2>1. L \in Nat /\ 0 < L  BY DEF Path
  <2>2. L <= NFatEnt - 2  BY PathBounded DEF Path
  <2>4. e[1] \in Clusters  BY <2>1 DEF Path
  <2> QED  BY <2>1, <2>2, <2>4 DEF Shows
<1>1. r = RemoveFrom(v, e[1])
  BY <1>0 DEF RemoveChain
<1>2. PICK f : /\ f[0] = Removing(v, e[1])
               /\ \A n \in 1..NFatEnt : f[n] = RemoveRound(f[n - 1])
               /\ RemoveFrom(v, e[1]) = Failed(f[NFatEnt].v, f[NFatEnt].res)
  BY RemovingRounds
<1> DEFINE On(n, l) == n < L /\ l = Removing(l.v, e[n + 1]) /\ Shows(l.v, T, Zeroed(F, Firsts(e, n)), X)
           Over1(n, l) == /\ L <= n /\ l.on = FALSE /\ l.res = "FR_OK" /\ l.v.sect \in FirstCopy
                         /\ Shows(l.v, T, Zeroed(F, Firsts(e, L)), X)
           S == {n \in Nat : n <= NFatEnt => On(n, f[n]) \/ Over1(n, f[n])}
<1>3. 0 \in S
  <2>1. f[0].v = v  BY <1>2 DEF Removing
  <2>2. F = Zeroed(F, Firsts(e, 0))
    <3>1. Firsts(e, 0) = {}  BY DEF Firsts
    <3>2. Zeroed(F, {}) = [c \in FatEntries |-> F[c]]  BY DEF Zeroed
    <3> QED  BY <1>0, <3>1, <3>2 DEF Fats
  <2>4. On(0, f[0])  BY <1>0, <1>2, <2>1, <2>2
  <2> QED  BY <2>4
<1>4. ASSUME NEW n \in Nat, n \in S PROVE n + 1 \in S
  <2> HIDE DEF On, Over1
  <2> SUFFICES ASSUME n + 1 <= NFatEnt PROVE On(n + 1, f[n + 1]) \/ Over1(n + 1, f[n + 1])
    OBVIOUS
  <2> USE DEF On, Over1
  <2> DEFINE l == f[n]
             m == f[n + 1]
  <2>1. On(n, l) \/ Over1(n, l)
    <3>1. n <= NFatEnt  BY Numbers
    <3> QED  BY <1>4, <3>1
  <2>2. m = RemoveRound(l)
    <3>1. n + 1 \in 1..NFatEnt /\ (n + 1) - 1 = n  BY Numbers
    <3> QED  BY <1>2, <3>1
  <2> HIDE DEF l, m
  <2>3. CASE Over1(n, l)
    <3>1. m = l  BY <2>2, <2>3 DEF RemoveRound
    <3>2. Over1(n + 1, l)  BY <1>0, <2>3
    <3> QED  BY <3>1, <3>2 DEF m
  <2>4. CASE On(n, l)
    <3> DEFINE u == l.v
               c == e[n + 1]
               H == Zeroed(F, Firsts(e, n))
    <3>1. n \in 0..(L - 1)  BY <1>0, <2>4
    <3>2. /\ Put(H, c, 0) = Zeroed(F, Firsts(e, n + 1))
          /\ H[c] = F[c] /\ c \in Clusters /\ F[c] \in 2..LastLink
      <4>1. n \in 0..(Len(e) - 1) /\ F \in Fats /\ Path(F, e)  BY <1>0, <3>1
      <4>2. FreesNext(F, e, n)  BY <4>1, ZeroedNext
      <4> QED  BY <4>2 DEF FreesNext, Put
    <3>3. F[c] = IF n + 1 < L THEN e[n + 2] ELSE LastLink
      <4>1. n + 1 \in 1..L /\ (n + 1) + 1 = n + 2  BY <3>1
      <4> QED  BY <4>1 DEF Path
    <3>6. Shows(u, T, H, X) /\ m = RemoveRound(Removing(u, c)) /\ H[c] \in 2..LastLink /\ c \in Clusters
      BY <2>2, <2>4, <3>2
    <3> HIDE DEF u, c, H
    <3>7. Shows(m.v, T, Put(H, c, 0), X) /\ m = Removing(m.v, H[c]) /\ m.v.sect = FatSector(0, c)
      BY <3>6, RoundFrees
    <3>8. Shows(m.v, T, Zeroed(F, Firsts(e, n + 1)), X) /\ m = Removing(m.v, F[c])
      BY <3>2, <3>7
    <3>9. CASE n + 1 < L
      <4>2. m = Removing(m.v, e[(n + 1) + 1])  BY <3>3, <3>8, <3>9
      <4> QED  BY <3>8, <3>9, <4>2 DEF m
    <3>10. CASE ~(n + 1 < L)
      <4>1. n + 1 = L  BY <3>1, <3>10
      <4>2. F[c] = LastLink  BY <3>3, <3>10
      <4>3. Removing(m.v, LastLink) = [v |-> m.v, res |-> "FR_OK", clst |-> LastLink, on |-> FALSE]
        <5>1. (LastLink < NFatEnt) = FALSE  BY Numbers
        <5> QED  BY <5>1 DEF Removing
      <4>4. m.on = FALSE /\ m.res = "FR_OK"  BY <3>8, <4>2, <4>3
      <4>5. m.v.sect \in FirstCopy  BY <3>6, <3>7, Sectors, Numbers
      <4> QED  BY <3>8, <4>1, <4>4, <4>5 DEF m
    <3> QED  BY <3>9, <3>10
  <2> QED  BY <2>1, <2>3, <2>4
<1> HIDE DEF S
<1>5. NFatEnt \in S
  BY <1>3, <1>4, Inductive, Numbers
<1>6. On(NFatEnt, f[NFatEnt]) \/ Over1(NFatEnt, f[NFatEnt])
  BY <1>5, Numbers DEF S
<1>7. r.v = f[NFatEnt].v /\ r.res = f[NFatEnt].res /\ r = Failed(r.v, r.res)
  BY <1>1, <1>2 DEF Failed
<1>8. ~On(NFatEnt, f[NFatEnt])
  BY <1>0, Numbers
<1>9. r.res = "FR_OK" => r = Ok(r.v)  BY <1>7 DEF Failed, Ok
<1> QED  BY <1>6, <1>7, <1>8, <1>9 DEF Goes

----------------------------------------------------------------------------
(* create_chain.                                                           *)

FreeOrFull(F, val) ==
  \/ val \in Clusters /\ F[val] = 0
  \/ val = 0 /\ \A c \in Clusters : F[c] # 0

Sought(T, F, X, scl, n, r) ==
  /\ Shows(r.v, T, F, X)
  /\ \/ r = Searching(r.v, n) /\ F[n] # 0 /\ n # scl
     \/ r.on = FALSE /\ r.val = n /\ F[n] = 0
     \/ r.on = FALSE /\ r.val = 0 /\ F[n] # 0 /\ n = scl

\* One look of create_chain for a free cluster, at entry n.
LEMMA SoughtAt ==
  ASSUME NEW v, NEW T, NEW F, NEW X, Shows(v, T, F, X), NEW n \in Clusters, NEW scl,
         NEW r, r = FoundAt(GetFat(v, n), scl, n)
  PROVE  Sought(T, F, X, scl, n, r)
<1> DEFINE g == GetFat(v, n)
<1>0. g = GetFat(v, n)  OBVIOUS
<1>1. r = FoundAt(g, scl, n)  OBVIOUS
<1> HIDE DEF g
<1>2. Shows(g.v, T, F, X) /\ g.val = F[n] /\ g.val # Max32 /\ Max32 # 0 /\ g.val # 1
  BY <1>0, EntrySeen, Numbers DEF Shows
<1>3. CASE g.val = 0
  <2>1. g.val \notin {1, Max32} /\ ~(g.val \notin {0, 1, Max32} /\ n = scl)  BY <1>2, <1>3
  <2>2. r = SearchEnds(g.v, n)  BY <1>1, <1>3, <2>1, Zenon DEF FoundAt
  <2> QED  BY <1>2, <1>3, <2>2 DEF Sought, SearchEnds
<1>5. CASE g.val # 0 /\ n = scl
  <2>1. g.val # 0 /\ g.val \notin {1, Max32} /\ g.val \notin {0, 1, Max32} /\ n = scl
    BY <1>2, <1>5
  <2>2. r = SearchEnds(g.v, 0)  BY <1>1, <2>1, Zenon DEF FoundAt
  <2> QED  BY <1>2, <1>5, <2>2 DEF Sought, SearchEnds
<1>6. CASE g.val # 0 /\ n # scl
  <2>1. g.val # 0 /\ g.val \notin {1, Max32} /\ ~(g.val \notin {0, 1, Max32} /\ n = scl)
    BY <1>2, <1>6
  <2>2. r = Searching(g.v, n)  BY <1>1, <2>1, Zenon DEF FoundAt
  <2> QED  BY <1>2, <1>6, <2>2 DEF Sought, Searching
<1> QED  BY <1>3, <1>5, <1>6

\* The search of create_chain: a free cluster, none, or an error.
LEMMA FreeSought ==
  ASSUME NEW v, NEW T, NEW F, NEW X, Shows(v, T, F, X), NEW scl \in 1..(NFatEnt - 1),
         NEW r, r = FindFree(v, scl)
  PROVE  Shows(r.v, T, F, X) /\ FreeOrFull(F, r.val) /\ r = Value(r.v, r.val)
<1>1. PICK f : /\ f[0] = Searching(v, scl)
               /\ \A n \in 1..NFatEnt : f[n] = SearchRound(f[n - 1], scl)
               /\ FindFree(v, scl) = Value(f[NFatEnt].v, f[NFatEnt].val)
  BY SearchRounds
<1> DEFINE Up(k, l) == /\ scl + k < NFatEnt /\ l.n = scl + k
                       /\ \A c \in Clusters : scl < c /\ c <= l.n => F[c] # 0
           Around(k, l) == /\ NFatEnt <= scl + k /\ l.n = k + scl - NFatEnt + 2 /\ l.n < scl
                           /\ \A c \in Clusters : scl < c \/ c <= l.n => F[c] # 0
           Inv(k, l) == /\ Shows(l.v, T, F, X)
                        /\ \/ l = Searching(l.v, l.n) /\ (Up(k, l) \/ Around(k, l))
                           \/ l.on = FALSE /\ FreeOrFull(F, l.val)
           S == {k \in Nat : k <= NFatEnt => Inv(k, f[k])}
<1>2. 0 \in S
  <2>1. f[0].v = v /\ f[0].n = scl  BY <1>1 DEF Searching
  <2>3. \A c \in Clusters : ~(scl < c /\ c <= scl)  BY Numbers
  <2>4. Up(0, f[0])  BY <2>1, <2>3, Numbers
  <2> QED  BY <1>1, <2>1, <2>4
<1>3. ASSUME NEW k \in Nat, k \in S PROVE k + 1 \in S
  <2> HIDE DEF Inv
  <2> SUFFICES ASSUME k + 1 <= NFatEnt PROVE Inv(k + 1, f[k + 1])
    OBVIOUS
  <2> USE DEF Inv
  <2> DEFINE l == f[k]
             m == f[k + 1]
  <2>1. Inv(k, l)
    <3>1. k <= NFatEnt  BY Numbers
    <3> QED  BY <1>3, <3>1
  <2>2. m = SearchRound(l, scl)
    <3>1. k + 1 \in 1..NFatEnt /\ (k + 1) - 1 = k  BY Numbers
    <3> QED  BY <1>1, <3>1
  <2> HIDE DEF l, m
  <2>3. CASE l.on = FALSE /\ FreeOrFull(F, l.val)
    <3>1. m = l  BY <2>2, <2>3 DEF SearchRound
    <3> QED  BY <2>1, <2>3, <3>1 DEF m
  <2>4. CASE l = Searching(l.v, l.n) /\ (Up(k, l) \/ Around(k, l))
    <3> DEFINE u == l.v
    <3>1. m = LookFrom(u, scl, l.n)
      <4>1. l.on = TRUE  BY <2>4 DEF Searching
      <4> QED  BY <2>2, <4>1 DEF SearchRound
    <3>2. Shows(u, T, F, X) /\ l.n \in Int  BY <2>1, <2>4, Numbers
    <3>3. ASSUME NEW n \in Clusters, m = FoundAt(GetFat(u, n), scl, n)
          PROVE  /\ Shows(m.v, T, F, X)
                 /\ \/ m = Searching(m.v, m.n) /\ m.n = n /\ F[n] # 0 /\ n # scl
                    \/ m.on = FALSE /\ m.val = 0 /\ F[n] # 0 /\ n = scl
                    \/ m.on = FALSE /\ FreeOrFull(F, m.val)
      <4> HIDE DEF u
      <4>1. Sought(T, F, X, scl, n, m)
        BY <3>2, <3>3, SoughtAt
      <4>2. Shows(m.v, T, F, X)  BY <3>2, <4>1 DEF Sought
      <4>3. m = Searching(m.v, n) => m.n = n  BY DEF Searching
      <4> QED  BY <4>1, <4>2, <4>3 DEF Sought, FreeOrFull
    <3> HIDE DEF u
    <3>4. CASE l.n + 1 < NFatEnt
      <4> DEFINE n == l.n + 1
      <4>1. n \in Clusters  BY <2>4, <3>4, Numbers
      <4>2. m = FoundAt(GetFat(u, n), scl, n)
        <5>1. ~(l.n + 1 >= NFatEnt /\ scl < 2)  BY <3>2, <3>4, Numbers
        <5>2. ClusterAfter(l.n) = n  BY <3>4 DEF ClusterAfter
        <5> QED  BY <3>1, <5>1, <5>2, Zenon DEF LookFrom
      <4> HIDE DEF n
      <4>3. /\ Shows(m.v, T, F, X)
            /\ \/ m = Searching(m.v, m.n) /\ m.n = n /\ F[n] # 0 /\ n # scl
               \/ m.on = FALSE /\ m.val = 0 /\ F[n] # 0 /\ n = scl
               \/ m.on = FALSE /\ FreeOrFull(F, m.val)
        BY <3>3, <4>1, <4>2
      <4>4. \A c \in Clusters : c <= n <=> c <= l.n \/ c = n  BY <3>2, Numbers DEF n
      <4>5. CASE Up(k, l)
        <5>1. scl + (k + 1) < NFatEnt /\ n = scl + (k + 1) /\ n # scl
          BY <3>4, <4>5, Numbers DEF n
        <5>2. F[n] # 0 => \A c \in Clusters : scl < c /\ c <= n => F[c] # 0
          BY <4>4, <4>5
        <5> QED  BY <4>3, <5>1, <5>2 DEF m
      <4>6. CASE Around(k, l)
        <5>1. NFatEnt <= scl + (k + 1) /\ n = (k + 1) + scl - NFatEnt + 2 /\ n <= scl
          BY <3>4, <4>6, Numbers DEF n
        <5>2. F[n] # 0 => \A c \in Clusters : scl < c \/ c <= n => F[c] # 0
          BY <4>4, <4>6
        <5>3. n # scl => n < scl  BY <5>1, <4>1, Numbers
        <5>4. n = scl => \A c \in Clusters : scl < c \/ c <= n  BY Numbers
        <5>5. CASE m = Searching(m.v, m.n) /\ m.n = n /\ F[n] # 0 /\ n # scl
          BY <4>3, <5>1, <5>2, <5>3, <5>5 DEF m
        <5>6. CASE m.on = FALSE /\ m.val = 0 /\ F[n] # 0 /\ n = scl
          BY <4>3, <5>2, <5>4, <5>6 DEF m, FreeOrFull
        <5> QED  BY <4>3, <5>5, <5>6 DEF m
      <4> QED  BY <2>4, <4>5, <4>6
    <3>5. CASE l.n + 1 >= NFatEnt
      <4>1. Up(k, l) /\ l.n = NFatEnt - 1 /\ k = NFatEnt - 1 - scl
        BY <2>4, <3>2, <3>5, Numbers
      <4>2. \A c \in Clusters : scl < c => F[c] # 0
        BY <4>1, Numbers
      <4>3. CASE 2 <= scl
        <5>1. 2 \in Clusters  BY Numbers
        <5>2. m = FoundAt(GetFat(u, 2), scl, 2)
          <6>1. ~(l.n + 1 < NFatEnt) /\ ~(scl < 2)  BY <3>2, <3>5, <4>3, Numbers
          <6>2. ClusterAfter(l.n) = 2  BY <6>1 DEF ClusterAfter
          <6> QED  BY <3>1, <6>1, <6>2, Zenon DEF LookFrom
        <5>3. /\ Shows(m.v, T, F, X)
              /\ \/ m = Searching(m.v, m.n) /\ m.n = 2 /\ F[2] # 0 /\ 2 # scl
                 \/ m.on = FALSE /\ m.val = 0 /\ F[2] # 0 /\ 2 = scl
                 \/ m.on = FALSE /\ FreeOrFull(F, m.val)
          BY <3>3, <5>1, <5>2
        <5>4. F[2] # 0 => \A c \in Clusters : scl < c \/ c <= 2 => F[c] # 0
          BY <4>2, Numbers
        <5>5. CASE m = Searching(m.v, m.n) /\ m.n = 2 /\ F[2] # 0 /\ 2 # scl
          <6>1. NFatEnt <= scl + (k + 1) /\ 2 = (k + 1) + scl - NFatEnt + 2 /\ 2 < scl
            BY <4>1, <4>3, <5>5, Numbers
          <6> QED  BY <5>3, <5>4, <5>5, <6>1 DEF m
        <5>6. CASE m.on = FALSE /\ m.val = 0 /\ F[2] # 0 /\ 2 = scl
          <6>1. \A c \in Clusters : F[c] # 0  BY <5>4, <5>6, Numbers
          <6> QED  BY <5>3, <5>6, <6>1 DEF m, FreeOrFull
        <5> QED  BY <5>3, <5>5, <5>6 DEF m
      <4>4. CASE ~(2 <= scl)
        <5>1. m = SearchEnds(u, 0)
          <6>1. l.n + 1 >= NFatEnt /\ scl < 2  BY <3>2, <3>5, <4>4, Numbers
          <6> QED  BY <3>1, <6>1, Zenon DEF LookFrom
        <5>2. \A c \in Clusters : F[c] # 0  BY <4>2, <4>4, Numbers
        <5>3. m.v = u /\ m.on = FALSE /\ m.val = 0  BY <5>1 DEF SearchEnds
        <5> QED  BY <3>2, <5>2, <5>3 DEF m, FreeOrFull
      <4> QED  BY <4>3, <4>4
    <3>6. l.n + 1 < NFatEnt \/ l.n + 1 >= NFatEnt  BY <3>2, Numbers
    <3> HIDE DEF Inv
    <3> QED  BY <3>4, <3>5, <3>6
  <2> QED  BY <2>1, <2>3, <2>4
<1> HIDE DEF S
<1>4. NFatEnt \in S
  BY <1>2, <1>3, Inductive, Numbers
<1>5. Inv(NFatEnt, f[NFatEnt])
  BY <1>4, Numbers DEF S
<1>6. r.v = f[NFatEnt].v /\ r.val = f[NFatEnt].val /\ r = Value(r.v, r.val)
  BY <1>1 DEF Value
<1>7. ~Up(NFatEnt, f[NFatEnt]) /\ ~Around(NFatEnt, f[NFatEnt])
  BY Numbers
<1> QED  BY <1>5, <1>6, <1>7

\* A cluster is taken for c, or for nothing if c is 0.
LEMMA ClusterIsTaken ==
  ASSUME NEW v, NEW T, NEW F, NEW X, Shows(v, T, F, X), NEW n \in Clusters,
         NEW c \in {0} \cup Clusters, c # n, NEW r, r = TakeCluster(v, c, n)
  PROVE  r.val = n /\ Shows(r.v, T, Linked(F, c, n), X)
<1> DEFINE p == PutFat(v, n, LastLink)
           q == PutFat(p.v, c, n)
           l == LinkTo(p, c, n)
<1>0. p = PutFat(v, n, LastLink) /\ q = PutFat(p.v, c, n) /\ r = Taken(l, n)
  BY DEF TakeCluster
<1>1. LastLink \in Link \ {1} /\ n \in Link \ {1} /\ F \in Fats
  BY Numbers DEF Shows
<1>2. l = IF p.res = "FR_OK" /\ c # 0 THEN q ELSE p
  BY DEF LinkTo
<1> HIDE DEF p, q, l
<1>3. Goes(p) /\ Shows(p.v, T, Linked(F, 0, n), X)
  <2>1. Put(F, n, LastLink) = Linked(F, 0, n)  BY <1>1, Marked DEF Put
  <2> QED  BY <1>0, <1>1, <2>1, FatEntrySet
<1>4. Goes(l) /\ Shows(l.v, T, Linked(F, c, n), X)
  <2>1. CASE c = 0
    BY <1>2, <1>3, <2>1
  <2>2. CASE c \in Clusters
    <3>1. c # 0  BY <2>2, Numbers
    <3>2. l = q  BY <1>2, <1>3, <3>1 DEF Goes
    <3>3. Put(Linked(F, 0, n), c, n) = Linked(F, c, n)
      BY <1>1, <2>2, LinkedInSteps DEF Put
    <3>4. Goes(q) /\ Shows(q.v, T, Put(Linked(F, 0, n), c, n), X)
      BY <1>0, <1>1, <1>3, <2>2, FatEntrySet
    <3> QED  BY <3>2, <3>3, <3>4
  <2> QED  BY <2>1, <2>2
<1>5. r = Value(CountTaken(l.v, n), n)
  BY <1>0, <1>4 DEF Taken, Goes
<1>6. Shows(CountTaken(l.v, n), T, Linked(F, c, n), X)
  <2> DEFINE x == IF l.v.free = 0 THEN Max32 ELSE l.v.free - 1
             b == TRUE
  <2>1. CountTaken(l.v, n) = IF l.v.free = Max32 THEN LastSet(l.v, n) ELSE AllSet(l.v, n, b, x)
    BY DEF CountTaken, LastSet, AllSet
  <2> HIDE DEF x, b
  <2> QED  BY <1>4, <2>1, CountSet
<1> QED  BY <1>5, <1>6 DEF Value

\* What create_chain leaves: a new cluster for c, or nothing on a full disk.
Grown(T, F, X, c, r) ==
  \/ r.val = 0 /\ Shows(r.v, T, F, X) /\ \A n \in Clusters : F[n] # 0
  \/ r.val \in Clusters /\ r.val # c /\ F[r.val] = 0 /\ Shows(r.v, T, Linked(F, c, r.val), X)

\* create_chain links the free cluster it found behind c, or starts a chain.
LEMMA GrownFrom ==
  ASSUME NEW v, NEW T, NEW F, NEW X, Shows(v, T, F, X), NEW scl \in 1..(NFatEnt - 1),
         NEW c \in {0} \cup Clusters, c # 0 => F[c] # 0, NEW r, r = Allocate(v, c, scl)
  PROVE  Grown(T, F, X, c, r)
<1> DEFINE f == FindFree(v, scl)
           t == TakeCluster(f.v, c, f.val)
<1>0. f = FindFree(v, scl) /\ t = TakeCluster(f.v, c, f.val) /\ r = TakeFound(f, c)
  BY DEF Allocate
<1> HIDE DEF f, t
<1>1. Shows(f.v, T, F, X) /\ FreeOrFull(F, f.val) /\ f = Value(f.v, f.val)
  BY <1>0, FreeSought
<1>2. CASE f.val \in Clusters
  <2>1. r = t /\ F[f.val] = 0 /\ c # f.val
    BY <1>0, <1>1, <1>2, Numbers DEF TakeFound, FreeOrFull
  <2>2. t.val = f.val /\ Shows(t.v, T, Linked(F, c, f.val), X)
    BY <1>0, <1>1, <1>2, <2>1, ClusterIsTaken
  <2> QED  BY <1>2, <2>1, <2>2 DEF Grown
<1>3. CASE f.val \notin Clusters
  BY <1>0, <1>1, <1>3 DEF TakeFound, FreeOrFull, Grown
<1> QED  BY <1>2, <1>3

\* create_chain starts a chain.
LEMMA ChainBegun ==
  ASSUME NEW v, NEW T, NEW F, NEW X, Shows(v, T, F, X), NEW r, r = CreateChain(v, 0)
  PROVE  Grown(T, F, X, 0, r)
<1>1. r = Allocate(v, 0, Suggested(v))  BY BegunAt
<1>2. Suggested(v) \in 1..(NFatEnt - 1)  BY Numbers DEF Suggested
<1> QED  BY <1>1, <1>2, GrownFrom

\* create_chain asked for the cluster behind c: the one that follows when
\* there is one, else a new one.
LEMMA ChainFollowed ==
  ASSUME NEW v, NEW T, NEW F, NEW X, Shows(v, T, F, X), NEW c \in Clusters, NEW r, r = CreateChain(v, c)
  PROVE  /\ F[c] \in Clusters => r.val = F[c] /\ Shows(r.v, T, F, X)
         /\ F[c] = LastLink => Grown(T, F, X, c, r)
<1> DEFINE g == GetFat(v, c)
<1>0. g = GetFat(v, c) /\ c # 0 /\ c \in 1..(NFatEnt - 1)  BY Numbers
<1>1. /\ ~(g.val < 2) /\ g.val \in Clusters => r = Value(g.v, g.val)
      /\ ~(g.val < 2) /\ ~(g.val \in Clusters) => r = Allocate(g.v, c, c)
  BY <1>0, StretchedAt
<1> HIDE DEF g
<1>2. Shows(g.v, T, F, X) /\ g.val = F[c]  BY <1>0, EntrySeen
<1>3. CASE F[c] \in Clusters
  <2>1. ~(g.val < 2) /\ g.val \in Clusters /\ F[c] # LastLink  BY <1>2, <1>3, Numbers
  <2>2. r.v = g.v /\ r.val = g.val  BY <1>1, <2>1 DEF Value
  <2> QED  BY <1>2, <1>3, <2>1, <2>2
<1>4. CASE F[c] = LastLink
  <2>1. ~(g.val < 2) /\ g.val \notin Clusters /\ F[c] # 0  BY <1>2, <1>4, Numbers
  <2>2. r = Allocate(g.v, c, c)  BY <1>1, <2>1
  <2>3. Grown(T, F, X, c, r)  BY <1>0, <1>2, <2>1, <2>2, GrownFrom
  <2> QED  BY <1>2, <1>4, <2>1, <2>3 DEF Grown
<1> QED  BY <1>3, <1>4

----------------------------------------------------------------------------
(* f_sync's end, and sectors of files.                                     *)

\* sync writes the buffer and the counters and leaves the volume it showed.
LEMMA FsSync ==
  ASSUME NEW v, NEW T, NEW F, NEW X, Shows(v, T, F, X), NEW r, r = SyncFs(v)
  PROVE  Goes(r) /\ Shows(r.v, T, F, X) /\ r.v.dirty = FALSE
<1> DEFINE y == SyncWindow(v)
           i == InfoOf(y.v)
           b == [y.v EXCEPT !.sect = NoSector, !.win = i]
           d == DiskWrite(b, FsInfo, i)
           w == [d.v EXCEPT !.info = FALSE]
<1>0. y = SyncWindow(v) /\ d = DiskWrite(b, FsInfo, i) /\ WindowIs(y.v, NoSector, i, b)
  BY DEF WindowIs
<1>1. WriteInfo(y.v) = w  BY DEF WriteInfo
<1>2. r = Then(y, LAMBDA x : Ok(IF Fat32 /\ x.info THEN WriteInfo(x) ELSE x))  BY DEF SyncFs
<1> HIDE DEF y, i, b, d, w
<1>3. Goes(y) /\ Shows(y.v, T, F, X) /\ y.v.dirty = FALSE /\ DiskHolds(y.v.disk, T, F, X)
  BY <1>0, SyncShows
<1>4. r = Ok(IF Fat32 /\ y.v.info THEN WriteInfo(y.v) ELSE y.v)
  BY <1>2, <1>3 DEF Then, Goes
<1>5. CASE ~(Fat32 /\ y.v.info)
  BY <1>3, <1>4, <1>5 DEF Ok, Goes
<1>6. CASE Fat32 /\ y.v.info
  <2>1. HasFields(y.v) /\ IsTrace(y.v.fault) /\ y.v.disk = [s \in ImageSectors |-> y.v.disk[s]]
        /\ FsInfo \in ImageSectors /\ FsInfo \notin FirstCopy \cup T /\ NoSector \notin FirstCopy \cup T
    BY <1>3, <1>6, SectorsApart DEF Shows, Volume
  <2>2. HasFields(b) /\ b.disk = y.v.disk /\ b.sect = NoSector /\ b.dirty = FALSE /\ b.fault = y.v.fault
    BY <1>0, <1>3, <2>1, WindowReplaced
  <2>3. Holds(b, d.v) /\ IsTrace(d.v.fault) /\ WrittenTo(b.disk, FsInfo, i, d.v.disk)
    BY <1>0, <2>1, <2>2, WritesTraced
  <2>4. /\ d.v.disk = [s \in ImageSectors |-> d.v.disk[s]]
        /\ \A s \in FirstCopy \cup T : s \in ImageSectors => d.v.disk[s] = y.v.disk[s]
    BY <2>1, <2>2, <2>3 DEF WrittenTo
  <2>5. FirstCopy \cup T \subseteq ImageSectors  BY <1>3, SectorsApart DEF Shows
  <2>6. w = [disk |-> d.v.disk, win |-> d.v.win, sect |-> d.v.sect,
              dirty |-> d.v.dirty, last |-> d.v.last, free |-> d.v.free, info |-> FALSE, fault |-> d.v.fault]
    <3>1. HasFields(d.v)  BY <2>3 DEF Holds
    <3> DEFINE no == FALSE
    <3>2. w = [d.v EXCEPT !.info = no]  BY DEF w
    <3> HIDE DEF no
    <3>3. w = [disk |-> d.v.disk, win |-> d.v.win, sect |-> d.v.sect,
              dirty |-> d.v.dirty, last |-> d.v.last, free |-> d.v.free, info |-> no, fault |-> d.v.fault]
      BY <3>1, <3>2, FieldsSet
    <3> QED  BY <3>3 DEF no
  <2>7. HasFields(w) /\ w.disk = d.v.disk /\ w.sect = NoSector /\ w.dirty = FALSE /\ IsTrace(w.fault)
    BY <2>2, <2>3, <2>6 DEF HasFields, Holds, SameButDisk
  <2>8. Volume(w, T)  BY <2>1, <2>4, <2>7 DEF Volume
  <2>9. \A s \in FirstCopy \cup T : Seen(w, s) = Holding(F, X, s)
    BY <1>3, <2>1, <2>4, <2>5, <2>7 DEF Seen, DiskHolds
  <2>10. Shows(w, T, F, X)  BY <1>3, <2>8, <2>9 DEF Shows
  <2> QED  BY <1>1, <1>4, <1>6, <2>7, <2>10 DEF Ok, Goes
<1> QED  BY <1>5, <1>6

\* A sector of a file is written past the window.
LEMMA DataWritten ==
  ASSUME NEW v, NEW T, NEW F, NEW X, Shows(v, T, F, X), NEW s \in DataSectors, s \notin T, NEW x,
         NEW r, r = DiskWrite(v, s, x)
  PROVE  Goes(r) /\ Shows(r.v, T, F, X) /\ r = Ok(r.v)
<1>1. HasFields(v) /\ IsTrace(v.fault) /\ s \in ImageSectors /\ s \notin FirstCopy
      /\ FirstCopy \cup T \subseteq ImageSectors
  BY SectorsApart DEF Shows, Volume, MayBeTables
<1>2. /\ Goes(r) /\ Holds(v, r.v) /\ r.v.win = v.win /\ IsTrace(r.v.fault)
      /\ WrittenTo(v.disk, s, x, r.v.disk) /\ r = Ok(r.v)
  BY <1>1, WritesTraced
<1>3. /\ r.v.disk = [t \in ImageSectors |-> r.v.disk[t]]
      /\ \A t \in FirstCopy \cup T : r.v.disk[t] = v.disk[t]
  BY <1>1, <1>2 DEF WrittenTo, Shows, Volume
<1>4. Volume(r.v, T)
  BY <1>2, <1>3 DEF Shows, Volume, Holds, SameButDisk
<1>5. \A t \in FirstCopy \cup T : Seen(r.v, t) = Seen(v, t)
  BY <1>2, <1>3 DEF Seen, Holds, SameButDisk
<1> QED  BY <1>2, <1>4, <1>5 DEF Shows

----------------------------------------------------------------------------
(* File objects.                                                           *)

FpFields(fp) ==
  fp = [flag |-> fp.flag, fptr |-> fp.fptr, fsize |-> fp.fsize, sclust |-> fp.sclust, clust |-> fp.clust,
        dsect |-> fp.dsect, buf |-> fp.buf, dirSect |-> fp.dirSect, slot |-> fp.slot]

\* What a file object is after its flags are set.
LEMMA FpSet ==
  ASSUME NEW fp, FpFields(fp), NEW x
  PROVE  /\ \A f : f = [fp EXCEPT !.flag = x] => FpFields(f) /\ f =
             [flag |-> x, fptr |-> fp.fptr, fsize |-> fp.fsize, sclust |-> fp.sclust, clust |-> fp.clust,
              dsect |-> fp.dsect, buf |-> fp.buf, dirSect |-> fp.dirSect, slot |-> fp.slot]
         /\ \A f : f = [fp EXCEPT !.fptr = x] => FpFields(f) /\ f =
             [flag |-> fp.flag, fptr |-> x, fsize |-> fp.fsize, sclust |-> fp.sclust, clust |-> fp.clust,
              dsect |-> fp.dsect, buf |-> fp.buf, dirSect |-> fp.dirSect, slot |-> fp.slot]
         /\ \A f : f = [fp EXCEPT !.fsize = x] => FpFields(f) /\ f =
             [flag |-> fp.flag, fptr |-> fp.fptr, fsize |-> x, sclust |-> fp.sclust, clust |-> fp.clust,
              dsect |-> fp.dsect, buf |-> fp.buf, dirSect |-> fp.dirSect, slot |-> fp.slot]
         /\ \A f : f = [fp EXCEPT !.sclust = x] => FpFields(f) /\ f =
             [flag |-> fp.flag, fptr |-> fp.fptr, fsize |-> fp.fsize, sclust |-> x, clust |-> fp.clust,
              dsect |-> fp.dsect, buf |-> fp.buf, dirSect |-> fp.dirSect, slot |-> fp.slot]
         /\ \A f : f = [fp EXCEPT !.clust = x] => FpFields(f) /\ f =
             [flag |-> fp.flag, fptr |-> fp.fptr, fsize |-> fp.fsize, sclust |-> fp.sclust, clust |-> x,
              dsect |-> fp.dsect, buf |-> fp.buf, dirSect |-> fp.dirSect, slot |-> fp.slot]
         /\ \A f : f = [fp EXCEPT !.dsect = x] => FpFields(f) /\ f =
             [flag |-> fp.flag, fptr |-> fp.fptr, fsize |-> fp.fsize, sclust |-> fp.sclust, clust |-> fp.clust,
              dsect |-> x, buf |-> fp.buf, dirSect |-> fp.dirSect, slot |-> fp.slot]
         /\ \A f : f = [fp EXCEPT !.buf = x] => FpFields(f) /\ f =
             [flag |-> fp.flag, fptr |-> fp.fptr, fsize |-> fp.fsize, sclust |-> fp.sclust, clust |-> fp.clust,
              dsect |-> fp.dsect, buf |-> x, dirSect |-> fp.dirSect, slot |-> fp.slot]
BY DEF FpFields

\* What a step on a file leaves that goes through.
FileStep(r) == Goes(r) /\ r = [v |-> r.v, fp |-> r.fp, res |-> "FR_OK", did |-> r.did]

SectorIn(s, e) == \E i \in 1..Len(e) : s = DataSector(e[i])
Buffered(fp, e) == "FA__DIRTY" \in fp.flag => SectorIn(fp.dsect, e)

\* f is fp but for the flag DIRTY.
SameButDirty(fp, f) ==
  /\ FpFields(f) /\ f.fptr = fp.fptr /\ f.fsize = fp.fsize /\ f.sclust = fp.sclust /\ f.clust = fp.clust
  /\ f.dsect = fp.dsect /\ f.buf = fp.buf /\ f.dirSect = fp.dirSect /\ f.slot = fp.slot
  /\ f.flag \ {"FA__DIRTY"} = fp.flag \ {"FA__DIRTY"}

\* The sector buffer of a file is written to a cluster that holds no table.
LEMMA BufferWritten ==
  ASSUME NEW v, NEW T, NEW F, NEW X, Shows(v, T, F, X), NEW fp, FpFields(fp),
         "FA__DIRTY" \in fp.flag => fp.dsect \in DataSectors /\ fp.dsect \notin T,
         NEW r, r = WriteBack(v, fp)
  PROVE  FileStep(r) /\ Shows(r.v, T, F, X) /\ SameButDirty(fp, r.fp) /\ "FA__DIRTY" \notin r.fp.flag
<1>1. CASE "FA__DIRTY" \notin fp.flag
  <2>1. r = File(Ok(v), fp, 0)  BY <1>1 DEF WriteBack
  <2> QED  BY <1>1, <2>1 DEF File, Ok, FileStep, Goes, SameButDirty
<1>2. CASE "FA__DIRTY" \in fp.flag
  <2> DEFINE d == DiskWrite(v, fp.dsect, fp.buf)
             f == [fp EXCEPT !.flag = @ \ {"FA__DIRTY"}]
  <2>0. d = DiskWrite(v, fp.dsect, fp.buf) /\ f = [fp EXCEPT !.flag = fp.flag \ {"FA__DIRTY"}]
    OBVIOUS
  <2>1. r = ThenFile(File(d, fp, 0), LAMBDA w, g : File(Ok(w), [g EXCEPT !.flag = @ \ {"FA__DIRTY"}], 0))
    BY <1>2 DEF WriteBack
  <2> HIDE DEF d
  <2>2. Goes(d) /\ Shows(d.v, T, F, X) /\ d = Ok(d.v)  BY <1>2, <2>0, DataWritten
  <2>3. r = File(Ok(d.v), f, 0)  BY <2>1, <2>2 DEF ThenFile, File, Goes
  <2> HIDE DEF f
  <2>4. f = [flag |-> fp.flag \ {"FA__DIRTY"}, fptr |-> fp.fptr, fsize |-> fp.fsize, sclust |-> fp.sclust, clust |-> fp.clust,
              dsect |-> fp.dsect, buf |-> fp.buf, dirSect |-> fp.dirSect, slot |-> fp.slot] /\ FpFields(f)
    BY <2>0, FpSet
  <2>5. SameButDirty(fp, f) /\ "FA__DIRTY" \notin f.flag  BY <2>4 DEF SameButDirty
  <2> QED  BY <2>2, <2>3, <2>5 DEF File, Ok, FileStep, Goes
<1> QED  BY <1>1, <1>2

\* A sector is read into the buffer.
SameButBuf(fp, f) ==
  /\ FpFields(f) /\ f.fptr = fp.fptr /\ f.fsize = fp.fsize /\ f.sclust = fp.sclust /\ f.clust = fp.clust
  /\ f.dsect = fp.dsect /\ f.dirSect = fp.dirSect /\ f.slot = fp.slot /\ f.flag = fp.flag

\* The sector buffer of a file is filled.
LEMMA BufferFilled ==
  ASSUME NEW v, NEW T, NEW F, NEW X, Shows(v, T, F, X), NEW fp, FpFields(fp), NEW s,
         NEW r, r = Fill(v, fp, s)
  PROVE  FileStep(r) /\ Shows(r.v, T, F, X) /\ SameButBuf(fp, r.fp)
<1> DEFINE d == DiskRead(v, s)
           w == [d.v EXCEPT !.win = v.win]
           x == AsUnits(d.v.win)
           f == [fp EXCEPT !.buf = x]
           q == [d EXCEPT !.v.win = v.win]
<1>0. d = DiskRead(v, s) /\ (WindowIs(d.v, d.v.sect, v.win, w) \/ ~HasFields(d.v))
  <2>1. HasFields(d.v) => w = [d.v EXCEPT !.sect = d.v.sect, !.win = v.win]
    BY DEF HasFields
  <2> QED  BY <2>1 DEF WindowIs
<1>1. r = File(q, IF d.res = "FR_OK" THEN f ELSE fp, 0)
  BY DEF Fill
<1>2. d = DiskRead(v, s)  OBVIOUS
<1> HIDE DEF d
<1>3. /\ Goes(d) /\ d = Ok(d.v) /\ Holds(v, d.v) /\ d.v.disk = v.disk /\ d.v.fault = v.fault
  BY <1>2, ReadsTraced DEF Shows, Volume
<1>4. q = Ok(w)
  <2>1. d = [v |-> d.v, res |-> "FR_OK"]  BY <1>3 DEF Ok
  <2>2. q = [v |-> w, res |-> "FR_OK"]  BY <2>1
  <2> QED  BY <2>2 DEF Ok
<1>5. WindowIs(d.v, d.v.sect, v.win, w)  BY <1>0, <1>3 DEF Holds
<1> HIDE DEF w, q
<1>6. HasFields(w) /\ w.disk = v.disk /\ w.win = v.win /\ w.sect = v.sect /\ w.dirty = v.dirty /\ w.fault = v.fault
  BY <1>3, <1>5, WindowReplaced DEF Holds, SameButDisk
<1>7. Shows(w, T, F, X)  BY <1>6, CountsAside
<1> HIDE DEF x
<1>8. SameButBuf(fp, f)
  <2>1. \A g : g = f => FpFields(g) /\ g =
             [flag |-> fp.flag, fptr |-> fp.fptr, fsize |-> fp.fsize, sclust |-> fp.sclust, clust |-> fp.clust,
              dsect |-> fp.dsect, buf |-> x, dirSect |-> fp.dirSect, slot |-> fp.slot]
    BY FpSet
  <2> HIDE DEF f
  <2> QED  BY <2>1 DEF SameButBuf
<1>9. r = File(Ok(w), f, 0)  BY <1>1, <1>3, <1>4 DEF Goes
<1> HIDE DEF f
<1> QED  BY <1>7, <1>8, <1>9 DEF File, Ok, FileStep, Goes

----------------------------------------------------------------------------
(* Sizes, in units and in sectors.                                         *)

\* Division with remainder.
LEMMA Divided ==
  ASSUME NEW U \in Nat, U > 1, NEW a \in Int
  PROVE  a = (a \div U) * U + (a % U) /\ a % U \in 0..(U - 1) /\ a \div U \in Int
<1>1. a = U * (a \div U) + (a % U)  OBVIOUS
<1>2. a % U \in 0..(U - 1)  OBVIOUS
<1>3. a \div U \in Int  OBVIOUS
<1>4. U * (a \div U) = (a \div U) * U  BY <1>3
<1> QED  BY <1>1, <1>2, <1>3, <1>4

\* The quotient and the remainder are unique.
LEMMA DividedSo ==
  ASSUME NEW U \in Nat, U > 1, NEW q \in Int, NEW r \in 0..(U - 1), NEW a, a = q * U + r
  PROVE  a \div U = q /\ a % U = r
<1>1. a \in Int /\ q * U \in Int  OBVIOUS
<1> DEFINE p == a \div U
           s == a % U
<1>2. a = p * U + s /\ s \in 0..(U - 1) /\ p \in Int  BY <1>1, Divided
<1> HIDE DEF p, s
<1> DEFINE d == p - q
<1>3. d \in Int /\ d * U = r - s  BY <1>2
<1> HIDE DEF d
<1>4. d < 1
  <2> SUFFICES ASSUME d >= 1 PROVE FALSE  BY <1>3
  <2>1. d * U >= U  BY <1>3
  <2> QED  BY <1>2, <1>3, <2>1
<1>5. d > -1
  <2> SUFFICES ASSUME d <= -1 PROVE FALSE  BY <1>3
  <2>1. d * U <= -U  BY <1>3
  <2> QED  BY <1>2, <1>3, <2>1
<1>6. p = q  BY <1>2, <1>3, <1>4, <1>5 DEF d
<1>7. s = r  BY <1>2, <1>6
<1> QED  BY <1>6, <1>7 DEF p, s

\* A number of units that ends in sector k + 1.
LEMMA EndsIn ==
  ASSUME NEW k \in Int, NEW n \in 1..UnitsPerSector, NEW x, x = k * UnitsPerSector + n
  PROVE  SectorsFor(x) = k + 1 /\ ClusterOf(x) = k
         /\ x % UnitsPerSector = IF n = UnitsPerSector THEN 0 ELSE n
<1> DEFINE U == UnitsPerSector
<1>0. U \in Nat /\ U > 1 /\ k * U \in Int  BY UnitAssumption
<1> USE DEF SectorsFor, ClusterOf
<1>1. (x - 1) \div U = k
  <2>1. x - 1 = k * U + (n - 1) /\ n - 1 \in 0..(U - 1)  BY <1>0
  <2> HIDE DEF U
  <2> QED  BY <1>0, <2>1, DividedSo
<1>2. (x + U - 1) \div U = k + 1
  <2>1. x + U - 1 = (k + 1) * U + (n - 1) /\ n - 1 \in 0..(U - 1)  BY <1>0
  <2> DEFINE y == x + U - 1
             q == k + 1
             r == n - 1
  <2>2. q \in Int /\ y = q * U + r /\ r \in 0..(U - 1)  BY <2>1
  <2> HIDE DEF U, y, q, r
  <2>3. y \div U = q  BY <1>0, <2>2, DividedSo
  <2> QED  BY <2>3 DEF y, q
<1>3. x % U = IF n = U THEN 0 ELSE n
  <2>1. CASE n = U
    <3>1. x = (k + 1) * U + 0 /\ 0 \in 0..(U - 1)  BY <1>0, <2>1
    <3>2. k + 1 \in Int  OBVIOUS
    <3> HIDE DEF U
    <3>3. x % U = 0  BY <1>0, <3>1, <3>2, DividedSo
    <3> QED  BY <2>1, <3>3
  <2>2. CASE n # U
    <3>1. x = k * U + n /\ n \in 0..(U - 1)  BY <1>0, <2>2
    <3> HIDE DEF U
    <3> QED  BY <1>0, <2>2, <3>1, DividedSo
  <2> QED  BY <2>1, <2>2
<1> QED  BY <1>1, <1>2, <1>3

\* Every number of units but 0 ends in a sector.
LEMMA EndsSomewhere ==
  ASSUME NEW x \in Nat, x > 0
  PROVE  /\ \E n \in 1..UnitsPerSector : x = ClusterOf(x) * UnitsPerSector + n
         /\ ClusterOf(x) \in Nat /\ SectorsFor(x) = ClusterOf(x) + 1
<1> DEFINE U == UnitsPerSector
           k == (x - 1) \div U
           m == (x - 1) % U
<1>0. U \in Nat /\ U > 1 /\ x - 1 \in Int  BY UnitAssumption
<1>1. x - 1 = k * U + m /\ m \in 0..(U - 1) /\ k \in Int
  <2> HIDE DEF U
  <2> QED  BY <1>0, Divided
<1>2. k >= 0
  <2> HIDE DEF U
  <2> HIDE DEF k, m
  <2> SUFFICES ASSUME k <= -1 PROVE FALSE  BY <1>1
  <2>1. k * U <= -U  BY <1>0, <1>1
  <2> QED  BY <1>0, <1>1, <2>1
<1>3. k = ClusterOf(x)  BY DEF ClusterOf
<1> HIDE DEF k, m
<1>4. m + 1 \in 1..U /\ x = k * U + (m + 1)  BY <1>0, <1>1
<1>5. SectorsFor(x) = k + 1  BY <1>1, <1>4, EndsIn
<1> QED  BY <1>1, <1>2, <1>3, <1>4, <1>5

\* An empty file needs no cluster.
LEMMA NoSectors == SectorsFor(0) = 0
<1> DEFINE U == UnitsPerSector
<1>0. U \in Nat /\ U > 1  BY UnitAssumption
<1>1. 0 + U - 1 = 0 * U + (U - 1) /\ U - 1 \in 0..(U - 1)  BY <1>0
<1>2. SectorsFor(0) = (0 + U - 1) \div U  BY DEF SectorsFor
<1> DEFINE y == 0 + U - 1
           q == 0
           r == U - 1
<1>3. y = q * U + r /\ r \in 0..(U - 1) /\ q \in Int /\ SectorsFor(0) = y \div U
  BY <1>0, <1>1, <1>2
<1> HIDE DEF U, y, q, r
<1>4. y \div U = q  BY <1>0, <1>3, DividedSo
<1> QED  BY <1>3, <1>4 DEF q

\* A longer file needs no fewer clusters.
LEMMA MoreSectors ==
  ASSUME NEW x \in Nat, NEW y \in Nat, x <= y
  PROVE  SectorsFor(x) \in Nat /\ SectorsFor(x) <= SectorsFor(y) /\ (SectorsFor(x) = 0 <=> x = 0)
<1> DEFINE U == UnitsPerSector
<1>0. U \in Nat /\ U > 1  BY UnitAssumption
<1>1. CASE x = 0
  <2>1. SectorsFor(x) = 0  BY <1>1, NoSectors
  <2>2. SectorsFor(y) >= 0  BY NoSectors, EndsSomewhere
  <2> QED  BY <1>1, <2>1, <2>2
<1>2. CASE x > 0
  <2> DEFINE k == ClusterOf(x)
             l == ClusterOf(y)
  <2>1. PICK n \in 1..U : x = k * U + n  BY <1>2, EndsSomewhere
  <2>2. PICK m \in 1..U : y = l * U + m  BY <1>2, EndsSomewhere
  <2>3. k \in Nat /\ l \in Nat /\ SectorsFor(x) = k + 1 /\ SectorsFor(y) = l + 1
    BY <1>2, EndsSomewhere
  <2> HIDE DEF k, l, U
  <2>4. k <= l
    <3> SUFFICES ASSUME l + 1 <= k PROVE FALSE  BY <2>3
    <3>1. (l + 1) * U <= k * U  BY <1>0, <2>3
    <3>2. (l + 1) * U = l * U + U  BY <1>0, <2>3
    <3>3. l * U \in Int /\ k * U \in Int  BY <1>0, <2>3
    <3> QED  BY <1>0, <2>1, <2>2, <3>1, <3>2, <3>3
  <2> QED  BY <1>2, <2>3, <2>4
<1> QED  BY <1>1, <1>2

\* At the start of a sector.
LEMMA FromBoundary ==
  ASSUME NEW x \in Nat, x % UnitsPerSector = 0, NEW n \in 1..UnitsPerSector
  PROVE  /\ x = SectorsFor(x) * UnitsPerSector /\ SectorsFor(x) \in Nat
         /\ SectorsFor(x + n) = SectorsFor(x) + 1 /\ ClusterOf(x + n) = SectorsFor(x)
         /\ (x + n) % UnitsPerSector = IF n = UnitsPerSector THEN 0 ELSE n
<1> DEFINE U == UnitsPerSector
           q == x \div U
<1>0. U \in Nat /\ U > 1  BY UnitAssumption
<1>1. x = q * U + 0 /\ q \in Int
  <2> HIDE DEF U
  <2> QED  BY <1>0, Divided DEF U
<1> HIDE DEF q
<1>2. SectorsFor(x) = q
  <2>1. x = (q - 1) * U + U /\ U \in 1..U /\ q - 1 \in Int  BY <1>0, <1>1
  <2> QED  BY <2>1, <1>1, EndsIn
<1>3. SectorsFor(x) \in Nat  BY MoreSectors
<1>4. x + n = q * U + n  BY <1>0, <1>1
<1> HIDE DEF U
<1>5. \A y : y = q * UnitsPerSector + n =>
        SectorsFor(y) = q + 1 /\ ClusterOf(y) = q /\ y % UnitsPerSector = IF n = UnitsPerSector THEN 0 ELSE n
  BY <1>1, EndsIn
<1>6. x = q * UnitsPerSector  BY <1>0, <1>1 DEF U
<1> QED  BY <1>2, <1>3, <1>4, <1>5, <1>6 DEF U

\* In the middle of one.
LEMMA FromMiddle ==
  ASSUME NEW x \in Nat, x % UnitsPerSector # 0, NEW n \in 1..(UnitsPerSector - (x % UnitsPerSector))
  PROVE  /\ x > 0 /\ SectorsFor(x + n) = SectorsFor(x) /\ ClusterOf(x + n) = ClusterOf(x)
<1> DEFINE U == UnitsPerSector
           q == x \div U
           m == x % U
<1>0. U \in Nat /\ U > 1  BY UnitAssumption
<1>1. x = q * U + m /\ q \in Int /\ m \in 0..(U - 1)
  <2> HIDE DEF U
  <2> QED  BY <1>0, Divided DEF U
<1>2. m # 0  OBVIOUS
<1>3. n \in 1..(U - m)  OBVIOUS
<1> HIDE DEF q, m
<1>4. SectorsFor(x) = q + 1 /\ ClusterOf(x) = q
  <2>1. m \in 1..UnitsPerSector /\ x = q * UnitsPerSector + m  BY <1>0, <1>1, <1>2
  <2> HIDE DEF U
  <2> QED  BY <1>1, <2>1, EndsIn
<1>5. x + n = q * U + (m + n) /\ m + n \in 1..U  BY <1>0, <1>1, <1>2, <1>3
<1>6. SectorsFor(x + n) = q + 1 /\ ClusterOf(x + n) = q
  BY <1>1, <1>5, EndsIn
<1>7. x > 0
  <2>1. CASE x = 0
    <3>1. SectorsFor(x) = 0  BY <2>1, NoSectors
    <3>2. q = -1  BY <1>1, <1>4, <3>1
    <3> QED  BY <1>0, <1>1, <2>1, <3>2
  <2> QED  BY <2>1
<1> QED  BY <1>4, <1>6, <1>7

----------------------------------------------------------------------------
(* Chains that grow and shrink beside others.                              *)

Cells(e) == {e[i] : i \in 1..Len(e)}
Chained(F, e) == e = <<>> \/ Path(F, e)
HeadOf(e) == IF e = <<>> THEN 0 ELSE e[1]
LastOf(e) == IF e = <<>> THEN 0 ELSE e[Len(e)]

\* From F to G the chain e has become d, and no cluster has changed that was taken by others.
Beside(F, e, G, d) ==
  \A c \in Clusters : F[c] # 0 /\ c \notin Cells(e) => G[c] = F[c] /\ c \notin Cells(d)

\* The tables are not in the chain e.
Off(T, F, e) == \A c \in Clusters : DataSector(c) \in T => F[c] # 0 /\ c \notin Cells(e)

FatFull(F) == \A c \in Clusters : F[c] # 0

\* A FAT that changed nowhere.
LEMMA BesideSame ==
  ASSUME NEW F, NEW e PROVE Beside(F, e, F, e)
BY DEF Beside

\* Two changes of one chain after each other are a change of that chain.
LEMMA BesideOn ==
  ASSUME NEW F, NEW e, NEW G, NEW d, NEW H, NEW b, Beside(F, e, G, d), Beside(G, d, H, b)
  PROVE  Beside(F, e, H, b)
BY DEF Beside

\* The chain of a file stays away from the sectors of the tables.
LEMMA OffAfter ==
  ASSUME NEW T, NEW F, NEW e, Off(T, F, e), NEW G, NEW d, Beside(F, e, G, d)
  PROVE  Off(T, G, d)
BY DEF Off, Beside

\* What a chain of the FAT is.
LEMMA ChainKind ==
  ASSUME NEW F, NEW e, Chained(F, e)
  PROVE  /\ e \in Seq(Clusters) /\ Len(e) \in Nat /\ (e = <<>> <=> Len(e) = 0) /\ Cells(e) \subseteq Clusters
         /\ \A i \in 1..Len(e) : e[i] \in Clusters /\ e[i] \in Cells(e) /\ F[e[i]] # 0
         /\ \A i, j \in 1..Len(e) : e[i] = e[j] => i = j
         /\ \A i \in 1..Len(e) : F[e[i]] = IF i < Len(e) THEN e[i + 1] ELSE LastLink
         /\ Len(e) > 0 => HeadOf(e) = e[1] /\ LastOf(e) = e[Len(e)] /\ e[1] \in Clusters /\ e[Len(e)] \in Clusters
         /\ Len(e) = 0 => HeadOf(e) = 0 /\ LastOf(e) = 0
<1>1. e \in Seq(Clusters)
  <2>1. <<>> \in Seq(Clusters)  OBVIOUS
  <2> QED  BY <2>1 DEF Chained, Path
<1>2. Len(e) \in Nat /\ (e = <<>> <=> Len(e) = 0) /\ \A i \in 1..Len(e) : e[i] \in Clusters
  BY <1>1
<1>3. Cells(e) \subseteq Clusters /\ \A i \in 1..Len(e) : e[i] \in Cells(e)
  BY <1>2 DEF Cells
<1>4. \A i, j \in 1..Len(e) : e[i] = e[j] => i = j
  BY <1>2 DEF Chained, Path
<1>5. \A i \in 1..Len(e) : F[e[i]] = IF i < Len(e) THEN e[i + 1] ELSE LastLink
  BY <1>2 DEF Chained, Path
<1>6. ASSUME NEW i \in 1..Len(e) PROVE F[e[i]] # 0
  <2>1. i < Len(e) => i + 1 \in 1..Len(e)  BY <1>2
  <2> QED  BY <1>2, <1>5, <2>1, Numbers
<1>7. /\ Len(e) > 0 => HeadOf(e) = e[1] /\ LastOf(e) = e[Len(e)] /\ e[1] \in Clusters /\ e[Len(e)] \in Clusters
      /\ Len(e) = 0 => HeadOf(e) = 0 /\ LastOf(e) = 0
  BY <1>2 DEF HeadOf, LastOf
<1> QED  BY <1>1, <1>2, <1>3, <1>4, <1>5, <1>6, <1>7

\* A chain that shares no cluster with the one that changed is still there.
LEMMA PathBeside ==
  ASSUME NEW F, NEW x, Path(F, x), NEW e, Cells(x) \cap Cells(e) = {}, NEW G, NEW d, Beside(F, e, G, d)
  PROVE  Path(G, x) /\ Cells(x) \cap Cells(d) = {}
<1>1. Chained(F, x)  BY DEF Chained
<1>2. \A i \in 1..Len(x) : x[i] \in Clusters /\ F[x[i]] # 0 /\ x[i] \in Cells(x)
  BY <1>1, ChainKind
<1>3. \A i \in 1..Len(x) : G[x[i]] = F[x[i]] /\ x[i] \notin Cells(d)
  BY <1>2 DEF Beside
<1>4. Path(G, x)  BY <1>3 DEF Path
<1>5. Cells(x) \cap Cells(d) = {}
  BY <1>3 DEF Cells
<1> QED  BY <1>4, <1>5

\* The chain e has grown by the cluster n.
GrownBy(F, e, n, G, d) ==
  /\ Path(G, d) /\ Beside(F, e, G, d) /\ G \in Fats /\ Len(d) = Len(e) + 1 /\ d[Len(d)] = n
  /\ \A i \in 1..Len(e) : d[i] = e[i]
  /\ HeadOf(d) = IF e = <<>> THEN n ELSE e[1]

\* A free cluster linked behind a chain makes a longer chain.
LEMMA GrownPath ==
  ASSUME NEW F \in Fats, NEW e, Chained(F, e), NEW n \in Clusters, F[n] = 0,
         NEW G, G = Linked(F, LastOf(e), n), NEW d, d = Append(e, n)
  PROVE  GrownBy(F, e, n, G, d)
<1> DEFINE L == Len(e)
           l == LastOf(e)
<1>1. /\ e \in Seq(Clusters) /\ L \in Nat /\ (e = <<>> <=> L = 0)
      /\ \A i \in 1..L : e[i] \in Clusters /\ F[e[i]] # 0
      /\ \A i, j \in 1..L : e[i] = e[j] => i = j
      /\ \A i \in 1..L : F[e[i]] = IF i < L THEN e[i + 1] ELSE LastLink
      /\ L > 0 => l = e[L]
      /\ L = 0 => l = 0
  BY ChainKind
<1>2. d \in Seq(Clusters) /\ Len(d) = L + 1 /\ d[L + 1] = n /\ \A i \in 1..L : d[i] = e[i]
  BY <1>1
<1> HIDE DEF L, l
<1>3. /\ n \in FatEntries /\ Clusters \subseteq FatEntries /\ n \in Link /\ LastLink \in Link /\ 0 \notin Clusters
      /\ \A c \in FatEntries : F[c] \in Link
  BY Numbers DEF Fats
<1>4. \A c \in FatEntries : G[c] = IF c = n THEN LastLink ELSE IF c = l /\ c # 0 THEN n ELSE F[c]
  BY DEF Linked, l
<1>5. G \in Fats
  <2>1. G = [c \in FatEntries |-> G[c]]  BY DEF Linked
  <2>2. \A c \in FatEntries : G[c] \in Link  BY <1>3, <1>4
  <2> QED  BY <2>1, <2>2 DEF Fats
<1>6. \A i, j \in 1..(L + 1) : d[i] = d[j] => i = j
  <2>1. \A i \in 1..L : e[i] # n  BY <1>1
  <2>2. \A i : i \in 1..(L + 1) <=> i \in 1..L \/ i = L + 1  BY <1>1
  <2> QED  BY <1>1, <1>2, <2>1, <2>2
<1>7. ASSUME NEW i \in 1..(L + 1) PROVE G[d[i]] = IF i < L + 1 THEN d[i + 1] ELSE LastLink
  <2>1. CASE i = L + 1
    BY <1>1, <1>2, <1>3, <1>4, <2>1
  <2>2. CASE i = L /\ i # L + 1
    <3>1. L > 0 /\ l = e[L] /\ d[i] = l /\ l \in Clusters /\ l # n /\ l # 0 /\ i < L + 1 /\ d[i + 1] = n
      BY <1>1, <1>2, <1>3, <2>2
    <3> QED  BY <1>3, <1>4, <3>1
  <2>3. CASE i \in 1..(L - 1)
    <3>1. i \in 1..L /\ i + 1 \in 1..L /\ i < L /\ L > 0 /\ i < L + 1 /\ L \in 1..L
      BY <1>1, <2>3
    <3>2. e[i] # n /\ e[i] # l /\ d[i] = e[i] /\ d[i + 1] = e[i + 1] /\ F[e[i]] = e[i + 1]
      BY <1>1, <1>2, <3>1
    <3> QED  BY <1>1, <1>3, <1>4, <3>1, <3>2
  <2>4. i = L + 1 \/ (i = L /\ i # L + 1) \/ i \in 1..(L - 1)  BY <1>1
  <2> QED  BY <2>1, <2>2, <2>3, <2>4
<1>8. Path(G, d)  BY <1>1, <1>2, <1>6, <1>7 DEF Path
<1>9. Beside(F, e, G, d)
  <2> SUFFICES ASSUME NEW c \in Clusters, F[c] # 0, c \notin Cells(e)
               PROVE  G[c] = F[c] /\ c \notin Cells(d)
    BY DEF Beside
  <2>1. c # n /\ \A i \in 1..L : c # e[i]  BY DEF Cells, L
  <2>2. c # l  BY <1>1, <1>3, <2>1
  <2>3. \A i \in 1..(L + 1) : d[i] # c
    <3>1. \A i \in 1..(L + 1) : i \in 1..L \/ i = L + 1  BY <1>1
    <3> QED  BY <1>2, <2>1, <3>1
  <2>4. c \notin Cells(d)  BY <1>2, <2>3 DEF Cells
  <2> QED  BY <1>3, <1>4, <2>1, <2>2, <2>4
<1>10. HeadOf(d) = IF e = <<>> THEN n ELSE e[1]
  <2>1. d # <<>>  BY <1>1, <1>2
  <2>2. L = 0 => d[1] = n  BY <1>2
  <2>3. L > 0 => d[1] = e[1]  BY <1>1, <1>2
  <2> QED  BY <1>1, <2>1, <2>2, <2>3 DEF HeadOf
<1> QED  BY <1>2, <1>5, <1>8, <1>9, <1>10 DEF L, GrownBy

\* The chain whose clusters are all freed is gone.
LEMMA FreedPath ==
  ASSUME NEW F \in Fats, NEW e, Path(F, e), NEW G, G = Zeroed(F, Firsts(e, Len(e)))
  PROVE  Beside(F, e, G, <<>>) /\ G \in Fats /\ \A c \in Clusters : c \in Cells(e) => G[c] = 0
<1>1. Firsts(e, Len(e)) = Cells(e)  BY DEF Firsts, Cells
<1>2. Clusters \subseteq FatEntries /\ 0 \in Link  BY Numbers
<1>3. \A c \in Clusters : G[c] = IF c \in Cells(e) THEN 0 ELSE F[c]
  BY <1>1, <1>2 DEF Zeroed
<1>4. Cells(<<>>) = {}  BY DEF Cells
<1>5. G \in Fats  BY <1>2 DEF Zeroed, Fats
<1> QED  BY <1>3, <1>4, <1>5 DEF Beside

\* A chain is cut behind its cluster k: first its front ends there, then the rest is freed.
Front(e, k) == SubSeq(e, 1, k)
Rest(e, k) == SubSeq(e, k + 1, Len(e))

\* A chain cut at its k-th cluster ends there, and the rest of it is free.
LEMMA CutPath ==
  ASSUME NEW F \in Fats, NEW e, Path(F, e), NEW k \in 1..(Len(e) - 1),
         NEW P, P = Put(F, e[k], LastLink), NEW G, G = Zeroed(P, Firsts(Rest(e, k), Len(Rest(e, k))))
  PROVE  /\ Path(P, Rest(e, k)) /\ Rest(e, k)[1] = e[k + 1] /\ F[e[k]] = e[k + 1]
         /\ Path(G, Front(e, k)) /\ Beside(F, e, G, Front(e, k)) /\ Len(Front(e, k)) = k
         /\ \A i \in 1..k : Front(e, k)[i] = e[i]
<1> DEFINE L == Len(e)
           R == Rest(e, k)
           E == Front(e, k)
<1>0. Chained(F, e)  BY DEF Chained
<1>1. /\ e \in Seq(Clusters) /\ L \in Nat /\ \A i \in 1..L : e[i] \in Clusters /\ F[e[i]] # 0
      /\ \A i, j \in 1..L : e[i] = e[j] => i = j
      /\ \A i \in 1..L : F[e[i]] = IF i < L THEN e[i + 1] ELSE LastLink
  BY <1>0, ChainKind
<1>2. k \in 1..L /\ k + 1 \in 1..L /\ k < L /\ k \in Nat  BY <1>1
<1>3. R \in Seq(Clusters) /\ Len(R) = L - k /\ \A i \in 1..(L - k) : R[i] = e[k + i]
  BY <1>1, <1>2 DEF Rest
<1>4. E \in Seq(Clusters) /\ Len(E) = k /\ \A i \in 1..k : E[i] = e[i]
  BY <1>1, <1>2 DEF Front
<1>5. /\ Clusters \subseteq FatEntries /\ LastLink \in Link /\ 0 \in Link /\ F = [c \in FatEntries |-> F[c]]
      /\ \A c \in FatEntries : F[c] \in Link
  BY Numbers DEF Fats
<1>6. \A c \in FatEntries : P[c] = IF c = e[k] THEN LastLink ELSE F[c]
  BY <1>5 DEF Put
<1> HIDE DEF L, R, E
<1>7. \A i \in 1..(L - k) : k + i \in 1..L /\ k + i # k  BY <1>1, <1>2
<1>8. Path(P, R)
  <2>1. \A i, j \in 1..(L - k) : R[i] = R[j] => i = j
    BY <1>1, <1>2, <1>3, <1>7
  <2>2. ASSUME NEW i \in 1..(L - k) PROVE P[R[i]] = IF i < L - k THEN R[i + 1] ELSE LastLink
    <3>1. R[i] = e[k + i] /\ k + i \in 1..L /\ e[k + i] # e[k] /\ e[k + i] \in FatEntries
      BY <1>1, <1>2, <1>3, <1>5, <1>7
    <3>2. P[R[i]] = F[e[k + i]]  BY <1>6, <3>1
    <3>3. k + i < L <=> i < L - k  BY <1>1, <1>2
    <3>4. i < L - k => R[i + 1] = e[(k + i) + 1]
      <4>1. i < L - k => i + 1 \in 1..(L - k) /\ k + (i + 1) = (k + i) + 1  BY <1>1, <1>2
      <4> QED  BY <1>3, <4>1
    <3> QED  BY <1>1, <3>1, <3>2, <3>3, <3>4
  <2> QED  BY <1>1, <1>2, <1>3, <2>1, <2>2 DEF Path
<1>9. R[1] = e[k + 1] /\ F[e[k]] = e[k + 1]
  <2>1. 1 \in 1..(L - k)  BY <1>1, <1>2
  <2> QED  BY <1>1, <1>2, <1>3, <2>1
<1>10. Firsts(R, Len(R)) = {e[k + i] : i \in 1..(L - k)}
  BY <1>3 DEF Firsts
<1>11. \A c \in FatEntries : G[c] = IF c \in Firsts(R, Len(R)) THEN 0 ELSE P[c]
  BY DEF Zeroed, R
<1>12. \A i \in 1..k : e[i] \notin Firsts(R, Len(R)) /\ i \in 1..L /\ e[i] \in FatEntries
  <2>1. \A i \in 1..k : i \in 1..L /\ \A j \in 1..(L - k) : k + j # i  BY <1>1, <1>2
  <2> QED  BY <1>1, <1>5, <1>7, <1>10, <2>1
<1>13. Path(G, E)
  <2>1. \A i, j \in 1..k : E[i] = E[j] => i = j
    <3> SUFFICES ASSUME NEW i \in 1..k, NEW j \in 1..k, E[i] = E[j] PROVE i = j
      OBVIOUS
    <3>1. i \in 1..L /\ j \in 1..L  BY <1>12
    <3>2. e[i] = e[j]  BY <1>4
    <3> QED  BY <1>1, <3>1, <3>2
  <2>2. ASSUME NEW i \in 1..k PROVE G[E[i]] = IF i < k THEN E[i + 1] ELSE LastLink
    <3>1. E[i] = e[i] /\ i \in 1..L /\ G[E[i]] = P[e[i]]  BY <1>4, <1>11, <1>12
    <3>2. CASE i = k
      BY <1>6, <1>12, <3>1, <3>2
    <3>3. CASE i < k
      <4>1. i + 1 \in 1..k /\ i < L  BY <1>1, <1>2, <3>3
      <4>2. e[i] # e[k]  BY <1>1, <1>2, <3>1, <3>3
      <4> QED  BY <1>1, <1>4, <1>6, <1>12, <3>1, <3>3, <4>1, <4>2
    <3> QED  BY <1>2, <3>2, <3>3
  <2> QED  BY <1>2, <1>4, <2>1, <2>2 DEF Path
<1>14. Beside(F, e, G, E)
  <2> SUFFICES ASSUME NEW c \in Clusters, F[c] # 0, c \notin Cells(e)
               PROVE  G[c] = F[c] /\ c \notin Cells(E)
    BY DEF Beside
  <2>1. \A i \in 1..L : c # e[i]  BY DEF Cells, L
  <2>2. c # e[k] /\ c \notin Firsts(R, Len(R))  BY <1>2, <1>7, <1>10, <2>1
  <2>3. c \notin Cells(E)  BY <1>4, <1>12, <2>1 DEF Cells
  <2> QED  BY <1>5, <1>6, <1>11, <2>2, <2>3
<1> QED  BY <1>4, <1>8, <1>9, <1>13, <1>14 DEF R, E

----------------------------------------------------------------------------
(* Loops.                                                                  *)

\* The rounds of all of them.
RoundOf(loop, l, p) ==
  CASE loop = "seek"   -> SeekRound(l)
    [] loop = "scan"   -> ScanRound(l, p)
    [] loop = "number" -> NumberRound(l)
    [] loop = "lots"   -> NumberRounds(l)
    [] loop = "walk"   -> WalkRound(l)
    [] loop = "read"   -> ReadRound(l)
    [] loop = "write"  -> WriteRound(l, p)
    [] loop = "move"   -> MoveRound(l)
    [] loop = "chain"  -> ChainRound(p, l)

RoundsAre(loop, p, start, N, f) ==
  f = [n \in 0..N |-> IF n = 0 THEN start ELSE RoundOf(loop, f[n - 1], p)]

\* The rounds of a bounded loop, as a function of their number.
LEMMA RoundsExist ==
  ASSUME NEW loop, NEW p, NEW start, NEW N \in Nat
  PROVE  \E f : RoundsAre(loop, p, start, N, f)
<1> DEFINE Rounds(f, m) == f = [n \in 0..m |-> IF n = 0 THEN start ELSE RoundOf(loop, f[n - 1], p)]
           S == {m \in Nat : \E f : Rounds(f, m)}
<1>1. 0 \in S
  <2>1. Rounds([n \in 0..0 |-> start], 0)  OBVIOUS
  <2> QED  BY <2>1
<1>2. ASSUME NEW m \in Nat, m \in S PROVE m + 1 \in S
  <2>1. PICK g : Rounds(g, m)  BY <1>2
  <2> DEFINE f == [n \in 0..(m + 1) |-> IF n = m + 1 THEN RoundOf(loop, g[m], p) ELSE g[n]]
  <2>2. \A n \in 0..m : g[n] = IF n = 0 THEN start ELSE RoundOf(loop, g[n - 1], p)
    BY <2>1
  <2>3. ASSUME NEW n \in 0..(m + 1)
        PROVE  f[n] = IF n = 0 THEN start ELSE RoundOf(loop, f[n - 1], p)
    <3>1. CASE n = m + 1
      <4>1. f[n - 1] = g[m] /\ n # 0  BY <3>1
      <4> QED  BY <3>1, <4>1
    <3>2. CASE n \in 1..m
      <4>1. f[n] = g[n] /\ f[n - 1] = g[n - 1]  BY <3>2
      <4> QED  BY <2>2, <3>2, <4>1
    <3>3. CASE n = 0
      BY <2>2, <3>3
    <3> QED  BY <3>1, <3>2, <3>3
  <2>4. Rounds(f, m + 1)
    <3>1. f = [n \in 0..(m + 1) |-> f[n]]  OBVIOUS
    <3> HIDE DEF f
    <3> QED  BY <2>3, <3>1
  <2>5. m + 1 \in Nat  OBVIOUS
  <2> HIDE DEF f, Rounds
  <2> QED  BY <2>4, <2>5
<1> HIDE DEF S
<1>3. N \in S  BY <1>1, <1>2, Inductive
<1> QED  BY <1>3 DEF S, RoundsAre

SeekEnd(start, N) == Iterate(SeekRound, start, N)

\* The rounds of the walk along a chain in dir_sdi.
LEMMA SeekLoop ==
  ASSUME NEW start, NEW N \in Nat
  PROVE  \E f : /\ f[0] = start /\ \A n \in 1..N : f[n] = SeekRound(f[n - 1])
                /\ SeekEnd(start, N) = f[N]
<1> DEFINE after[n \in 0..N] == IF n = 0 THEN start ELSE SeekRound(after[n - 1])
           Rounds(f) == f = [n \in 0..N |-> IF n = 0 THEN start ELSE SeekRound(f[n - 1])]
<1>1. \E f : Rounds(f)
  <2>1. \A l : RoundOf("seek", l, start) = SeekRound(l)  BY DEF RoundOf
  <2>2. PICK f : RoundsAre("seek", start, start, N, f)
    BY RoundsExist
  <2>3. Rounds(f)  BY <2>1, <2>2 DEF RoundsAre
  <2> QED  BY <2>3
<1>2. after = CHOOSE f : Rounds(f)  BY Zenon
<1>3. SeekEnd(start, N) = after[N]  BY Zenon DEF Iterate, SeekEnd
<1> HIDE DEF after
<1>4. Rounds(after)
  <2> HIDE DEF Rounds
  <2> QED  BY <1>1, <1>2
<1>5. \A n \in 0..N : after[n] = IF n = 0 THEN start ELSE SeekRound(after[n - 1])
  BY <1>4
<1>6. 0 \in 0..N /\ \A n \in 1..N : n \in 0..N /\ n # 0  OBVIOUS
<1> QED  BY <1>3, <1>5, <1>6

ScanEnd(start, p, N) == Iterate(LAMBDA l : ScanRound(l, p), start, N)

\* The rounds of a walk through the entries of a table.
LEMMA ScanLoop ==
  ASSUME NEW start, NEW p, NEW N \in Nat
  PROVE  \E f : /\ f[0] = start /\ \A n \in 1..N : f[n] = ScanRound(f[n - 1], p)
                /\ ScanEnd(start, p, N) = f[N]
<1> DEFINE after[n \in 0..N] == IF n = 0 THEN start ELSE ScanRound(after[n - 1], p)
           Rounds(f) == f = [n \in 0..N |-> IF n = 0 THEN start ELSE ScanRound(f[n - 1], p)]
<1>1. \E f : Rounds(f)
  <2>1. \A l : RoundOf("scan", l, p) = ScanRound(l, p)  BY DEF RoundOf
  <2>2. PICK f : RoundsAre("scan", p, start, N, f)
    BY RoundsExist
  <2>3. Rounds(f)  BY <2>1, <2>2 DEF RoundsAre
  <2> QED  BY <2>3
<1>2. after = CHOOSE f : Rounds(f)  BY Zenon
<1>3. ScanEnd(start, p, N) = after[N]  BY Zenon DEF Iterate, ScanEnd
<1> HIDE DEF after
<1>4. Rounds(after)
  <2> HIDE DEF Rounds
  <2> QED  BY <1>1, <1>2
<1>5. \A n \in 0..N : after[n] = IF n = 0 THEN start ELSE ScanRound(after[n - 1], p)
  BY <1>4
<1>6. 0 \in 0..N /\ \A n \in 1..N : n \in 0..N /\ n # 0  OBVIOUS
<1> QED  BY <1>3, <1>5, <1>6

NumberEnd(start, N) == Iterate(NumberRound, start, N)

\* The rounds of the search for a free numbered name.
LEMMA NumberLoop ==
  ASSUME NEW start, NEW N \in Nat
  PROVE  \E f : /\ f[0] = start /\ \A n \in 1..N : f[n] = NumberRound(f[n - 1])
                /\ NumberEnd(start, N) = f[N]
<1> DEFINE after[n \in 0..N] == IF n = 0 THEN start ELSE NumberRound(after[n - 1])
           Rounds(f) == f = [n \in 0..N |-> IF n = 0 THEN start ELSE NumberRound(f[n - 1])]
<1>1. \E f : Rounds(f)
  <2>1. \A l : RoundOf("number", l, start) = NumberRound(l)  BY DEF RoundOf
  <2>2. PICK f : RoundsAre("number", start, start, N, f)
    BY RoundsExist
  <2>3. Rounds(f)  BY <2>1, <2>2 DEF RoundsAre
  <2> QED  BY <2>3
<1>2. after = CHOOSE f : Rounds(f)  BY Zenon
<1>3. NumberEnd(start, N) = after[N]  BY Zenon DEF Iterate, NumberEnd
<1> HIDE DEF after
<1>4. Rounds(after)
  <2> HIDE DEF Rounds
  <2> QED  BY <1>1, <1>2
<1>5. \A n \in 0..N : after[n] = IF n = 0 THEN start ELSE NumberRound(after[n - 1])
  BY <1>4
<1>6. 0 \in 0..N /\ \A n \in 1..N : n \in 0..N /\ n # 0  OBVIOUS
<1> QED  BY <1>3, <1>5, <1>6

LotsEnd(start, N) == Iterate(NumberRounds, start, N)

\* The rounds of that search, a hundred numbers at a time.
LEMMA LotsLoop ==
  ASSUME NEW start, NEW N \in Nat
  PROVE  \E f : /\ f[0] = start /\ \A n \in 1..N : f[n] = NumberRounds(f[n - 1])
                /\ LotsEnd(start, N) = f[N]
<1> DEFINE after[n \in 0..N] == IF n = 0 THEN start ELSE NumberRounds(after[n - 1])
           Rounds(f) == f = [n \in 0..N |-> IF n = 0 THEN start ELSE NumberRounds(f[n - 1])]
<1>1. \E f : Rounds(f)
  <2>1. \A l : RoundOf("lots", l, start) = NumberRounds(l)  BY DEF RoundOf
  <2>2. PICK f : RoundsAre("lots", start, start, N, f)
    BY RoundsExist
  <2>3. Rounds(f)  BY <2>1, <2>2 DEF RoundsAre
  <2> QED  BY <2>3
<1>2. after = CHOOSE f : Rounds(f)  BY Zenon
<1>3. LotsEnd(start, N) = after[N]  BY Zenon DEF Iterate, LotsEnd
<1> HIDE DEF after
<1>4. Rounds(after)
  <2> HIDE DEF Rounds
  <2> QED  BY <1>1, <1>2
<1>5. \A n \in 0..N : after[n] = IF n = 0 THEN start ELSE NumberRounds(after[n - 1])
  BY <1>4
<1>6. 0 \in 0..N /\ \A n \in 1..N : n \in 0..N /\ n # 0  OBVIOUS
<1> QED  BY <1>3, <1>5, <1>6

WalkEnd(start, N) == Iterate(WalkRound, start, N)

\* The rounds of follow_path.
LEMMA WalkLoop ==
  ASSUME NEW start, NEW N \in Nat
  PROVE  \E f : /\ f[0] = start /\ \A n \in 1..N : f[n] = WalkRound(f[n - 1])
                /\ WalkEnd(start, N) = f[N]
<1> DEFINE after[n \in 0..N] == IF n = 0 THEN start ELSE WalkRound(after[n - 1])
           Rounds(f) == f = [n \in 0..N |-> IF n = 0 THEN start ELSE WalkRound(f[n - 1])]
<1>1. \E f : Rounds(f)
  <2>1. \A l : RoundOf("walk", l, start) = WalkRound(l)  BY DEF RoundOf
  <2>2. PICK f : RoundsAre("walk", start, start, N, f)
    BY RoundsExist
  <2>3. Rounds(f)  BY <2>1, <2>2 DEF RoundsAre
  <2> QED  BY <2>3
<1>2. after = CHOOSE f : Rounds(f)  BY Zenon
<1>3. WalkEnd(start, N) = after[N]  BY Zenon DEF Iterate, WalkEnd
<1> HIDE DEF after
<1>4. Rounds(after)
  <2> HIDE DEF Rounds
  <2> QED  BY <1>1, <1>2
<1>5. \A n \in 0..N : after[n] = IF n = 0 THEN start ELSE WalkRound(after[n - 1])
  BY <1>4
<1>6. 0 \in 0..N /\ \A n \in 1..N : n \in 0..N /\ n # 0  OBVIOUS
<1> QED  BY <1>3, <1>5, <1>6

ReadEnd(start, N) == Iterate(ReadRound, start, N)

\* The rounds of f_read.
LEMMA ReadLoop ==
  ASSUME NEW start, NEW N \in Nat
  PROVE  \E f : /\ f[0] = start /\ \A n \in 1..N : f[n] = ReadRound(f[n - 1])
                /\ ReadEnd(start, N) = f[N]
<1> DEFINE after[n \in 0..N] == IF n = 0 THEN start ELSE ReadRound(after[n - 1])
           Rounds(f) == f = [n \in 0..N |-> IF n = 0 THEN start ELSE ReadRound(f[n - 1])]
<1>1. \E f : Rounds(f)
  <2>1. \A l : RoundOf("read", l, start) = ReadRound(l)  BY DEF RoundOf
  <2>2. PICK f : RoundsAre("read", start, start, N, f)
    BY RoundsExist
  <2>3. Rounds(f)  BY <2>1, <2>2 DEF RoundsAre
  <2> QED  BY <2>3
<1>2. after = CHOOSE f : Rounds(f)  BY Zenon
<1>3. ReadEnd(start, N) = after[N]  BY Zenon DEF Iterate, ReadEnd
<1> HIDE DEF after
<1>4. Rounds(after)
  <2> HIDE DEF Rounds
  <2> QED  BY <1>1, <1>2
<1>5. \A n \in 0..N : after[n] = IF n = 0 THEN start ELSE ReadRound(after[n - 1])
  BY <1>4
<1>6. 0 \in 0..N /\ \A n \in 1..N : n \in 0..N /\ n # 0  OBVIOUS
<1> QED  BY <1>3, <1>5, <1>6

WriteEnd(start, p, N) == Iterate(LAMBDA l : WriteRound(l, p), start, N)

\* The rounds of f_write.
LEMMA WriteLoop ==
  ASSUME NEW start, NEW p, NEW N \in Nat
  PROVE  \E f : /\ f[0] = start /\ \A n \in 1..N : f[n] = WriteRound(f[n - 1], p)
                /\ WriteEnd(start, p, N) = f[N]
<1> DEFINE after[n \in 0..N] == IF n = 0 THEN start ELSE WriteRound(after[n - 1], p)
           Rounds(f) == f = [n \in 0..N |-> IF n = 0 THEN start ELSE WriteRound(f[n - 1], p)]
<1>1. \E f : Rounds(f)
  <2>1. \A l : RoundOf("write", l, p) = WriteRound(l, p)  BY DEF RoundOf
  <2>2. PICK f : RoundsAre("write", p, start, N, f)
    BY RoundsExist
  <2>3. Rounds(f)  BY <2>1, <2>2 DEF RoundsAre
  <2> QED  BY <2>3
<1>2. after = CHOOSE f : Rounds(f)  BY Zenon
<1>3. WriteEnd(start, p, N) = after[N]  BY Zenon DEF Iterate, WriteEnd
<1> HIDE DEF after
<1>4. Rounds(after)
  <2> HIDE DEF Rounds
  <2> QED  BY <1>1, <1>2
<1>5. \A n \in 0..N : after[n] = IF n = 0 THEN start ELSE WriteRound(after[n - 1], p)
  BY <1>4
<1>6. 0 \in 0..N /\ \A n \in 1..N : n \in 0..N /\ n # 0  OBVIOUS
<1> QED  BY <1>3, <1>5, <1>6

MoveEnd(start, N) == Iterate(MoveRound, start, N)

\* The rounds of f_lseek.
LEMMA MoveLoop ==
  ASSUME NEW start, NEW N \in Nat
  PROVE  \E f : /\ f[0] = start /\ \A n \in 1..N : f[n] = MoveRound(f[n - 1])
                /\ MoveEnd(start, N) = f[N]
<1> DEFINE after[n \in 0..N] == IF n = 0 THEN start ELSE MoveRound(after[n - 1])
           Rounds(f) == f = [n \in 0..N |-> IF n = 0 THEN start ELSE MoveRound(f[n - 1])]
<1>1. \E f : Rounds(f)
  <2>1. \A l : RoundOf("move", l, start) = MoveRound(l)  BY DEF RoundOf
  <2>2. PICK f : RoundsAre("move", start, start, N, f)
    BY RoundsExist
  <2>3. Rounds(f)  BY <2>1, <2>2 DEF RoundsAre
  <2> QED  BY <2>3
<1>2. after = CHOOSE f : Rounds(f)  BY Zenon
<1>3. MoveEnd(start, N) = after[N]  BY Zenon DEF Iterate, MoveEnd
<1> HIDE DEF after
<1>4. Rounds(after)
  <2> HIDE DEF Rounds
  <2> QED  BY <1>1, <1>2
<1>5. \A n \in 0..N : after[n] = IF n = 0 THEN start ELSE MoveRound(after[n - 1])
  BY <1>4
<1>6. 0 \in 0..N /\ \A n \in 1..N : n \in 0..N /\ n # 0  OBVIOUS
<1> QED  BY <1>3, <1>5, <1>6

ChainEnd(start, p, N) == Iterate(LAMBDA l : ChainRound(p, l), start, N)

\* f is what N rounds make of the clusters of a chain, one after another.
Collects(f, start, p, N) ==
  /\ f[0] = start /\ \A n \in 1..N : f[n] = ChainRound(p, f[n - 1])
  /\ ChainEnd(start, p, N) = f[N]

\* The rounds that collect the clusters of a chain.
LEMMA ChainLoop ==
  ASSUME NEW start, NEW p, NEW N \in Nat
  PROVE  \E f : Collects(f, start, p, N)
<1> DEFINE after[n \in 0..N] == IF n = 0 THEN start ELSE ChainRound(p, after[n - 1])
           Rounds(f) == f = [n \in 0..N |-> IF n = 0 THEN start ELSE ChainRound(p, f[n - 1])]
<1>1. \E f : Rounds(f)
  <2>1. \A l : RoundOf("chain", l, p) = ChainRound(p, l)  BY DEF RoundOf
  <2>2. PICK f : RoundsAre("chain", p, start, N, f)
    BY RoundsExist
  <2>3. Rounds(f)  BY <2>1, <2>2 DEF RoundsAre
  <2> QED  BY <2>3
<1>2. after = CHOOSE f : Rounds(f)  BY Zenon
<1>3. ChainEnd(start, p, N) = after[N]  BY Zenon DEF Iterate, ChainEnd
<1> HIDE DEF after
<1>4. Rounds(after)
  <2> HIDE DEF Rounds
  <2> QED  BY <1>1, <1>2
<1>5. \A n \in 0..N : after[n] = IF n = 0 THEN start ELSE ChainRound(p, after[n - 1])
  BY <1>4
<1>6. 0 \in 0..N /\ \A n \in 1..N : n \in 0..N /\ n # 0  OBVIOUS
<1>7. Collects(after, start, p, N)  BY <1>3, <1>5, <1>6 DEF Collects
<1> QED  BY <1>7

----------------------------------------------------------------------------
(* f_write.                                                                *)

Larger(a, b) == IF a > b THEN a ELSE b

\* A file object with the chain e.
FileOf(fp, e) ==
  /\ FpFields(fp) /\ "FA__ERROR" \notin fp.flag
  /\ fp.fptr \in Nat /\ fp.fsize \in Nat /\ fp.sclust = HeadOf(e) /\ Buffered(fp, e)

\* What it remembers of its position is true.
PosOf(fp, e) ==
  fp.fptr > 0 =>
    /\ SectorsFor(fp.fptr) \in 1..Len(e) /\ fp.clust = e[SectorsFor(fp.fptr)]
    /\ fp.fptr % UnitsPerSector # 0 => fp.dsect = DataSector(fp.clust)

\* The chain is as long as the size and the position need.
Long(fp, e) == Len(e) = Larger(SectorsFor(fp.fptr), SectorsFor(fp.fsize))

FileAt(v, T, F, X, e) == Shows(v, T, F, X) /\ Chained(F, e) /\ Off(T, F, e)

SameEntry(fp, f) ==
  f.dirSect = fp.dirSect /\ f.slot = fp.slot /\ (CanWrite(f) <=> CanWrite(fp))

\* The cluster of the next unit is that of the object.
Ready(fp, e) ==
  /\ FileOf(fp, e) /\ SectorsFor(fp.fptr + 1) \in 1..Len(e) /\ fp.clust = e[SectorsFor(fp.fptr + 1)]
  /\ Len(e) = Larger(SectorsFor(fp.fptr + 1), SectorsFor(fp.fsize))

\* n units on, in the same sector.
LEMMA InSectorOn ==
  ASSUME NEW x \in Nat, NEW left \in Nat \ {0}, NEW n,
         n = Least(UnitsPerSector - (x % UnitsPerSector), left)
  PROVE  /\ n \in 1..left /\ n <= UnitsPerSector - (x % UnitsPerSector) /\ SectorsFor(x + n) = SectorsFor(x + 1)
         /\ x + n \in Nat /\ x + n > 0
<1> DEFINE U == UnitsPerSector
           m == x % U
<1>0. U \in Nat /\ U > 1 /\ m \in 0..(U - 1)
  <2>1. U \in Nat /\ U > 1  BY UnitAssumption
  <2> HIDE DEF U
  <2> QED  BY <2>1, Divided
<1>1. n = IF U - m < left THEN U - m ELSE left  BY DEF Least
<1>3. m = x % UnitsPerSector  OBVIOUS
<1> HIDE DEF m
<1>2. n \in 1..left /\ n <= U - m /\ n \in 1..(U - m) /\ 1 \in 1..(U - m) /\ n \in 1..U /\ 1 \in 1..U
  BY <1>0, <1>1
<1>4. CASE m = 0
  <2>1. SectorsFor(x + n) = SectorsFor(x) + 1 /\ SectorsFor(x + 1) = SectorsFor(x) + 1
    BY <1>2, <1>3, <1>4, FromBoundary
  <2> QED  BY <1>2, <1>3, <2>1
<1>5. CASE m # 0
  <2>1. SectorsFor(x + n) = SectorsFor(x) /\ SectorsFor(x + 1) = SectorsFor(x)
    BY <1>2, <1>3, <1>5, FromMiddle
  <2> QED  BY <1>2, <1>3, <2>1
<1> QED  BY <1>4, <1>5

\* Units have been written into the chain there is.
Wrote(T, F, X, e, fp, left, bw, m) ==
  /\ FileAt(m.v, T, F, X, e) /\ FileOf(m.fp, e) /\ PosOf(m.fp, e) /\ Long(m.fp, e) /\ SameEntry(fp, m.fp)
  /\ \E n \in 1..left : /\ m.did = bw + n /\ m.left = left - n
                        /\ m.res = IF left - n = 0 THEN "FR_OK" ELSE "more"

\* The file pointer goes on in a sector that is the object's, or to its end.
LEMMA UnitsWritten ==
  ASSUME NEW v, NEW T, NEW F, NEW X, NEW e, FileAt(v, T, F, X, e), NEW fp, Ready(fp, e),
         NEW left \in Nat \ {0}, NEW bw \in Nat, NEW n \in 1..left, SectorsFor(fp.fptr + n) = SectorsFor(fp.fptr + 1),
         (fp.fptr + n) % UnitsPerSector # 0 => fp.dsect = DataSector(fp.clust),
         NEW m, m = WriteUnits(v, fp, n, left, bw)
  PROVE  Wrote(T, F, X, e, fp, left, bw, m)
<1> DEFINE x == fp.fptr + n
           f == [fp EXCEPT !.fptr = x]
<1>1. FpFields(fp) /\ fp.fptr \in Nat  BY DEF Ready, FileOf
<1>2. m = [v |-> v, fp |-> f, res |-> IF left - n = 0 THEN "FR_OK" ELSE "more", did |-> bw + n, left |-> left - n]
  BY DEF WriteUnits, Left, File, Ok
<1>3. x \in Nat /\ x > 0 /\ SectorsFor(x) = SectorsFor(fp.fptr + 1) /\ (x % UnitsPerSector # 0 => fp.dsect = DataSector(fp.clust))
  BY <1>1
<1> HIDE DEF x
<1>4. FpFields(f) /\ f = [flag |-> fp.flag, fptr |-> x, fsize |-> fp.fsize, sclust |-> fp.sclust, clust |-> fp.clust,
              dsect |-> fp.dsect, buf |-> fp.buf, dirSect |-> fp.dirSect, slot |-> fp.slot]
  BY <1>1, FpSet
<1> HIDE DEF f
<1>5. FileOf(f, e) /\ SameEntry(fp, f)
  BY <1>3, <1>4 DEF Ready, FileOf, Buffered, SameEntry, CanWrite
<1>6. PosOf(f, e)  BY <1>3, <1>4 DEF Ready, PosOf
<1>7. Long(f, e)  BY <1>3, <1>4 DEF Ready, Long
<1> QED  BY <1>2, <1>5, <1>6, <1>7 DEF Wrote

\* A file object of which the buffer and the flag DIRTY may differ.
WithBuf(fp, x, y) == [fp EXCEPT !.buf = x, !.flag = y]

\* What a file object is with another buffer and other flags.
LEMMA BufferSet ==
  ASSUME NEW fp, FpFields(fp), NEW x, NEW y, NEW f, f = WithBuf(fp, x, y)
  PROVE  FpFields(f) /\ f =
           [flag |-> y, fptr |-> fp.fptr, fsize |-> fp.fsize, sclust |-> fp.sclust, clust |-> fp.clust,
            dsect |-> fp.dsect, buf |-> x, dirSect |-> fp.dirSect, slot |-> fp.slot]
<1> DEFINE g == [fp EXCEPT !.buf = x]
<1>2. FpFields(g) /\ g = [flag |-> fp.flag, fptr |-> fp.fptr, fsize |-> fp.fsize, sclust |-> fp.sclust, clust |-> fp.clust,
              dsect |-> fp.dsect, buf |-> x, dirSect |-> fp.dirSect, slot |-> fp.slot]
  BY FpSet
<1>3. f = [g EXCEPT !.flag = y]  BY DEF WithBuf
<1> HIDE DEF g
<1>4. [g EXCEPT !.flag = y] = [flag |-> y, fptr |-> fp.fptr, fsize |-> fp.fsize, sclust |-> fp.sclust, clust |-> fp.clust,
              dsect |-> fp.dsect, buf |-> x, dirSect |-> fp.dirSect, slot |-> fp.slot]
  BY <1>2, FpSet
<1> QED  BY <1>3, <1>4 DEF FpFields

\* f_write copies what fits into the sector it has in its buffer.
LEMMA BufferedWritten ==
  ASSUME NEW v, NEW T, NEW F, NEW X, NEW e, FileAt(v, T, F, X, e), NEW fp, Ready(fp, e),
         fp.dsect = DataSector(fp.clust),
         NEW left \in Nat \ {0}, NEW bw \in Nat, NEW d, NEW r, FileStep(r), r.v = v, r.fp = fp,
         NEW m, m = WriteBuffered(r, d, left, bw)
  PROVE  Wrote(T, F, X, e, fp, left, bw, m)
<1> DEFINE n == InSector(fp, left)
           x == Overlaid(fp, n, d)
           y == fp.flag \cup {"FA__DIRTY"}
           f == [fp EXCEPT !.buf = x, !.flag = y]
<1>1. m = WriteUnits(v, f, n, left, bw)
  BY DEF WriteBuffered, FileStep, Goes
<1>2. FpFields(fp) /\ fp.fptr \in Nat  BY DEF Ready, FileOf
<1>3. n = Least(UnitsPerSector - (fp.fptr % UnitsPerSector), left)  BY DEF InSector
<1> HIDE DEF x, n
<1>4. n \in 1..left /\ SectorsFor(fp.fptr + n) = SectorsFor(fp.fptr + 1)
  BY <1>2, <1>3, InSectorOn
<1>5. FpFields(f) /\ f = [flag |-> y, fptr |-> fp.fptr, fsize |-> fp.fsize, sclust |-> fp.sclust, clust |-> fp.clust,
              dsect |-> fp.dsect, buf |-> x, dirSect |-> fp.dirSect, slot |-> fp.slot]
  <2>1. f = WithBuf(fp, x, y)  BY DEF WithBuf
  <2> HIDE DEF y, f
  <2> QED  BY <1>2, <2>1, BufferSet
<1> HIDE DEF f
<1>6. SectorIn(fp.dsect, e)  BY DEF SectorIn, Ready
<1>7. Ready(f, e) /\ SameEntry(fp, f) /\ f.dsect = DataSector(f.clust) /\ f.fptr = fp.fptr
  BY <1>5, <1>6 DEF Ready, FileOf, Buffered, SameEntry, CanWrite
<1>8. Wrote(T, F, X, e, f, left, bw, m)
  BY <1>1, <1>4, <1>7, UnitsWritten
<1> QED  BY <1>7, <1>8 DEF Wrote, SameEntry

\* The sectors of a file are not those of tables.
LEMMA FileSectors ==
  ASSUME NEW T, NEW F, NEW e, Chained(F, e), Off(T, F, e), NEW s, SectorIn(s, e)
  PROVE  s \in DataSectors /\ s \notin T
<1>1. PICK i \in 1..Len(e) : s = DataSector(e[i])  BY DEF SectorIn
<1>2. e[i] \in Clusters /\ e[i] \in Cells(e)  BY ChainKind
<1> QED  BY <1>1, <1>2 DEF DataSectors, Off

\* From the start of a sector.
LEMMA SectorWritten ==
  ASSUME NEW v, NEW T, NEW F, NEW X, NEW e, FileAt(v, T, F, X, e), NEW fp, Ready(fp, e), AtBoundary(fp),
         NEW left \in Nat \ {0}, NEW bw \in Nat, NEW d, NEW r, FileStep(r), r.v = v, r.fp = fp,
         "FA__DIRTY" \notin fp.flag,
         NEW m, m = WriteSector(r, DataSector(fp.clust), d, left, bw)
  PROVE  Wrote(T, F, X, e, fp, left, bw, m)
<1> DEFINE s == DataSector(fp.clust)
<1>0. FpFields(fp) /\ fp.fptr \in Nat /\ SectorIn(s, e) /\ fp.fptr % UnitsPerSector = 0
      /\ UnitsPerSector \in Nat /\ UnitsPerSector > 1
  BY UnitAssumption DEF Ready, FileOf, SectorIn, AtBoundary
<1>1. s \in DataSectors /\ s \notin T  BY <1>0, FileSectors DEF FileAt
<1>2. Goes(r) /\ r.res = "FR_OK"  BY DEF FileStep, Goes
<1>3. CASE left >= UnitsPerSector
  <2> DEFINE w == DiskWrite(v, s, Full(d))
             q == File(w, fp, 0)
             x == Full(d)
             y == fp.flag \ {"FA__DIRTY"}
             f == IF fp.dsect = s THEN [fp EXCEPT !.buf = x, !.flag = y] ELSE fp
  <2>1. m = WriteWhole(q, s, d, left, bw)
    BY <1>2, <1>3, Zenon DEF WriteSector
  <2>0. w = DiskWrite(v, s, Full(d)) /\ q = File(w, fp, 0)  OBVIOUS
  <2> HIDE DEF w, q
  <2>2. Goes(w) /\ Shows(w.v, T, F, X)  BY <1>1, <2>0, DataWritten DEF FileAt
  <2>3. q.res = "FR_OK" /\ q.v = w.v /\ q.fp = fp  BY <2>0, <2>2 DEF File, Goes
  <2>4. m = WriteUnits(w.v, f, UnitsPerSector, left, bw)
    BY <2>1, <2>3 DEF WriteWhole
  <2>5. /\ FpFields(f) /\ f.fptr = fp.fptr /\ f.fsize = fp.fsize /\ f.sclust = fp.sclust /\ f.clust = fp.clust
        /\ f.dsect = fp.dsect /\ f.dirSect = fp.dirSect /\ f.slot = fp.slot
        /\ f.flag \ {"FA__DIRTY"} = fp.flag \ {"FA__DIRTY"} /\ "FA__DIRTY" \notin f.flag
    <3>1. CASE fp.dsect # s  BY <1>0, <3>1
    <3>2. CASE fp.dsect = s
      <4> DEFINE g == [fp EXCEPT !.buf = x, !.flag = y]
      <4>1. FpFields(g) /\ g = [flag |-> y, fptr |-> fp.fptr, fsize |-> fp.fsize, sclust |-> fp.sclust, clust |-> fp.clust,
              dsect |-> fp.dsect, buf |-> x, dirSect |-> fp.dirSect, slot |-> fp.slot]
        <5>1. g = WithBuf(fp, x, y)  BY DEF WithBuf
        <5> HIDE DEF x, y, g
        <5> QED  BY <1>0, <5>1, BufferSet
      <4>2. f = g  BY <3>2
      <4> HIDE DEF g, f, x
      <4> QED  BY <4>1, <4>2
    <3> QED  BY <3>1, <3>2
  <2> HIDE DEF f
  <2>6. Ready(f, e) /\ SameEntry(fp, f)
    BY <2>5 DEF Ready, FileOf, Buffered, SameEntry, CanWrite
  <2>7. FileAt(w.v, T, F, X, e)  BY <2>2 DEF FileAt
  <2>8. /\ UnitsPerSector \in 1..left /\ SectorsFor(f.fptr + UnitsPerSector) = SectorsFor(f.fptr + 1)
        /\ (f.fptr + UnitsPerSector) % UnitsPerSector = 0
    <3>1. 1 \in 1..UnitsPerSector /\ UnitsPerSector \in 1..UnitsPerSector /\ UnitsPerSector \in 1..left
      BY <1>0, <1>3
    <3>2. f.fptr \in Nat /\ f.fptr % UnitsPerSector = 0  BY <1>0, <2>5
    <3>3. SectorsFor(f.fptr + UnitsPerSector) = SectorsFor(f.fptr) + 1 /\ (f.fptr + UnitsPerSector) % UnitsPerSector = 0
      BY <3>1, <3>2, FromBoundary
    <3>4. SectorsFor(f.fptr + 1) = SectorsFor(f.fptr) + 1
      BY <3>1, <3>2, FromBoundary
    <3> QED  BY <3>1, <3>3, <3>4
  <2>9. Wrote(T, F, X, e, f, left, bw, m)
    BY <2>4, <2>6, <2>7, <2>8, UnitsWritten
  <2> QED  BY <2>6, <2>9 DEF Wrote, SameEntry
<1>4. CASE ~(left >= UnitsPerSector)
  <2> DEFINE b == EdgeSector(v, fp, s)
             q == Placed(b, s)
             f == [b.fp EXCEPT !.dsect = s]
  <2>1. m = WriteBuffered(q, d, left, bw)
    BY <1>2, <1>4, Zenon DEF WriteSector
  <2>2. FileStep(b) /\ Shows(b.v, T, F, X) /\ SameButBuf(fp, b.fp)
    <3>1. CASE fp.dsect # s /\ fp.fptr < fp.fsize
      <4>1. b = Fill(v, fp, s)  BY <3>1 DEF EdgeSector
      <4> HIDE DEF b, s
      <4> QED  BY <1>0, <4>1, BufferFilled DEF FileAt
    <3>2. CASE ~(fp.dsect # s /\ fp.fptr < fp.fsize)
      <4>1. b = File(Ok(v), fp, 0)  BY <3>2 DEF EdgeSector
      <4> QED  BY <1>0, <4>1 DEF File, Ok, FileStep, Goes, FileAt, SameButBuf
    <3> QED  BY <3>1, <3>2
  <2> HIDE DEF b
  <2>3. q = [v |-> b.v, fp |-> f, res |-> "FR_OK", did |-> b.did]
    BY <2>2 DEF Placed, FileStep, Goes
  <2>4. FpFields(f) /\ f = [flag |-> b.fp.flag, fptr |-> b.fp.fptr, fsize |-> b.fp.fsize, sclust |-> b.fp.sclust, clust |-> b.fp.clust,
              dsect |-> s, buf |-> b.fp.buf, dirSect |-> b.fp.dirSect, slot |-> b.fp.slot]
    <3> HIDE DEF s
    <3> QED  BY <2>2, FpSet DEF SameButBuf
  <2> HIDE DEF f, q
  <2>5. FileStep(q) /\ q.v = b.v /\ q.fp = f  BY <2>3 DEF FileStep, Goes
  <2>6. Ready(f, e) /\ SameEntry(fp, f) /\ f.dsect = DataSector(f.clust)
    BY <2>2, <2>4 DEF Ready, FileOf, Buffered, SameEntry, CanWrite, SameButBuf
  <2>7. FileAt(b.v, T, F, X, e)  BY <2>2 DEF FileAt
  <2>8. Wrote(T, F, X, e, f, left, bw, m)
    BY <2>1, <2>5, <2>6, <2>7, BufferedWritten
  <2> QED  BY <2>6, <2>8 DEF Wrote, SameEntry
<1> QED  BY <1>3, <1>4

\* An object that goes on with the cluster c of its chain.
AtCluster(fp, c) == [fp EXCEPT !.clust = c]
AtStart(fp, c) == [fp EXCEPT !.sclust = c]

\* What a file object is with another current cluster.
LEMMA ClusterKept ==
  ASSUME NEW fp, FpFields(fp), NEW c, NEW f, f = AtCluster(fp, c)
  PROVE  FpFields(f) /\ f =
           [flag |-> fp.flag, fptr |-> fp.fptr, fsize |-> fp.fsize, sclust |-> fp.sclust, clust |-> c,
            dsect |-> fp.dsect, buf |-> fp.buf, dirSect |-> fp.dirSect, slot |-> fp.slot]
BY FpSet DEF AtCluster

\* What a file object is with another first cluster.
LEMMA StartKept ==
  ASSUME NEW fp, FpFields(fp), NEW c, NEW f, f = AtStart(fp, c)
  PROVE  FpFields(f) /\ f =
           [flag |-> fp.flag, fptr |-> fp.fptr, fsize |-> fp.fsize, sclust |-> c, clust |-> fp.clust,
            dsect |-> fp.dsect, buf |-> fp.buf, dirSect |-> fp.dirSect, slot |-> fp.slot]
BY FpSet DEF AtStart

\* The cluster of the next unit has been found.
HasNextCluster(fp, e, c) ==
  /\ FileOf(fp, e) /\ SectorsFor(fp.fptr + 1) \in 1..Len(e) /\ c = e[SectorsFor(fp.fptr + 1)]
  /\ Len(e) = Larger(SectorsFor(fp.fptr + 1), SectorsFor(fp.fsize))

\* f_write enters the next cluster and writes there.
LEMMA ClusterWritten ==
  ASSUME NEW g, NEW T, NEW F, NEW X, NEW e, FileAt(g.v, T, F, X, e), NEW fp, HasNextCluster(fp, e, g.val), AtBoundary(fp),
         NEW left \in Nat \ {0}, NEW bw \in Nat, NEW d,
         NEW m, m = WriteCluster(g, fp, d, left, bw)
  PROVE  Wrote(T, F, X, e, fp, left, bw, m)
<1> DEFINE f == [fp EXCEPT !.clust = g.val]
           r == WriteBack(g.v, f)
<1>1. FpFields(fp) /\ fp.fptr \in Nat /\ g.val \in Clusters
  <2>1. FpFields(fp) /\ fp.fptr \in Nat  BY DEF HasNextCluster, FileOf
  <2>2. \A i \in 1..Len(e) : e[i] \in Clusters  BY ChainKind DEF FileAt
  <2> QED  BY <2>1, <2>2 DEF HasNextCluster
<1>2. FpFields(f) /\ f =
           [flag |-> fp.flag, fptr |-> fp.fptr, fsize |-> fp.fsize, sclust |-> fp.sclust, clust |-> g.val,
            dsect |-> fp.dsect, buf |-> fp.buf, dirSect |-> fp.dirSect, slot |-> fp.slot]
  <2>1. f = AtCluster(fp, g.val)  BY DEF AtCluster
  <2> HIDE DEF f
  <2> QED  BY <1>1, <2>1, ClusterKept
<1>3. m = WriteSector(r, DataSector(g.val), d, left, bw)
  <2>1. g.val # 0 /\ g.val # 1 /\ g.val # Max32  BY <1>1, Numbers
  <2> QED  BY <1>1, <2>1, Zenon DEF WriteCluster
<1>4. r = WriteBack(g.v, f)  OBVIOUS
<1> HIDE DEF r, f
<1>5. Ready(f, e) /\ f.fptr = fp.fptr /\ f.clust = g.val /\ SameEntry(fp, f)
  BY <1>2 DEF Ready, HasNextCluster, FileOf, Buffered, SameEntry, CanWrite
<1>6. "FA__DIRTY" \in f.flag => f.dsect \in DataSectors /\ f.dsect \notin T
  BY <1>5, FileSectors DEF Ready, FileOf, Buffered, FileAt
<1>7. FileStep(r) /\ Shows(r.v, T, F, X) /\ SameButDirty(f, r.fp) /\ "FA__DIRTY" \notin r.fp.flag
  BY <1>2, <1>4, <1>6, BufferWritten DEF FileAt
<1>8. Ready(r.fp, e) /\ AtBoundary(r.fp) /\ r.fp.clust = g.val /\ SameEntry(fp, r.fp)
  <2>1. CanWrite(r.fp) <=> CanWrite(f)  BY <1>7 DEF SameButDirty, CanWrite
  <2>2. "FA__ERROR" \notin r.fp.flag  BY <1>5, <1>7 DEF SameButDirty, Ready, FileOf
  <2> QED
    BY <1>5, <1>7, <2>1, <2>2 DEF Ready, FileOf, Buffered, SameButDirty, SameEntry, AtBoundary
<1>9. FileAt(r.v, T, F, X, e)  BY <1>7 DEF FileAt
<1>10. Wrote(T, F, X, e, r.fp, left, bw, m)
  <2> DEFINE q == r.fp
             w == r.v
  <2>1. q = r.fp /\ w = r.v /\ m = WriteSector(r, DataSector(q.clust), d, left, bw)
    BY <1>3, <1>8
  <2> HIDE DEF q, w
  <2> QED  BY <1>7, <1>8, <1>9, <2>1, SectorWritten
<1> QED  BY <1>8, <1>10 DEF Wrote, SameEntry

\* What a round leaves: some units are written, or the disk is full.
Stuck(T, F, X, e, fp, bw, m) ==
  /\ FileAt(m.v, T, F, X, e) /\ FileOf(m.fp, e) /\ PosOf(m.fp, e) /\ Long(m.fp, e) /\ SameEntry(fp, m.fp)
  /\ m.did = bw /\ m.left = 0 /\ m.res = "FR_OK" /\ FatFull(F)
WroteOn(T, F, X, e, fp, left, bw, m) ==
  \E G, y : /\ Beside(F, e, G, y)
            /\ Wrote(T, G, X, y, fp, left, bw, m) \/ Stuck(T, G, X, y, fp, bw, m)

\* The disk is full.
LEMMA ClusterMissing ==
  ASSUME NEW g, g.val = 0, NEW T, NEW F, NEW X, NEW e, FileAt(g.v, T, F, X, e), NEW fp, FatFull(F),
         FileOf(fp, e), PosOf(fp, e), Long(fp, e), NEW d, NEW left, NEW bw,
         NEW m, m = WriteCluster(g, fp, d, left, bw)
  PROVE  Stuck(T, F, X, e, fp, bw, m)
<1>1. m = Over(File(Ok(g.v), fp, bw))
  <2>1. g.val # 1 /\ g.val # Max32 /\ g.val \notin Clusters  BY DEF Max32, LastLink, Clusters
  <2> QED  BY <2>1, Zenon DEF WriteCluster
<1> QED  BY <1>1 DEF Over, File, Ok, Stuck, SameEntry

\* f_write, one round.
LEMMA WrittenOn ==
  ASSUME NEW v, NEW T, NEW F, NEW X, NEW e, FileAt(v, T, F, X, e), NEW fp, FileOf(fp, e), PosOf(fp, e),
         Long(fp, e), NEW left \in Nat \ {0}, NEW bw \in Nat, NEW d,
         NEW m, m = WriteNext(v, fp, d, left, bw)
  PROVE  WroteOn(T, F, X, e, fp, left, bw, m)
<1>0. /\ FpFields(fp) /\ fp.fptr \in Nat /\ fp.fsize \in Nat /\ UnitsPerSector \in Nat /\ UnitsPerSector > 1
      /\ F \in Fats /\ Beside(F, e, F, e)
  BY UnitAssumption, BesideSame DEF FileOf, FileAt, Shows
<1>1. CASE ~AtBoundary(fp)
  <2>1. m = WriteBuffered(File(Ok(v), fp, 0), d, left, bw)  BY <1>1, Zenon DEF WriteNext
  <2>2. /\ fp.fptr > 0 /\ SectorsFor(fp.fptr + 1) = SectorsFor(fp.fptr)
    <3>1. fp.fptr % UnitsPerSector \in 1..(UnitsPerSector - 1)
      BY <1>0, <1>1, Divided DEF AtBoundary
    <3>2. 1 \in 1..(UnitsPerSector - (fp.fptr % UnitsPerSector)) /\ fp.fptr % UnitsPerSector # 0
      BY <1>0, <3>1
    <3> QED  BY <1>0, <3>2, FromMiddle
  <2>3. Ready(fp, e) /\ fp.dsect = DataSector(fp.clust)
    BY <1>1, <2>2 DEF Ready, PosOf, Long, AtBoundary
  <2> DEFINE r == File(Ok(v), fp, 0)
  <2>4. FileStep(r) /\ r.v = v /\ r.fp = fp  BY DEF File, Ok, FileStep, Goes
  <2>5. m = WriteBuffered(r, d, left, bw)  BY <2>1
  <2> HIDE DEF r
  <2>6. Wrote(T, F, X, e, fp, left, bw, m)  BY <2>3, <2>4, <2>5, BufferedWritten
  <2> QED  BY <1>0, <2>6 DEF WroteOn
<1>2. CASE AtBoundary(fp)
  <2> DEFINE k == SectorsFor(fp.fptr)
  <2>1. /\ k \in Nat /\ SectorsFor(fp.fptr + 1) = k + 1 /\ fp.fptr = k * UnitsPerSector
    <3>1. 1 \in 1..UnitsPerSector /\ fp.fptr % UnitsPerSector = 0  BY <1>0, <1>2 DEF AtBoundary
    <3> QED  BY <1>0, <3>1, FromBoundary
  <2>2. k = 0 <=> fp.fptr = 0  BY <1>0, MoreSectors
  <2>3. k = SectorsFor(fp.fptr) OBVIOUS
  <2> HIDE DEF k
  <2>4. Len(e) \in Nat /\ k <= Len(e) /\ SectorsFor(fp.fsize) \in Nat /\ Len(e) = Larger(k, SectorsFor(fp.fsize))
    <3>1. Len(e) \in Nat  BY ChainKind DEF FileAt
    <3>2. SectorsFor(fp.fsize) \in Nat  BY <1>0, MoreSectors
    <3> QED  BY <2>1, <2>3, <3>1, <3>2 DEF Long, Larger
  <2>5. CASE k < Len(e)
    <3> DEFINE g == IF fp.fptr = 0 THEN Value(v, fp.sclust) ELSE CreateChain(v, fp.clust)
    <3>1. m = WriteCluster(g, fp, d, left, bw)
      <4>1. CASE fp.fptr = 0
        <5>1. fp.sclust # 0
          <6>1. HeadOf(e) \in Clusters  BY <2>5, <2>4, <2>1, ChainKind DEF FileAt
          <6> QED  BY <6>1 DEF FileOf, Clusters
        <5>2. m = WriteCluster(Value(v, fp.sclust), fp, d, left, bw)
          BY <1>2, <4>1, <5>1, Zenon DEF WriteNext
        <5> QED  BY <4>1, <5>2
      <4>2. CASE fp.fptr # 0
        <5>1. m = WriteCluster(CreateChain(v, fp.clust), fp, d, left, bw)
          BY <1>2, <4>2, Zenon DEF WriteNext
        <5> QED  BY <4>2, <5>1
      <4> QED  BY <4>1, <4>2
    <3>2. FileAt(g.v, T, F, X, e) /\ g.val = e[k + 1]
      <4>1. CASE fp.fptr = 0
        <5>1. g = Value(v, fp.sclust)  BY <4>1
        <5>2. fp.sclust = e[1] /\ k = 0
          BY <2>1, <2>2, <2>4, <2>5, <4>1, ChainKind DEF FileOf, FileAt
        <5> QED  BY <5>1, <5>2 DEF Value
      <4>2. CASE fp.fptr # 0
        <5>1. g = CreateChain(v, fp.clust)  BY <4>2
        <5>2. k \in 1..Len(e) /\ k + 1 \in 1..Len(e)  BY <2>1, <2>2, <2>4, <2>5, <4>2
        <5>3. fp.clust = e[k]  BY <1>0, <2>3, <4>2 DEF PosOf
        <5>4. F[e[k]] = e[k + 1] /\ e[k] \in Clusters /\ e[k + 1] \in Clusters
          BY <2>5, <5>2, ChainKind DEF FileAt
        <5> HIDE DEF g
        <5>5. g.val = F[fp.clust] /\ Shows(g.v, T, F, X)
          BY <5>1, <5>3, <5>4, ChainFollowed DEF FileAt
        <5> QED  BY <5>3, <5>4, <5>5 DEF FileAt
      <4> QED  BY <4>1, <4>2
    <3> HIDE DEF g
    <3>3. HasNextCluster(fp, e, g.val)
      BY <2>1, <2>4, <2>5, <3>2 DEF HasNextCluster, Larger
    <3>4. Wrote(T, F, X, e, fp, left, bw, m)
      BY <1>2, <3>1, <3>2, <3>3, ClusterWritten
    <3> QED  BY <1>0, <3>4 DEF WroteOn
  <2>6. CASE k = Len(e)
    <3> DEFINE c == LastOf(e)
               g == CreateChain(v, c)
               h == AtStart(fp, g.val)
               f == IF k = 0 THEN h ELSE fp
    <3>1. m = WriteCluster(g, f, d, left, bw)
      <4>1. CASE fp.fptr = 0
        <5>1. fp.sclust = 0 /\ c = 0 /\ k = 0
          BY <2>2, <2>4, <2>6, <4>1, ChainKind DEF FileOf, FileAt
        <5>2. m = FirstCluster(CreateChain(v, 0), fp, d, left, bw)
          BY <1>2, <4>1, <5>1, Zenon DEF WriteNext
        <5> QED  BY <5>1, <5>2 DEF FirstCluster, AtStart
      <4>2. CASE fp.fptr # 0
        <5>1. m = WriteCluster(CreateChain(v, fp.clust), fp, d, left, bw)
          BY <1>2, <4>2, Zenon DEF WriteNext
        <5>2. k # 0 /\ fp.clust = e[k] /\ c = e[k]
          <6>1. k # 0 /\ fp.fptr > 0  BY <1>0, <2>2, <4>2
          <6>2. fp.clust = e[k]  BY <2>3, <6>1 DEF PosOf
          <6>3. c = e[k]  BY <2>1, <2>6, <6>1, ChainKind DEF FileAt
          <6> QED  BY <6>1, <6>2, <6>3
        <5> QED  BY <5>1, <5>2
      <4> QED  BY <4>1, <4>2
    <3>2. c \in {0} \cup Clusters /\ (c = 0 <=> k = 0) /\ (c # 0 => F[c] = LastLink /\ c = e[Len(e)])
      <4>1. CASE k = 0  BY <2>6, <4>1, ChainKind DEF FileAt
      <4>2. CASE k # 0
        <5>1. Len(e) > 0 /\ Len(e) \in 1..Len(e)  BY <2>1, <2>4, <2>6, <4>2
        <5>2. c = e[Len(e)] /\ c \in Clusters /\ F[e[Len(e)]] = LastLink
          BY <5>1, ChainKind DEF FileAt
        <5> QED  BY <4>2, <5>2 DEF Clusters
      <4> QED  BY <4>1, <4>2
    <3>3. g = CreateChain(v, c) /\ c = LastOf(e)  OBVIOUS
    <3> HIDE DEF g, c
    <3>4. Grown(T, F, X, c, g)
      <4>1. CASE c = 0  BY <3>3, <4>1, ChainBegun DEF FileAt
      <4>2. CASE c # 0  BY <3>2, <3>3, <4>2, ChainFollowed DEF FileAt
      <4> QED  BY <4>1, <4>2
    <3>5. h = AtStart(fp, g.val)  OBVIOUS
    <3> HIDE DEF h
    <3>6. FpFields(h) /\ h = [flag |-> fp.flag, fptr |-> fp.fptr, fsize |-> fp.fsize, sclust |-> g.val, clust |-> fp.clust,
            dsect |-> fp.dsect, buf |-> fp.buf, dirSect |-> fp.dirSect, slot |-> fp.slot]
      BY <1>0, <3>5, StartKept
    <3>7. /\ FpFields(f) /\ f.flag = fp.flag /\ f.fptr = fp.fptr /\ f.fsize = fp.fsize /\ f.clust = fp.clust
          /\ f.dsect = fp.dsect /\ f.dirSect = fp.dirSect /\ f.slot = fp.slot
          /\ f.sclust = IF k = 0 THEN g.val ELSE HeadOf(e)
      BY <1>0, <3>6 DEF FileOf
    <3> HIDE DEF f
    <3>8. SameEntry(fp, f) /\ AtBoundary(f)  BY <1>2, <3>7 DEF SameEntry, CanWrite, AtBoundary
    <3>9. CASE g.val = 0 /\ Shows(g.v, T, F, X) /\ FatFull(F)
      <4>1. FileAt(g.v, T, F, X, e)  BY <3>9 DEF FileAt
      <4>2. HeadOf(e) = 0 \/ k # 0  BY <2>6, ChainKind DEF FileAt
      <4>3. FileOf(f, e)
        BY <3>7, <3>9, <4>2 DEF FileOf, Buffered
      <4>4. PosOf(f, e) /\ Long(f, e)  BY <3>7 DEF PosOf, Long
      <4>5. Stuck(T, F, X, e, f, bw, m)
        BY <3>1, <3>9, <4>1, <4>3, <4>4, ClusterMissing
      <4>6. Stuck(T, F, X, e, fp, bw, m)  BY <3>8, <4>5 DEF Stuck, SameEntry
      <4> QED  BY <1>0, <4>6 DEF WroteOn
    <3>10. CASE g.val \in Clusters /\ g.val # c /\ F[g.val] = 0 /\ Shows(g.v, T, Linked(F, c, g.val), X)
      <4> DEFINE G == Linked(F, c, g.val)
                 y == Append(e, g.val)
      <4>1. G = Linked(F, LastOf(e), g.val) /\ y = Append(e, g.val)  BY <3>3
      <4> HIDE DEF G, y
      <4>2. Path(G, y) /\ Beside(F, e, G, y) /\ Len(y) = Len(e) + 1 /\ y[Len(y)] = g.val
            /\ (\A i \in 1..Len(e) : y[i] = e[i]) /\ HeadOf(y) = IF e = <<>> THEN g.val ELSE e[1]
        <5> DEFINE n == g.val
        <5>1. n \in Clusters /\ F[n] = 0 /\ G = Linked(F, LastOf(e), n) /\ y = Append(e, n) /\ F \in Fats /\ Chained(F, e)
          BY <1>0, <3>10, <4>1 DEF FileAt
        <5> HIDE DEF n
        <5>2. GrownBy(F, e, n, G, y)  BY <5>1, GrownPath
        <5>3. n = g.val  BY DEF n
        <5> QED  BY <5>2, <5>3 DEF GrownBy
      <4>3. Shows(g.v, T, G, X)  BY <3>3, <3>10, <4>1
      <4>4. Off(T, G, y)  BY <4>2, OffAfter DEF FileAt
      <4>5. FileAt(g.v, T, G, X, y)  BY <4>2, <4>3, <4>4 DEF FileAt, Chained
      <4>6. HeadOf(y) = f.sclust
        <5>1. e = <<>> <=> k = 0  BY <2>6, ChainKind DEF FileAt
        <5>2. e # <<>> => HeadOf(e) = e[1]  BY DEF HeadOf
        <5> QED  BY <3>7, <4>2, <5>1, <5>2
      <4>7. Buffered(f, y)
        <5>1. 1..Len(e) \subseteq 1..Len(y)  BY <2>4, <4>2
        <5>2. Buffered(fp, e)  BY DEF FileOf
        <5> QED  BY <3>7, <4>2, <5>1, <5>2 DEF Buffered, SectorIn
      <4>8. FileOf(f, y)  BY <1>0, <3>7, <4>6, <4>7 DEF FileOf
      <4>9. HasNextCluster(f, y, g.val)
        <5>1. SectorsFor(f.fptr + 1) = Len(y) /\ Len(y) = k + 1 /\ Len(y) \in 1..Len(y)
          BY <2>1, <2>6, <3>7, <4>2
        <5>2. Larger(k + 1, SectorsFor(fp.fsize)) = k + 1  BY <2>1, <2>4, <2>6 DEF Larger
        <5> QED  BY <3>7, <4>2, <4>8, <5>1, <5>2 DEF HasNextCluster
      <4>10. Wrote(T, G, X, y, f, left, bw, m)
        BY <3>1, <3>8, <4>5, <4>9, ClusterWritten
      <4>11. Wrote(T, G, X, y, fp, left, bw, m)  BY <3>8, <4>10 DEF Wrote, SameEntry
      <4> QED  BY <4>2, <4>11 DEF WroteOn
    <3> QED  BY <3>4, <3>9, <3>10 DEF Grown, FatFull
  <2> QED  BY <2>1, <2>4, <2>5, <2>6
<1> QED  BY <1>1, <1>2

\* The object of a file whose chain fits its size.
FileFits(fp, e) ==
  FileOf(fp, e) /\ PosOf(fp, e) /\ fp.fptr <= fp.fsize /\ Len(e) = SectorsFor(fp.fsize)

\* A file whose chain fits its size has a chain that reaches its position.
LEMMA FitsLong ==
  ASSUME NEW fp, NEW T, NEW F, NEW e, Chained(F, e), FileOf(fp, e), PosOf(fp, e), Len(e) = SectorsFor(fp.fsize)
  PROVE  Long(fp, e)
<1>1. fp.fptr \in Nat /\ fp.fsize \in Nat  BY DEF FileOf
<1>2. SectorsFor(fp.fptr) \in Nat /\ SectorsFor(fp.fsize) \in Nat /\ (SectorsFor(fp.fptr) = 0 <=> fp.fptr = 0)
  BY <1>1, MoreSectors
<1>3. fp.fptr > 0 => SectorsFor(fp.fptr) \in 1..Len(e)  BY DEF PosOf
<1> QED  BY <1>1, <1>2, <1>3 DEF Long, Larger

\* What f_write has done after n rounds.
WritingIs(T, F, X, e, fp, btw, n, m, G, y) ==
  /\ Beside(F, e, G, y) /\ FileAt(m.v, T, G, X, y) /\ FileOf(m.fp, y) /\ PosOf(m.fp, y) /\ Long(m.fp, y)
  /\ SameEntry(fp, m.fp)
  /\ \/ /\ m.res = "more" /\ m.left \in 1..btw /\ m.left <= btw - n /\ m.did = btw - m.left
     \/ /\ m.res = "FR_OK" /\ (m.did = btw \/ FatFull(G))
WritingOn(T, F, X, e, fp, btw, n, m) == \E G, y : WritingIs(T, F, X, e, fp, btw, n, m, G, y)

\* One round of f_write.
LEMMA WritingGoesOn ==
  ASSUME NEW T, NEW F, NEW X, NEW e, NEW fp, NEW btw \in Nat, NEW n \in Nat, NEW d, NEW l,
         WritingOn(T, F, X, e, fp, btw, n, l), NEW m, m = WriteRound(l, d)
  PROVE  WritingOn(T, F, X, e, fp, btw, n + 1, m)
<1>1. PICK G, y : WritingIs(T, F, X, e, fp, btw, n, l, G, y)  BY DEF WritingOn
<1>2. CASE l.res # "more"
  <2>1. m = l  BY <1>2 DEF WriteRound
  <2>2. WritingIs(T, F, X, e, fp, btw, n + 1, m, G, y)  BY <1>1, <1>2, <2>1 DEF WritingIs
  <2> QED  BY <2>2 DEF WritingOn
<1>3. CASE l.res = "more"
  <2> DEFINE left == l.left
             bw == l.did
             v == l.v
             f == l.fp
  <2>1. m = WriteNext(v, f, d, left, bw)  BY <1>3 DEF WriteRound
  <2>2. FileAt(v, T, G, X, y) /\ FileOf(f, y) /\ PosOf(f, y) /\ Long(f, y) /\ SameEntry(fp, f) /\ Beside(F, e, G, y)
    BY <1>1 DEF WritingIs
  <2>3. left \in 1..btw /\ left <= btw - n /\ bw = btw - left /\ left \in Nat \ {0} /\ bw \in Nat
    BY <1>1, <1>3 DEF WritingIs
  <2> HIDE DEF left, bw, v, f
  <2>4. WroteOn(T, G, X, y, f, left, bw, m)  BY <2>1, <2>2, <2>3, WrittenOn
  <2>5. PICK H, z : Beside(G, y, H, z) /\ (Wrote(T, H, X, z, f, left, bw, m) \/ Stuck(T, H, X, z, f, bw, m))
    BY <2>4 DEF WroteOn
  <2>6. Beside(F, e, H, z)  BY <2>2, <2>5, BesideOn
  <2>7. CASE Wrote(T, H, X, z, f, left, bw, m)
    <3>1. PICK k \in 1..left : m.did = bw + k /\ m.left = left - k /\ m.res = IF left - k = 0 THEN "FR_OK" ELSE "more"
      BY <2>7 DEF Wrote
    <3>2. \/ m.res = "more" /\ m.left \in 1..btw /\ m.left <= btw - (n + 1) /\ m.did = btw - m.left
          \/ m.res = "FR_OK" /\ m.did = btw
      BY <2>3, <3>1
    <3>3. SameEntry(fp, m.fp)  BY <2>2, <2>7 DEF Wrote, SameEntry
    <3>4. WritingIs(T, F, X, e, fp, btw, n + 1, m, H, z)
      BY <2>6, <2>7, <3>2, <3>3 DEF WritingIs, Wrote
    <3> QED  BY <3>4 DEF WritingOn
  <2>8. CASE Stuck(T, H, X, z, f, bw, m)
    <3>3. SameEntry(fp, m.fp)  BY <2>2, <2>8 DEF Stuck, SameEntry
    <3>4. WritingIs(T, F, X, e, fp, btw, n + 1, m, H, z)
      BY <2>6, <2>8, <3>3 DEF WritingIs, Stuck
    <3> QED  BY <3>4 DEF WritingOn
  <2> QED  BY <2>5, <2>7, <2>8
<1> QED  BY <1>2, <1>3

\* What a call on a file leaves that goes through: its object and its chain, and the others as they were.
FileDone(T, F, X, e, fp, G, y, v, f) ==
  /\ Beside(F, e, G, y) /\ FileAt(v, T, G, X, y) /\ FileFits(f, y) /\ SameEntry(fp, f)
  /\ "FA__WRITTEN" \in f.flag \/ (f.fsize = fp.fsize /\ f.sclust = fp.sclust /\ "FA__WRITTEN" \notin fp.flag)

WithSize(fp, x, y) == [fp EXCEPT !.fsize = x, !.flag = y]

\* What a file object is with another size and other flags.
LEMMA SizeSet ==
  ASSUME NEW fp, FpFields(fp), NEW x, NEW y, NEW f, f = WithSize(fp, x, y)
  PROVE  FpFields(f) /\ f =
           [flag |-> y, fptr |-> fp.fptr, fsize |-> x, sclust |-> fp.sclust, clust |-> fp.clust,
            dsect |-> fp.dsect, buf |-> fp.buf, dirSect |-> fp.dirSect, slot |-> fp.slot]
<1> DEFINE g == [fp EXCEPT !.fsize = x]
<1>2. FpFields(g) /\ g = [flag |-> fp.flag, fptr |-> fp.fptr, fsize |-> x, sclust |-> fp.sclust, clust |-> fp.clust,
              dsect |-> fp.dsect, buf |-> fp.buf, dirSect |-> fp.dirSect, slot |-> fp.slot]
  BY FpSet
<1>3. f = [g EXCEPT !.flag = y]  BY DEF WithSize
<1> HIDE DEF g
<1>4. [g EXCEPT !.flag = y] = [flag |-> y, fptr |-> fp.fptr, fsize |-> x, sclust |-> fp.sclust, clust |-> fp.clust,
              dsect |-> fp.dsect, buf |-> fp.buf, dirSect |-> fp.dirSect, slot |-> fp.slot]
  BY <1>2, FpSet
<1> QED  BY <1>3, <1>4 DEF FpFields

\* Inductive steps of a loop, counted.
LEMMA LoopKeeps ==
  ASSUME NEW N \in Nat, NEW S, 0 \in S, \A n \in 0..(N - 1) : n \in S => n + 1 \in S
  PROVE  N \in S
<1> DEFINE Q == {n \in Nat : n \in S \/ n > N}
<1>1. 0 \in Q  OBVIOUS
<1>2. \A n \in Nat : n \in Q => n + 1 \in Q
  <2> SUFFICES ASSUME NEW n \in Nat, n \in Q PROVE n + 1 \in Q  OBVIOUS
  <2>1. CASE n < N  BY <2>1
  <2>2. CASE ~(n < N)  BY <2>2
  <2> QED  BY <2>1, <2>2
<1> HIDE DEF Q
<1>3. \A n \in Nat : n \in Q  BY <1>1, <1>2, Inductive
<1> QED  BY <1>3 DEF Q

\* f_write: the file has the room it needs, or the disk is full.
LEMMA FileWritten ==
  ASSUME NEW v, NEW T, NEW F, NEW X, NEW e, FileAt(v, T, F, X, e), NEW fp, FileFits(fp, e),
         NEW d, NEW btw \in Nat, NEW r, r = FWrite(v, fp, d, btw), Goes(r) \/ CanWrite(fp)
  PROVE  \E G, y : /\ FileDone(T, F, X, e, fp, G, y, r.v, r.fp)
                   /\ r.did < btw => FatFull(G)
<1> DEFINE start == Left(File(Ok(v), fp, 0), 0, btw)
<1>1. FpFields(fp) /\ "FA__ERROR" \notin fp.flag /\ Chained(F, e)
  BY DEF FileFits, FileOf, FileAt
<1>2. r = WriteData(v, fp, d, btw)
  <2>1. CASE "FA_WRITE" \notin fp.flag
    <3>1. r = File(Failed(v, "FR_DENIED"), fp, 0)  BY <1>1, <2>1, Zenon DEF FWrite
    <3> QED  BY <2>1, <3>1 DEF File, Failed, Goes, CanWrite
  <2>2. CASE "FA_WRITE" \in fp.flag
    BY <1>1, <2>2, Zenon DEF FWrite
  <2> QED  BY <2>1, <2>2
<1>3. start = [v |-> v, fp |-> fp, res |-> IF btw = 0 THEN "FR_OK" ELSE "more", did |-> 0, left |-> btw]
  BY DEF Left, File, Ok
<1>4. PICK f : /\ f[0] = start /\ \A n \in 1..btw : f[n] = WriteRound(f[n - 1], d)
               /\ WriteEnd(start, d, btw) = f[btw]
  <2> HIDE DEF start
  <2> QED  BY WriteLoop
<1> DEFINE m == f[btw]
<1>5. r = Written(Returned(m))  BY <1>2, <1>4 DEF WriteData, WriteEnd
<1> DEFINE S == {n \in 0..btw : WritingOn(T, F, X, e, fp, btw, n, f[n])}
<1>6. 0 \in S
  <2> DEFINE s == f[0]
  <2>1. s.v = v /\ s.fp = fp /\ s.res = (IF btw = 0 THEN "FR_OK" ELSE "more") /\ s.did = 0 /\ s.left = btw
    BY <1>3, <1>4
  <2> HIDE DEF s
  <2>2. Long(fp, e)  BY <1>1, FitsLong DEF FileFits
  <2>3. Beside(F, e, F, e)  BY BesideSame
  <2>4. WritingIs(T, F, X, e, fp, btw, 0, s, F, e)
    BY <2>1, <2>2, <2>3 DEF WritingIs, FileFits, SameEntry
  <2>5. WritingOn(T, F, X, e, fp, btw, 0, s)  BY <2>4 DEF WritingOn
  <2> QED  BY <2>5 DEF s
<1>7. \A n \in 0..(btw - 1) : n \in S => n + 1 \in S
  <2> SUFFICES ASSUME NEW n \in 0..(btw - 1), WritingOn(T, F, X, e, fp, btw, n, f[n])
               PROVE  WritingOn(T, F, X, e, fp, btw, n + 1, f[n + 1])
    OBVIOUS
  <2> DEFINE a == f[n]
             b == f[n + 1]
  <2>1. b = WriteRound(a, d)
    <3>1. n + 1 \in 1..btw /\ (n + 1) - 1 = n  OBVIOUS
    <3> QED  BY <1>4, <3>1
  <2> HIDE DEF a, b
  <2>2. WritingOn(T, F, X, e, fp, btw, n, a)  BY DEF a
  <2>3. WritingOn(T, F, X, e, fp, btw, n + 1, b)  BY <2>1, <2>2, WritingGoesOn
  <2> QED  BY <2>3 DEF b
<1> HIDE DEF S
<1>8. btw \in S  BY <1>6, <1>7, LoopKeeps
<1> HIDE DEF m
<1>9. WritingOn(T, F, X, e, fp, btw, btw, m)  BY <1>8 DEF S, m
<1>10. PICK G, y : WritingIs(T, F, X, e, fp, btw, btw, m, G, y)  BY <1>9 DEF WritingOn
<1>11. m.res = "FR_OK" /\ (m.did = btw \/ FatFull(G))  BY <1>10 DEF WritingIs
<1> DEFINE p == m.fp
           x == IF p.fptr > p.fsize THEN p.fptr ELSE p.fsize
           z == p.flag \cup {"FA__WRITTEN"}
           q == WithSize(p, x, z)
<1>12. r.fp = q /\ r.v = m.v /\ r.did = m.did
  <2>1. Returned(m) = [v |-> m.v, fp |-> m.fp, res |-> m.res, did |-> m.did]
    BY DEF Returned, File
  <2> DEFINE w == Returned(m)
  <2>2. w.v = m.v /\ w.fp = p /\ w.res = "FR_OK" /\ w.did = m.did /\ w = [v |-> w.v, fp |-> w.fp, res |-> w.res, did |-> w.did]
    BY <1>11, <2>1
  <2>3. r = Written(w)  BY <1>5
  <2> HIDE DEF w, p
  <2>4. r = [w EXCEPT !.fp.fsize = IF w.fp.fptr > @ THEN w.fp.fptr ELSE @, !.fp.flag = @ \cup {"FA__WRITTEN"}]
    BY <2>2, <2>3 DEF Written
  <2>5. r.v = w.v /\ r.did = w.did  BY <2>2, <2>4
  <2>6. r.fp = [w.fp EXCEPT !.fsize = IF w.fp.fptr > @ THEN w.fp.fptr ELSE @, !.flag = @ \cup {"FA__WRITTEN"}]
    BY <2>2, <2>4
  <2>7. r.fp = WithSize(w.fp, IF w.fp.fptr > w.fp.fsize THEN w.fp.fptr ELSE w.fp.fsize, w.fp.flag \cup {"FA__WRITTEN"})
    BY <2>6 DEF WithSize
  <2> QED  BY <2>2, <2>5, <2>7
<1>13. p.fptr \in Nat /\ p.fsize \in Nat /\ FpFields(p) /\ FileOf(p, y) /\ PosOf(p, y) /\ Long(p, y)
  BY <1>10 DEF WritingIs, FileOf
<1> HIDE DEF p
<1>14. x \in Nat /\ p.fptr <= x /\ p.fsize <= x /\ (x = p.fptr \/ x = p.fsize)  BY <1>13
<1>15. q = WithSize(p, x, z) /\ z = p.flag \cup {"FA__WRITTEN"}  OBVIOUS
<1> HIDE DEF q, x, z
<1>16. FpFields(q) /\ q =
           [flag |-> z, fptr |-> p.fptr, fsize |-> x, sclust |-> p.sclust, clust |-> p.clust,
            dsect |-> p.dsect, buf |-> p.buf, dirSect |-> p.dirSect, slot |-> p.slot]
  BY <1>13, <1>15, SizeSet
<1>17. Len(y) = SectorsFor(x)
  <2>1. SectorsFor(p.fptr) \in Nat /\ SectorsFor(p.fsize) \in Nat /\ SectorsFor(p.fptr) <= SectorsFor(x) /\ SectorsFor(p.fsize) <= SectorsFor(x)
    BY <1>13, <1>14, MoreSectors
  <2>2. SectorsFor(x) = SectorsFor(p.fptr) \/ SectorsFor(x) = SectorsFor(p.fsize)  BY <1>14
  <2> QED  BY <1>13, <2>1, <2>2 DEF Long, Larger
<1>18. FileFits(q, y)
  <2>1. "FA__ERROR" \notin z /\ ("FA__DIRTY" \in z <=> "FA__DIRTY" \in p.flag)
    BY <1>13, <1>15 DEF FileOf
  <2>2. FileOf(q, y)  BY <1>13, <1>14, <1>16, <2>1 DEF FileOf, Buffered
  <2>3. PosOf(q, y)  BY <1>13, <1>16 DEF PosOf
  <2> QED  BY <1>14, <1>16, <1>17, <2>2, <2>3 DEF FileFits
<1>19. SameEntry(fp, q) /\ "FA__WRITTEN" \in q.flag
  <2>1. SameEntry(fp, p)  BY <1>10 DEF WritingIs, p
  <2> QED  BY <1>15, <1>16, <2>1 DEF SameEntry, CanWrite
<1>20. FileDone(T, F, X, e, fp, G, y, r.v, r.fp)
  BY <1>10, <1>12, <1>18, <1>19 DEF FileDone, WritingIs
<1>21. r.did < btw => FatFull(G)  BY <1>11, <1>12
<1> QED  BY <1>20, <1>21

----------------------------------------------------------------------------
(* f_read.                                                                 *)

\* f is fp but for the buffer.
SameButSector(fp, f) ==
  /\ FpFields(f) /\ f.fptr = fp.fptr /\ f.fsize = fp.fsize /\ f.sclust = fp.sclust /\ f.clust = fp.clust
  /\ f.dirSect = fp.dirSect /\ f.slot = fp.slot /\ f.flag \ {"FA__DIRTY"} = fp.flag \ {"FA__DIRTY"}

AtSector(fp, s) == [fp EXCEPT !.dsect = s]

\* What a file object is with another sector number.
LEMMA SectorKept ==
  ASSUME NEW fp, FpFields(fp), NEW s, NEW f, f = AtSector(fp, s)
  PROVE  FpFields(f) /\ f =
           [flag |-> fp.flag, fptr |-> fp.fptr, fsize |-> fp.fsize, sclust |-> fp.sclust, clust |-> fp.clust,
            dsect |-> s, buf |-> fp.buf, dirSect |-> fp.dirSect, slot |-> fp.slot]
BY FpSet DEF AtSector

AtUnit(fp, x) == [fp EXCEPT !.fptr = x]

\* What a file object is with another position.
LEMMA UnitKept ==
  ASSUME NEW fp, FpFields(fp), NEW x, NEW f, f = AtUnit(fp, x)
  PROVE  FpFields(f) /\ f =
           [flag |-> fp.flag, fptr |-> x, fsize |-> fp.fsize, sclust |-> fp.sclust, clust |-> fp.clust,
            dsect |-> fp.dsect, buf |-> fp.buf, dirSect |-> fp.dirSect, slot |-> fp.slot]
BY FpSet DEF AtUnit

\* The sector a call goes to is loaded, the old one written first.
LEMMA SectorPlaced ==
  ASSUME NEW v, NEW T, NEW F, NEW X, Shows(v, T, F, X), NEW fp, FpFields(fp),
         "FA__DIRTY" \in fp.flag => fp.dsect \in DataSectors /\ fp.dsect \notin T, NEW s,
         NEW q, q = Placed(LoadSector(v, fp, s), s)
  PROVE  /\ FileStep(q) /\ Shows(q.v, T, F, X) /\ SameButSector(fp, q.fp) /\ q.fp.dsect = s
         /\ "FA__DIRTY" \in q.fp.flag => "FA__DIRTY" \in fp.flag /\ fp.dsect = s
<1> DEFINE b == LoadSector(v, fp, s)
           f == AtSector(b.fp, s)
<1>1. /\ FileStep(b) /\ Shows(b.v, T, F, X) /\ SameButSector(fp, b.fp)
      /\ "FA__DIRTY" \in b.fp.flag => "FA__DIRTY" \in fp.flag /\ fp.dsect = s
  <2>1. CASE fp.dsect = s
    <3>1. b = File(Ok(v), fp, 0)  BY <2>1 DEF LoadSector
    <3> QED  BY <2>1, <3>1 DEF File, Ok, FileStep, Goes, SameButSector
  <2>2. CASE fp.dsect # s
    <3> DEFINE r == WriteBack(v, fp)
               g == r.fp
               w == r.v
               i == Fill(w, g, s)
    <3>1. b = ThenFile(r, LAMBDA u, h : Fill(u, h, s))  BY <2>2 DEF LoadSector
    <3>2. r = WriteBack(v, fp)  OBVIOUS
    <3>3. g = r.fp /\ w = r.v  OBVIOUS
    <3> HIDE DEF r
    <3>4. FileStep(r) /\ Shows(r.v, T, F, X) /\ SameButDirty(fp, r.fp) /\ "FA__DIRTY" \notin r.fp.flag
      BY <3>2, BufferWritten
    <3>5. b = i  BY <3>1, <3>4 DEF ThenFile, FileStep, Goes
    <3> HIDE DEF g, w
    <3>6. Shows(w, T, F, X) /\ FpFields(g)  BY <3>3, <3>4 DEF SameButDirty
    <3>7. i = Fill(w, g, s)  OBVIOUS
    <3> HIDE DEF i
    <3>8. FileStep(i) /\ Shows(i.v, T, F, X) /\ SameButBuf(g, i.fp)  BY <3>6, <3>7, BufferFilled
    <3>9. SameButSector(fp, i.fp) /\ "FA__DIRTY" \notin i.fp.flag
      BY <3>3, <3>4, <3>8 DEF SameButDirty, SameButBuf, SameButSector
    <3> HIDE DEF b
    <3> QED  BY <3>5, <3>8, <3>9
  <2> QED  BY <2>1, <2>2
<1>0. q = Placed(b, s)  OBVIOUS
<1> HIDE DEF b
<1>2. q = [v |-> b.v, fp |-> f, res |-> "FR_OK", did |-> b.did]
  BY <1>0, <1>1 DEF Placed, FileStep, Goes, AtSector
<1>3. f = AtSector(b.fp, s)  OBVIOUS
<1> HIDE DEF f
<1>4. FpFields(f) /\ f =
           [flag |-> b.fp.flag, fptr |-> b.fp.fptr, fsize |-> b.fp.fsize, sclust |-> b.fp.sclust, clust |-> b.fp.clust,
            dsect |-> s, buf |-> b.fp.buf, dirSect |-> b.fp.dirSect, slot |-> b.fp.slot]
  BY <1>1, <1>3, SectorKept DEF SameButSector
<1>5. SameButSector(fp, f) /\ f.dsect = s /\ f.flag = b.fp.flag  BY <1>1, <1>4 DEF SameButSector
<1> QED  BY <1>1, <1>2, <1>5 DEF FileStep, Goes

\* A file object that keeps its file, and whether it has been written.
SameFile(fp, f) ==
  /\ SameEntry(fp, f) /\ f.fsize = fp.fsize /\ f.sclust = fp.sclust
  /\ "FA__WRITTEN" \in f.flag <=> "FA__WRITTEN" \in fp.flag

\* The cluster of the next unit is that of the object, which is read.
ReadsHere(fp, e) ==
  FileOf(fp, e) /\ SectorsFor(fp.fptr + 1) \in 1..Len(e) /\ fp.clust = e[SectorsFor(fp.fptr + 1)]

ReadSome(T, F, X, e, fp, left, m) ==
  /\ FileAt(m.v, T, F, X, e) /\ FileOf(m.fp, e) /\ PosOf(m.fp, e) /\ SameFile(fp, m.fp)
  /\ \E n \in 1..left : /\ m.left = left - n /\ m.fp.fptr = fp.fptr + n
                        /\ m.res = IF left - n = 0 THEN "FR_OK" ELSE "more"

\* The position moves over the units that were read.
LEMMA UnitsRead ==
  ASSUME NEW v, NEW T, NEW F, NEW X, NEW e, FileAt(v, T, F, X, e), NEW fp, ReadsHere(fp, e),
         NEW left \in Nat \ {0}, NEW n \in 1..left, SectorsFor(fp.fptr + n) = SectorsFor(fp.fptr + 1),
         (fp.fptr + n) % UnitsPerSector # 0 => fp.dsect = DataSector(fp.clust),
         NEW got, NEW content, NEW m, m = ReadUnits(v, fp, n, content, left, got)
  PROVE  ReadSome(T, F, X, e, fp, left, m)
<1> DEFINE x == fp.fptr + n
           f == AtUnit(fp, x)
<1>1. FpFields(fp) /\ fp.fptr \in Nat  BY DEF ReadsHere, FileOf
<1>2. m.v = v /\ m.fp = f /\ m.res = (IF left - n = 0 THEN "FR_OK" ELSE "more") /\ m.left = left - n
  BY DEF ReadUnits, Left, File, Ok, AtUnit
<1>3. x \in Nat /\ x > 0 /\ SectorsFor(x) = SectorsFor(fp.fptr + 1) /\ (x % UnitsPerSector # 0 => fp.dsect = DataSector(fp.clust))
      /\ x = fp.fptr + n
  BY <1>1
<1>5. f = AtUnit(fp, x)  OBVIOUS
<1> HIDE DEF x, f
<1>4. FpFields(f) /\ f = [flag |-> fp.flag, fptr |-> x, fsize |-> fp.fsize, sclust |-> fp.sclust, clust |-> fp.clust,
              dsect |-> fp.dsect, buf |-> fp.buf, dirSect |-> fp.dirSect, slot |-> fp.slot]
  BY <1>1, <1>5, UnitKept
<1>6. FileOf(f, e) /\ SameFile(fp, f)
  BY <1>3, <1>4 DEF ReadsHere, FileOf, Buffered, SameEntry, CanWrite, SameFile
<1>7. PosOf(f, e) /\ f.fptr = fp.fptr + n  BY <1>3, <1>4 DEF ReadsHere, PosOf
<1> QED  BY <1>2, <1>6, <1>7 DEF ReadSome

\* f_read takes what it needs from the sector it has in its buffer.
LEMMA BufferedRead ==
  ASSUME NEW v, NEW T, NEW F, NEW X, NEW e, FileAt(v, T, F, X, e), NEW fp, ReadsHere(fp, e),
         fp.dsect = DataSector(fp.clust),
         NEW left \in Nat \ {0}, NEW got, NEW r, FileStep(r), r.v = v, r.fp = fp,
         NEW m, m = ReadBuffered(r, left, got)
  PROVE  ReadSome(T, F, X, e, fp, left, m)
<1> DEFINE n == InSector(fp, left)
<1>1. m = ReadUnits(v, fp, n, fp.buf, left, got)
  BY DEF ReadBuffered, FileStep, Goes
<1>2. FpFields(fp) /\ fp.fptr \in Nat  BY DEF ReadsHere, FileOf
<1>3. n = Least(UnitsPerSector - (fp.fptr % UnitsPerSector), left)  BY DEF InSector
<1> HIDE DEF n
<1>4. n \in 1..left /\ SectorsFor(fp.fptr + n) = SectorsFor(fp.fptr + 1)
  BY <1>2, <1>3, InSectorOn
<1> DEFINE b == fp.buf
<1>5. m = ReadUnits(v, fp, n, b, left, got)  BY <1>1
<1> HIDE DEF b
<1> QED  BY <1>4, <1>5, UnitsRead

\* f_read enters the next cluster and reads there.
LEMMA ClusterRead ==
  ASSUME NEW g, NEW T, NEW F, NEW X, NEW e, FileAt(g.v, T, F, X, e), NEW fp, FileOf(fp, e), AtBoundary(fp),
         SectorsFor(fp.fptr + 1) \in 1..Len(e), g.val = e[SectorsFor(fp.fptr + 1)],
         NEW left \in Nat \ {0}, NEW got, NEW m, m = ReadCluster(g, fp, left, got)
  PROVE  ReadSome(T, F, X, e, fp, left, m)
<1> DEFINE f == AtCluster(fp, g.val)
           s == DataSector(g.val)
<1>1. FpFields(fp) /\ fp.fptr \in Nat /\ g.val \in Clusters /\ UnitsPerSector \in Nat /\ UnitsPerSector > 1
  <2>1. FpFields(fp) /\ fp.fptr \in Nat  BY DEF FileOf
  <2>2. \A i \in 1..Len(e) : e[i] \in Clusters  BY ChainKind DEF FileAt
  <2> QED  BY <2>1, <2>2, UnitAssumption
<1>2. ~(g.val < 2) /\ g.val # Max32  BY <1>1, Numbers
<1>3. f = AtCluster(fp, g.val)  OBVIOUS
<1> HIDE DEF f
<1>4. FpFields(f) /\ f =
           [flag |-> fp.flag, fptr |-> fp.fptr, fsize |-> fp.fsize, sclust |-> fp.sclust, clust |-> g.val,
            dsect |-> fp.dsect, buf |-> fp.buf, dirSect |-> fp.dirSect, slot |-> fp.slot]
  BY <1>1, <1>3, ClusterKept
<1>5. ReadsHere(f, e) /\ SameFile(fp, f) /\ f.fptr = fp.fptr /\ f.clust = g.val
  BY <1>4 DEF ReadsHere, FileOf, Buffered, SameFile, SameEntry, CanWrite
<1>6. CASE left >= UnitsPerSector
  <2> DEFINE r == Fill(g.v, fp, s)
             content == IF "FA__DIRTY" \in f.flag /\ f.dsect = s THEN f.buf ELSE r.fp.buf
             w == r.v
  <2>1. m = ReadWhole(r, s, f, left, got)
    BY <1>1, <1>2, <1>3, <1>6, Zenon DEF ReadCluster, AtCluster
  <2>2. r = Fill(g.v, fp, s)  OBVIOUS
  <2> HIDE DEF r, s
  <2>3. FileStep(r) /\ Shows(r.v, T, F, X)  BY <1>1, <2>2, BufferFilled DEF FileAt
  <2>4. m = ReadUnits(w, f, UnitsPerSector, content, left, got)
    BY <2>1, <2>3 DEF ReadWhole, FileStep, Goes
  <2>5. FileAt(w, T, F, X, e)  BY <2>3 DEF FileAt
  <2> HIDE DEF content, w
  <2>8. /\ UnitsPerSector \in 1..left /\ SectorsFor(f.fptr + UnitsPerSector) = SectorsFor(f.fptr + 1)
        /\ (f.fptr + UnitsPerSector) % UnitsPerSector = 0
    <3>1. 1 \in 1..UnitsPerSector /\ UnitsPerSector \in 1..UnitsPerSector /\ UnitsPerSector \in 1..left
      BY <1>1, <1>6
    <3>2. f.fptr \in Nat /\ f.fptr % UnitsPerSector = 0  BY <1>1, <1>5 DEF AtBoundary
    <3>3. SectorsFor(f.fptr + UnitsPerSector) = SectorsFor(f.fptr) + 1 /\ (f.fptr + UnitsPerSector) % UnitsPerSector = 0
      BY <3>1, <3>2, FromBoundary
    <3>4. SectorsFor(f.fptr + 1) = SectorsFor(f.fptr) + 1
      BY <3>1, <3>2, FromBoundary
    <3> QED  BY <3>1, <3>3, <3>4
  <2>9. ReadSome(T, F, X, e, f, left, m)  BY <1>5, <2>4, <2>5, <2>8, UnitsRead
  <2> QED  BY <1>5, <2>9 DEF ReadSome, SameFile, SameEntry
<1>7. CASE ~(left >= UnitsPerSector)
  <2> DEFINE q == Placed(LoadSector(g.v, f, s), s)
             p == q.fp
             w == q.v
  <2>1. m = ReadBuffered(q, left, got)
    BY <1>1, <1>2, <1>3, <1>7, Zenon DEF ReadCluster, AtCluster
  <2>2. "FA__DIRTY" \in f.flag => f.dsect \in DataSectors /\ f.dsect \notin T
    BY <1>5, FileSectors DEF ReadsHere, FileOf, Buffered, FileAt
  <2>3. q = Placed(LoadSector(g.v, f, s), s) /\ s = DataSector(g.val) OBVIOUS
  <2> HIDE DEF q, s
  <2>4. /\ FileStep(q) /\ Shows(q.v, T, F, X) /\ SameButSector(f, q.fp) /\ q.fp.dsect = s
        /\ "FA__DIRTY" \in q.fp.flag => "FA__DIRTY" \in f.flag /\ f.dsect = s
    BY <1>4, <2>2, <2>3, SectorPlaced DEF FileAt
  <2>5. p = q.fp /\ w = q.v  OBVIOUS
  <2> HIDE DEF p, w
  <2>6. "FA__ERROR" \notin p.flag /\ (CanWrite(p) <=> CanWrite(f)) /\ ("FA__WRITTEN" \in p.flag <=> "FA__WRITTEN" \in f.flag)
    BY <1>5, <2>4, <2>5 DEF SameButSector, CanWrite, ReadsHere, FileOf
  <2>7. ReadsHere(p, e) /\ SameFile(f, p) /\ p.fptr = f.fptr
    BY <1>5, <2>4, <2>5, <2>6 DEF SameButSector, ReadsHere, FileOf, Buffered, SameFile,
       SameEntry
  <2>8. p.dsect = DataSector(p.clust)  BY <1>5, <2>3, <2>4, <2>5 DEF SameButSector
  <2>9. FileAt(w, T, F, X, e)  BY <2>4, <2>5 DEF FileAt
  <2>10. ReadSome(T, F, X, e, p, left, m)  BY <2>1, <2>4, <2>5, <2>7, <2>8, <2>9, BufferedRead
  <2> QED  BY <1>5, <2>7, <2>10 DEF ReadSome, SameFile, SameEntry
<1> QED  BY <1>6, <1>7

\* f_read goes on to the next cluster when it is at a boundary.
LEMMA ReadFurther ==
  ASSUME NEW v, NEW T, NEW F, NEW X, NEW e, FileAt(v, T, F, X, e), NEW fp, FileOf(fp, e), PosOf(fp, e),
         Len(e) = SectorsFor(fp.fsize), NEW left \in Nat \ {0}, fp.fptr + left <= fp.fsize,
         NEW got, NEW m, m = ReadNext(v, fp, left, got)
  PROVE  ReadSome(T, F, X, e, fp, left, m)
<1>0. /\ FpFields(fp) /\ fp.fptr \in Nat /\ fp.fsize \in Nat /\ UnitsPerSector \in Nat /\ UnitsPerSector > 1
  BY UnitAssumption DEF FileOf
<1>1. SectorsFor(fp.fptr + 1) <= Len(e)
  <2> DEFINE x == fp.fptr + 1
  <2>1. x \in Nat /\ x <= fp.fsize  BY <1>0
  <2> HIDE DEF x
  <2>2. SectorsFor(x) <= SectorsFor(fp.fsize)  BY <1>0, <2>1, MoreSectors
  <2> QED  BY <2>2 DEF x
<1>2. CASE ~AtBoundary(fp)
  <2>1. m = ReadBuffered(File(Ok(v), fp, 0), left, got)  BY <1>2, Zenon DEF ReadNext
  <2>2. /\ fp.fptr > 0 /\ SectorsFor(fp.fptr + 1) = SectorsFor(fp.fptr)
    <3>1. fp.fptr % UnitsPerSector \in 1..(UnitsPerSector - 1)
      <4>1. fp.fptr % UnitsPerSector # 0  BY <1>2 DEF AtBoundary
      <4>2. fp.fptr \in Int  BY <1>0
      <4>3. fp.fptr % UnitsPerSector \in 0..(UnitsPerSector - 1)  BY <1>0, <4>2, Divided
      <4> QED  BY <1>0, <4>1, <4>3
    <3>2. 1 \in 1..(UnitsPerSector - (fp.fptr % UnitsPerSector)) /\ fp.fptr % UnitsPerSector # 0
      BY <1>0, <3>1
    <3> QED  BY <1>0, <3>2, FromMiddle
  <2>3. ReadsHere(fp, e) /\ fp.dsect = DataSector(fp.clust)
    BY <1>2, <2>2 DEF ReadsHere, PosOf, AtBoundary
  <2> DEFINE r == File(Ok(v), fp, 0)
  <2>4. FileStep(r) /\ r.v = v /\ r.fp = fp  BY DEF File, Ok, FileStep, Goes
  <2>5. m = ReadBuffered(r, left, got)  BY <2>1
  <2> HIDE DEF r
  <2> QED  BY <2>3, <2>4, <2>5, BufferedRead
<1>3. CASE AtBoundary(fp)
  <2> DEFINE k == SectorsFor(fp.fptr)
             g == IF fp.fptr = 0 THEN Value(v, fp.sclust) ELSE GetFat(v, fp.clust)
  <2>1. /\ k \in Nat /\ SectorsFor(fp.fptr + 1) = k + 1
    <3>1. 1 \in 1..UnitsPerSector /\ fp.fptr % UnitsPerSector = 0  BY <1>0, <1>3 DEF AtBoundary
    <3> QED  BY <1>0, <3>1, FromBoundary
  <2>2. k = 0 <=> fp.fptr = 0  BY <1>0, MoreSectors
  <2>3. k = SectorsFor(fp.fptr)  OBVIOUS
  <2> HIDE DEF k
  <2>4. m = ReadCluster(g, fp, left, got)  BY <1>3, Zenon DEF ReadNext
  <2>5. k + 1 \in 1..Len(e) /\ Len(e) \in Nat
    <3>1. Len(e) \in Nat  BY ChainKind DEF FileAt
    <3> QED  BY <1>1, <2>1, <3>1
  <2>6. FileAt(g.v, T, F, X, e) /\ g.val = e[k + 1]
    <3>1. CASE fp.fptr = 0
      <4>1. g = Value(v, fp.sclust)  BY <3>1
      <4>2. fp.sclust = e[1] /\ k = 0  BY <2>1, <2>2, <2>5, <3>1, ChainKind DEF FileOf, FileAt
      <4> QED  BY <4>1, <4>2 DEF Value
    <3>2. CASE fp.fptr # 0
      <4>1. g = GetFat(v, fp.clust)  BY <3>2
      <4>2. k \in 1..Len(e) /\ k < Len(e)  BY <2>1, <2>2, <2>5, <3>2
      <4>3. fp.clust = e[k]  BY <1>0, <2>3, <3>2 DEF PosOf
      <4>4. F[e[k]] = e[k + 1] /\ e[k] \in Clusters  BY <4>2, ChainKind DEF FileAt
      <4> HIDE DEF g
      <4>5. g.val = F[fp.clust] /\ Shows(g.v, T, F, X)
        BY <4>1, <4>3, <4>4, EntrySeen DEF FileAt
      <4> QED  BY <4>3, <4>4, <4>5 DEF FileAt
    <3> QED  BY <3>1, <3>2
  <2> HIDE DEF g
  <2> QED  BY <1>3, <2>1, <2>4, <2>5, <2>6, ClusterRead
<1> QED  BY <1>2, <1>3

\* What f_read has done after n rounds.
ReadingOn(T, F, X, e, fp, btr, n, m) ==
  /\ FileAt(m.v, T, F, X, e) /\ FileOf(m.fp, e) /\ PosOf(m.fp, e) /\ SameFile(fp, m.fp)
  /\ \/ m.res = "more" /\ m.left \in 1..(btr - n) /\ m.fp.fptr + m.left <= fp.fsize
     \/ m.res = "FR_OK" /\ m.fp.fptr <= fp.fsize

\* One round of f_read.
LEMMA ReadingGoesOn ==
  ASSUME NEW T, NEW F, NEW X, NEW e, NEW fp, fp.fsize \in Nat, Len(e) = SectorsFor(fp.fsize), NEW btr \in Nat,
         NEW n \in Nat, NEW l, ReadingOn(T, F, X, e, fp, btr, n, l), NEW m, m = ReadRound(l)
  PROVE  ReadingOn(T, F, X, e, fp, btr, n + 1, m)
<1>2. CASE l.res # "more"
  <2>1. m = l  BY <1>2 DEF ReadRound
  <2> QED  BY <1>2, <2>1 DEF ReadingOn
<1>3. CASE l.res = "more"
  <2> DEFINE left == l.left
             v == l.v
             f == l.fp
             got == l.did
  <2>1. m = ReadNext(v, f, left, got)  BY <1>3 DEF ReadRound
  <2>2. FileAt(v, T, F, X, e) /\ FileOf(f, e) /\ PosOf(f, e) /\ SameFile(fp, f)
    BY DEF ReadingOn
  <2>3. left \in Nat \ {0} /\ left <= btr - n /\ f.fptr + left <= fp.fsize
    BY <1>3 DEF ReadingOn
  <2> HIDE DEF left, v, f, got
  <2>4. Len(e) = SectorsFor(f.fsize) /\ f.fptr + left <= f.fsize /\ f.fptr \in Nat
    BY <2>2, <2>3 DEF SameFile, FileOf
  <2>5. ReadSome(T, F, X, e, f, left, m)  BY <2>1, <2>2, <2>3, <2>4, ReadFurther
  <2>6. PICK k \in 1..left : m.left = left - k /\ m.fp.fptr = f.fptr + k /\ m.res = IF left - k = 0 THEN "FR_OK" ELSE "more"
    BY <2>5 DEF ReadSome
  <2>7. \/ m.res = "more" /\ m.left \in 1..(btr - (n + 1)) /\ m.fp.fptr + m.left <= fp.fsize
        \/ m.res = "FR_OK" /\ m.fp.fptr <= fp.fsize
    BY <2>3, <2>4, <2>6
  <2>8. SameFile(fp, m.fp)  BY <2>2, <2>5 DEF ReadSome, SameFile, SameEntry
  <2> QED  BY <2>5, <2>7, <2>8 DEF ReadingOn, ReadSome
<1> QED  BY <1>2, <1>3

\* f_read: the file and its chain stay.
LEMMA FileIsRead ==
  ASSUME NEW v, NEW T, NEW F, NEW X, NEW e, FileAt(v, T, F, X, e), NEW fp, FileFits(fp, e),
         NEW size \in Nat, NEW r, r = FRead(v, fp, size), Goes(r) \/ "FA_READ" \in fp.flag
  PROVE  FileDone(T, F, X, e, fp, F, e, r.v, r.fp)
<1> DEFINE btr == Least(size, fp.fsize - fp.fptr)
           start == Left(File(Ok(v), fp, 0), <<>>, btr)
<1>1. /\ FpFields(fp) /\ "FA__ERROR" \notin fp.flag /\ Chained(F, e) /\ fp.fsize \in Nat /\ fp.fptr \in Nat
      /\ Len(e) = SectorsFor(fp.fsize) /\ fp.fptr <= fp.fsize
  BY DEF FileFits, FileOf, FileAt
<1>2. r = ReadData(v, fp, btr)
  <2>1. CASE "FA_READ" \notin fp.flag
    <3>1. r = File(Failed(v, "FR_DENIED"), fp, <<>>)  BY <1>1, <2>1, Zenon DEF FRead
    <3> QED  BY <2>1, <3>1 DEF File, Failed, Goes
  <2>2. CASE "FA_READ" \in fp.flag
    BY <1>1, <2>2, Zenon DEF FRead
  <2> QED  BY <2>1, <2>2
<1>3. start.v = v /\ start.fp = fp /\ start.res = (IF btr = 0 THEN "FR_OK" ELSE "more") /\ start.left = btr
  BY DEF Left, File, Ok
<1>4. btr \in Nat /\ fp.fptr + btr <= fp.fsize  BY <1>1 DEF Least
<1>5. r = Returned(ReadEnd(start, btr))
  BY <1>2 DEF ReadData, ReadEnd
<1> HIDE DEF btr, start
<1>6. PICK f : /\ f[0] = start /\ \A n \in 1..btr : f[n] = ReadRound(f[n - 1])
               /\ ReadEnd(start, btr) = f[btr]
  BY <1>4, ReadLoop
<1> DEFINE m == f[btr]
           S == {n \in 0..btr : ReadingOn(T, F, X, e, fp, btr, n, f[n])}
<1>7. 0 \in S
  <2> DEFINE s == f[0]
  <2>1. s = start  BY <1>6
  <2> HIDE DEF s
  <2>2. ReadingOn(T, F, X, e, fp, btr, 0, s)
    BY <1>1, <1>3, <1>4, <2>1 DEF ReadingOn, FileFits, SameEntry, SameFile
  <2> QED  BY <1>4, <2>2 DEF s
<1>8. \A n \in 0..(btr - 1) : n \in S => n + 1 \in S
  <2> SUFFICES ASSUME NEW n \in 0..(btr - 1), ReadingOn(T, F, X, e, fp, btr, n, f[n])
               PROVE  ReadingOn(T, F, X, e, fp, btr, n + 1, f[n + 1])
    BY <1>4
  <2> DEFINE a == f[n]
             b == f[n + 1]
  <2>1. b = ReadRound(a)
    <3>1. n + 1 \in 1..btr /\ (n + 1) - 1 = n  BY <1>4
    <3> QED  BY <1>6, <3>1
  <2> HIDE DEF a, b
  <2>2. ReadingOn(T, F, X, e, fp, btr, n, a) /\ n \in Nat  BY DEF a
  <2>3. ReadingOn(T, F, X, e, fp, btr, n + 1, b)  BY <1>1, <1>4, <2>1, <2>2, ReadingGoesOn
  <2> QED  BY <2>3 DEF b
<1> HIDE DEF S
<1>9. btr \in S  BY <1>4, <1>7, <1>8, LoopKeeps
<1> HIDE DEF m
<1>10. ReadingOn(T, F, X, e, fp, btr, btr, m)  BY <1>9 DEF S, m
<1>11. m.fp.fptr <= fp.fsize
  <2>1. ~(m.left \in 1..(btr - btr))  BY <1>4
  <2> QED  BY <1>10, <2>1 DEF ReadingOn
<1>12. r.v = m.v /\ r.fp = m.fp  BY <1>5, <1>6 DEF Returned, File, m
<1>13. FileFits(m.fp, e)  BY <1>1, <1>10, <1>11 DEF ReadingOn, FileFits, SameFile
<1>14. Beside(F, e, F, e)  BY BesideSame
<1> QED  BY <1>10, <1>12, <1>13, <1>14 DEF FileDone, ReadingOn, SameFile

----------------------------------------------------------------------------
(* f_lseek.                                                                *)

\* From one sector to the next.
LEMMA SectorOn ==
  ASSUME NEW x \in Nat, x % UnitsPerSector = 0
  PROVE  /\ SectorsFor(x + UnitsPerSector) = SectorsFor(x) + 1 /\ (x + UnitsPerSector) % UnitsPerSector = 0
         /\ x + UnitsPerSector \in Nat /\ x + UnitsPerSector > 0 /\ SectorsFor(x) \in Nat
         /\ SectorsFor(x + 1) = SectorsFor(x) + 1
<1>1. UnitsPerSector \in Nat /\ UnitsPerSector \in 1..UnitsPerSector /\ 1 \in 1..UnitsPerSector
  BY UnitAssumption
<1>2. SectorsFor(x + UnitsPerSector) = SectorsFor(x) + 1 /\ (x + UnitsPerSector) % UnitsPerSector = 0
  BY <1>1, FromBoundary
<1>3. SectorsFor(x + 1) = SectorsFor(x) + 1 /\ SectorsFor(x) \in Nat  BY <1>1, FromBoundary
<1> QED  BY <1>1, <1>2, <1>3

\* f has the entry and the size of fp; a chain it has only if it has a size, or has just begun one.
Kept(fp, f) ==
  /\ SameEntry(fp, f) /\ f.fsize = fp.fsize /\ ("FA__WRITTEN" \in f.flag <=> "FA__WRITTEN" \in fp.flag)
  /\ f.sclust = fp.sclust \/ f.fsize = 0

\* What is left of the change of an object is marked.
ChangeMarked(fp, f) ==
  SameEntry(fp, f) /\ ("FA__WRITTEN" \in f.flag \/ (f.fsize = fp.fsize /\ f.sclust = fp.sclust /\ "FA__WRITTEN" \notin fp.flag))

\* An object at its position but for the buffer.
Lands(f, e) ==
  /\ FileOf(f, e) /\ Long(f, e) /\ (~CanWrite(f) => f.fptr <= f.fsize)
  /\ f.fptr > 0 => SectorsFor(f.fptr) \in 1..Len(e) /\ f.clust = e[SectorsFor(f.fptr)]

\* f_lseek sets the size where it went behind the end.
LEMMA ExtendedFits ==
  ASSUME NEW r, FileStep(r), NEW T, NEW F, NEW X, NEW e, FileAt(r.v, T, F, X, e), Lands(r.fp, e), PosOf(r.fp, e),
         NEW fp, Kept(fp, r.fp), r.fp.fptr > 0 \/ r.fp.sclust = fp.sclust,
         NEW q, q = Extended(r)
  PROVE  /\ Goes(q) /\ FileAt(q.v, T, F, X, e) /\ FileFits(q.fp, e) /\ ChangeMarked(fp, q.fp) /\ q.fp.fptr = r.fp.fptr
<1> DEFINE f == r.fp
           w == r.v
           x == f.fptr
           z == f.flag \cup {"FA__WRITTEN"}
           h == WithSize(f, x, z)
<1>1. FpFields(f) /\ f.fptr \in Nat /\ f.fsize \in Nat  BY DEF Lands, FileOf
<1>2. r = [v |-> w, fp |-> f, res |-> "FR_OK", did |-> r.did]  BY DEF FileStep
<1>3. CASE f.fptr > f.fsize
  <2>1. q.v = w /\ q.res = "FR_OK" /\ q.fp = [f EXCEPT !.fsize = x, !.flag = z]
    <3>0. r.res = "FR_OK" /\ r.fp.fptr > r.fp.fsize /\ ~(r.res # "FR_OK")
          /\ r = [v |-> r.v, fp |-> r.fp, res |-> r.res, did |-> r.did]
      BY <1>2, <1>3 DEF FileStep
    <3>1. q = [r EXCEPT !.fp.fsize = r.fp.fptr, !.fp.flag = @ \cup {"FA__WRITTEN"}]
      BY <3>0, Zenon DEF Extended
    <3>2. q.v = w /\ q.res = "FR_OK"  BY <3>0, <3>1
    <3>3. q.fp = [r.fp EXCEPT !.fsize = r.fp.fptr, !.flag = @ \cup {"FA__WRITTEN"}]
      BY <3>0, <3>1
    <3> QED  BY <3>2, <3>3
  <2>2. q.fp = h  BY <2>1 DEF WithSize
  <2>3. h = WithSize(f, x, z)  OBVIOUS
  <2> DEFINE p == q.fp
  <2>4. p = h /\ x = f.fptr /\ z = f.flag \cup {"FA__WRITTEN"}  BY <2>2
  <2> HIDE DEF h, z, x, p
  <2>5. FpFields(h) /\ h =
           [flag |-> z, fptr |-> f.fptr, fsize |-> x, sclust |-> f.sclust, clust |-> f.clust,
            dsect |-> f.dsect, buf |-> f.buf, dirSect |-> f.dirSect, slot |-> f.slot]
    BY <1>1, <2>3, SizeSet
  <2> HIDE DEF f
  <2>6. "FA__ERROR" \notin z /\ ("FA__DIRTY" \in z <=> "FA__DIRTY" \in f.flag)
    BY <2>4 DEF Lands, FileOf, f
  <2>7. FileOf(p, e)  BY <1>1, <2>4, <2>5, <2>6 DEF FileOf, Buffered, Lands, f
  <2>8. PosOf(p, e)  BY <2>4, <2>5 DEF PosOf, f
  <2>9. Len(e) = SectorsFor(x)
    <3>1. SectorsFor(f.fsize) \in Nat /\ SectorsFor(x) \in Nat /\ SectorsFor(f.fsize) <= SectorsFor(x)
      BY <1>1, <1>3, <2>4, MoreSectors
    <3> QED  BY <2>4, <3>1 DEF Lands, Long, Larger, f
  <2>10. FileFits(p, e) /\ p.fptr = f.fptr  BY <1>1, <2>4, <2>5, <2>7, <2>8, <2>9 DEF FileFits
  <2>11. ChangeMarked(fp, p)
    <3>1. SameEntry(fp, f)  BY DEF Kept, f
    <3> QED  BY <2>4, <2>5, <3>1 DEF ChangeMarked, SameEntry, CanWrite
  <2> QED  BY <2>1, <2>10, <2>11 DEF p, f, w, Goes
<1>4. CASE ~(f.fptr > f.fsize)
  <2>1. q = r
    <3>1. ~(r.res # "FR_OK") /\ ~(r.res = "FR_OK" /\ r.fp.fptr > r.fp.fsize)  BY <1>2, <1>4
    <3> QED  BY <3>1, Zenon DEF Extended
  <2>2. Len(e) = SectorsFor(f.fsize)
    <3>1. SectorsFor(f.fptr) \in Nat /\ SectorsFor(f.fsize) \in Nat /\ SectorsFor(f.fptr) <= SectorsFor(f.fsize)
      BY <1>1, <1>4, MoreSectors
    <3> QED  BY <3>1 DEF Lands, Long, Larger
  <2>3. FileFits(f, e)  BY <1>1, <1>4, <2>2 DEF FileFits, Lands
  <2>4. ChangeMarked(fp, f)  BY <1>1, <1>4 DEF ChangeMarked, Kept
  <2> QED  BY <1>2, <2>1, <2>3, <2>4 DEF Goes
<1> QED  BY <1>3, <1>4

\* f_lseek loads the sector where it arrived.
LEMMA SettledFits ==
  ASSUME NEW v, NEW T, NEW F, NEW X, NEW e, FileAt(v, T, F, X, e), NEW f, Lands(f, e), NEW s,
         ~AtBoundary(f) => s = DataSector(f.clust), NEW fp, Kept(fp, f), f.fptr > 0 \/ f.sclust = fp.sclust,
         NEW q, q = Settled(v, f, s)
  PROVE  /\ Goes(q) /\ FileAt(q.v, T, F, X, e) /\ FileFits(q.fp, e) /\ ChangeMarked(fp, q.fp) /\ q.fp.fptr = f.fptr
<1> DEFINE r == IF AtBoundary(f) THEN File(Ok(v), f, 0) ELSE Placed(LoadSector(v, f, s), s)
<1>1. q = Extended(r)  BY DEF Settled
<1>2. CASE AtBoundary(f)
  <2>1. r = File(Ok(v), f, 0)  BY <1>2
  <2>2. FileStep(r) /\ r.v = v /\ r.fp = f  BY <2>1 DEF File, Ok, FileStep, Goes
  <2>3. PosOf(f, e)  BY <1>2 DEF PosOf, Lands, AtBoundary
  <2> HIDE DEF r
  <2> QED  BY <1>1, <2>2, <2>3, ExtendedFits
<1>3. CASE ~AtBoundary(f)
  <2>1. r = Placed(LoadSector(v, f, s), s)  BY <1>3
  <2> HIDE DEF r
  <2>2. "FA__DIRTY" \in f.flag => f.dsect \in DataSectors /\ f.dsect \notin T
    BY FileSectors DEF Lands, FileOf, Buffered, FileAt
  <2>3. /\ FileStep(r) /\ Shows(r.v, T, F, X) /\ SameButSector(f, r.fp) /\ r.fp.dsect = s
        /\ "FA__DIRTY" \in r.fp.flag => "FA__DIRTY" \in f.flag /\ f.dsect = s
    <3>1. FpFields(f)  BY DEF Lands, FileOf
    <3> QED  BY <2>1, <2>2, <3>1, SectorPlaced DEF FileAt
  <2> DEFINE p == r.fp
  <2>4. SameButSector(f, p) /\ p.dsect = s /\ ("FA__DIRTY" \in p.flag => "FA__DIRTY" \in f.flag /\ f.dsect = s)
    BY <2>3
  <2> HIDE DEF p
  <2>5. "FA__ERROR" \notin p.flag /\ (CanWrite(p) <=> CanWrite(f)) /\ ("FA__WRITTEN" \in p.flag <=> "FA__WRITTEN" \in f.flag)
    BY <2>4 DEF SameButSector, CanWrite, Lands, FileOf
  <2>6. Lands(p, e) /\ p.fptr = f.fptr /\ p.sclust = f.sclust
    <3>1. FileOf(p, e)  BY <2>4, <2>5 DEF SameButSector, Lands, FileOf, Buffered
    <3> QED  BY <2>4, <2>5, <3>1 DEF SameButSector, Lands, Long
  <2>7. PosOf(p, e)  BY <1>3, <2>4, <2>6 DEF PosOf, Lands, SameButSector
  <2>8. Kept(fp, p)  BY <2>4, <2>5 DEF Kept, SameEntry, SameButSector
  <2>9. FileAt(r.v, T, F, X, e)  BY <2>3 DEF FileAt
  <2>10. Lands(r.fp, e) /\ PosOf(r.fp, e) /\ Kept(fp, r.fp) /\ r.fp.fptr = f.fptr /\ r.fp.sclust = f.sclust
    BY <2>6, <2>7, <2>8 DEF p
  <2> QED  BY <1>1, <2>3, <2>9, <2>10, ExtendedFits
<1> QED  BY <1>2, <1>3

\* On the way: the object is at the start of cluster c, and left units are to go.
MoveAt(T, F, X, e, fp, ofs, v, f, left, c) ==
  /\ FileAt(v, T, F, X, e) /\ FileOf(f, e) /\ AtBoundary(f)
  /\ SectorsFor(f.fptr) + 1 \in 1..Len(e) /\ c = e[SectorsFor(f.fptr) + 1] /\ f.clust = c
  /\ Len(e) = Larger(SectorsFor(f.fptr) + 1, SectorsFor(f.fsize))
  /\ left \in Nat \ {0} /\ f.fptr + left = ofs /\ (~CanWrite(f) => ofs <= f.fsize) /\ Kept(fp, f)

\* At its end.
MovedTo(T, F, X, e, fp, ofs, m) ==
  /\ Goes(m) /\ FileAt(m.v, T, F, X, e) /\ FileFits(m.fp, e) /\ ChangeMarked(fp, m.fp)
  /\ m.fp.fptr = ofs \/ (FatFull(F) /\ CanWrite(fp))

\* The object further on, with the cluster that it comes to.
Further(f, x, c) == [f EXCEPT !.clust = c, !.fptr = x]

\* What a file object is when f_lseek has moved on by one cluster.
LEMMA FurtherKept ==
  ASSUME NEW fp, FpFields(fp), NEW x, NEW c, NEW f, f = Further(fp, x, c)
  PROVE  FpFields(f) /\ f =
           [flag |-> fp.flag, fptr |-> x, fsize |-> fp.fsize, sclust |-> fp.sclust, clust |-> c,
            dsect |-> fp.dsect, buf |-> fp.buf, dirSect |-> fp.dirSect, slot |-> fp.slot]
<1> DEFINE g == [fp EXCEPT !.clust = c]
<1>2. FpFields(g) /\ g = [flag |-> fp.flag, fptr |-> fp.fptr, fsize |-> fp.fsize, sclust |-> fp.sclust, clust |-> c,
              dsect |-> fp.dsect, buf |-> fp.buf, dirSect |-> fp.dirSect, slot |-> fp.slot]
  BY FpSet
<1>3. f = [g EXCEPT !.fptr = x]  BY DEF Further
<1> HIDE DEF g
<1>4. [g EXCEPT !.fptr = x] = [flag |-> fp.flag, fptr |-> x, fsize |-> fp.fsize, sclust |-> fp.sclust, clust |-> c,
              dsect |-> fp.dsect, buf |-> fp.buf, dirSect |-> fp.dirSect, slot |-> fp.slot]
  BY <1>2, FpSet
<1> QED  BY <1>3, <1>4 DEF FpFields

\* The last stretch.
LEMMA Landed ==
  ASSUME NEW v, NEW T, NEW F, NEW X, NEW e, NEW fp, NEW ofs, NEW f, NEW left, NEW c,
         MoveAt(T, F, X, e, fp, ofs, v, f, left, c), left <= UnitsPerSector,
         NEW m, m = Moved(Land(v, f, left, c))
  PROVE  MovedTo(T, F, X, e, fp, ofs, m)
<1> DEFINE x == f.fptr + left
           h == AtUnit(f, x)
           s == DataSector(c)
           q == Settled(v, h, s)
<1>1. FpFields(f) /\ f.fptr \in Nat /\ f.fsize \in Nat /\ f.fptr % UnitsPerSector = 0
      /\ UnitsPerSector \in Nat /\ UnitsPerSector > 1 /\ left \in 1..UnitsPerSector
  BY UnitAssumption DEF MoveAt, FileOf, AtBoundary
<1>2. c \in Clusters
  <2>1. \A i \in 1..Len(e) : e[i] \in Clusters  BY ChainKind DEF MoveAt, FileAt
  <2> QED  BY <2>1 DEF MoveAt
<1>3. m = Moved(q)
  BY <1>2, Zenon DEF Land, AtUnit
<1>4. h = AtUnit(f, x) /\ x \in Nat /\ x > 0 /\ x = f.fptr + left  BY <1>1
<1>5. SectorsFor(x) = SectorsFor(f.fptr) + 1  BY <1>1, FromBoundary
<1> HIDE DEF x, h
<1>6. FpFields(h) /\ h =
           [flag |-> f.flag, fptr |-> x, fsize |-> f.fsize, sclust |-> f.sclust, clust |-> f.clust,
            dsect |-> f.dsect, buf |-> f.buf, dirSect |-> f.dirSect, slot |-> f.slot]
  BY <1>1, <1>4, UnitKept
<1>7. FileOf(h, e) /\ (CanWrite(h) <=> CanWrite(f))
  BY <1>4, <1>6 DEF MoveAt, FileOf, Buffered, CanWrite
<1>8. Lands(h, e)
  BY <1>4, <1>5, <1>6, <1>7 DEF MoveAt, Lands, Long
<1>9. Kept(fp, h)  BY <1>6, <1>7 DEF MoveAt, Kept, SameEntry
<1>10. q = Settled(v, h, s) /\ s = DataSector(h.clust) /\ FileAt(v, T, F, X, e) /\ h.fptr > 0
  BY <1>4, <1>6 DEF MoveAt
<1> HIDE DEF q, s
<1>11. Goes(q) /\ FileAt(q.v, T, F, X, e) /\ FileFits(q.fp, e) /\ ChangeMarked(fp, q.fp) /\ q.fp.fptr = h.fptr
  BY <1>8, <1>9, <1>10, SettledFits
<1>12. m.v = q.v /\ m.fp = q.fp /\ m.res = q.res  BY <1>3 DEF Moved
<1>13. m.fp.fptr = ofs  BY <1>4, <1>6, <1>11, <1>12 DEF MoveAt
<1> QED  BY <1>11, <1>12, <1>13 DEF MovedTo, Goes

\* A cluster on: the next one has been found.
GoesOn(T, F, X, e, fp, ofs, f, g, left) ==
  /\ FileOf(f, e) /\ AtBoundary(f) /\ Kept(fp, f) /\ FileAt(g.v, T, F, X, e)
  /\ SectorsFor(f.fptr) + 2 \in 1..Len(e) /\ g.val = e[SectorsFor(f.fptr) + 2]
  /\ Len(e) = Larger(SectorsFor(f.fptr) + 2, SectorsFor(f.fsize))
  /\ left \in Nat /\ left > UnitsPerSector /\ f.fptr + left = ofs /\ (~CanWrite(f) => ofs <= f.fsize)

\* A round of f_lseek that found the next cluster.
LEMMA GoneOn ==
  ASSUME NEW T, NEW F, NEW X, NEW e, NEW fp, NEW ofs, NEW f, NEW g, NEW left,
         GoesOn(T, F, X, e, fp, ofs, f, g, left), NEW m, m = FollowOn(g, f, left)
  PROVE  m.res = "more" /\ m.ofs < left /\ MoveAt(T, F, X, e, fp, ofs, m.v, m.fp, m.ofs, m.clst)
<1>0. /\ FileOf(f, e) /\ AtBoundary(f) /\ Kept(fp, f) /\ FileAt(g.v, T, F, X, e)
      /\ SectorsFor(f.fptr) + 2 \in 1..Len(e) /\ g.val = e[SectorsFor(f.fptr) + 2]
      /\ Len(e) = Larger(SectorsFor(f.fptr) + 2, SectorsFor(f.fsize))
      /\ left \in Nat /\ left > UnitsPerSector /\ f.fptr + left = ofs /\ (~CanWrite(f) => ofs <= f.fsize)
  BY DEF GoesOn
<1> DEFINE x == f.fptr + UnitsPerSector
           h == Further(f, x, g.val)
<1>1. FpFields(f) /\ f.fptr \in Nat /\ f.fsize \in Nat /\ f.fptr % UnitsPerSector = 0
      /\ UnitsPerSector \in Nat /\ UnitsPerSector > 1 /\ UnitsPerSector \in 1..UnitsPerSector
  BY <1>0, UnitAssumption DEF FileOf, AtBoundary
<1>2. g.val \in Clusters /\ g.val # 0 /\ g.val # Max32
  <2>1. \A i \in 1..Len(e) : e[i] \in Clusters  BY <1>0, ChainKind DEF FileAt
  <2> QED  BY <1>0, <2>1, Numbers
<1>3. m = Moving(g.v, h, left - UnitsPerSector, g.val)
  <2>1. m = Moving(g.v, [f EXCEPT !.clust = g.val, !.fptr = @ + UnitsPerSector], left - UnitsPerSector, g.val)
    BY <1>2, Zenon DEF FollowOn
  <2> QED  BY <2>1 DEF Further
<1>4. SectorsFor(x) = SectorsFor(f.fptr) + 1 /\ x % UnitsPerSector = 0 /\ x \in Nat /\ SectorsFor(f.fptr) \in Nat
  BY <1>1, SectorOn
<1>5. h = Further(f, x, g.val) /\ x = f.fptr + UnitsPerSector  OBVIOUS
<1> HIDE DEF h, x
<1>6. FpFields(h) /\ h =
           [flag |-> f.flag, fptr |-> x, fsize |-> f.fsize, sclust |-> f.sclust, clust |-> g.val,
            dsect |-> f.dsect, buf |-> f.buf, dirSect |-> f.dirSect, slot |-> f.slot]
  BY <1>1, <1>5, FurtherKept
<1>7. FileOf(h, e) /\ (CanWrite(h) <=> CanWrite(f)) /\ AtBoundary(h)
  BY <1>0, <1>4, <1>6 DEF FileOf, Buffered, CanWrite, AtBoundary
<1>8. Kept(fp, h)  BY <1>0, <1>6, <1>7 DEF Kept, SameEntry
<1>9. m.v = g.v /\ m.fp = h /\ m.res = "more" /\ m.ofs = left - UnitsPerSector /\ m.clst = g.val
  BY <1>3 DEF Moving
<1>10. m.ofs < left /\ m.ofs \in Nat \ {0} /\ h.fptr + m.ofs = ofs
  BY <1>0, <1>1, <1>5, <1>6, <1>9
<1>11. SectorsFor(h.fptr) + 1 = SectorsFor(f.fptr) + 2  BY <1>4, <1>6
<1> QED  BY <1>0, <1>6, <1>7, <1>8, <1>9, <1>10, <1>11 DEF MoveAt

HasMovedOn(T, F, X, e, fp, ofs, left, m) ==
  \E G, y : /\ Beside(F, e, G, y)
            /\ \/ m.res = "more" /\ m.ofs < left /\ MoveAt(T, G, X, y, fp, ofs, m.v, m.fp, m.ofs, m.clst)
               \/ MovedTo(T, G, X, y, fp, ofs, m)

\* A round of f_lseek goes on, arrives, or finds the disk full.
LEMMA MovedOn ==
  ASSUME NEW v, NEW T, NEW F, NEW X, NEW e, NEW fp, NEW ofs, NEW f, NEW left, NEW c,
         MoveAt(T, F, X, e, fp, ofs, v, f, left, c), NEW m, m = MoveNext(v, f, left, c)
  PROVE  HasMovedOn(T, F, X, e, fp, ofs, left, m)
<1> DEFINE k == SectorsFor(f.fptr) + 1
<1>1. /\ FpFields(f) /\ f.fptr \in Nat /\ f.fsize \in Nat /\ UnitsPerSector \in Nat /\ UnitsPerSector > 1
      /\ FileAt(v, T, F, X, e) /\ F \in Fats /\ Chained(F, e) /\ Beside(F, e, F, e) /\ left \in Nat
      /\ FileOf(f, e) /\ Kept(fp, f) /\ AtBoundary(f) /\ f.fptr + left = ofs /\ (~CanWrite(f) => ofs <= f.fsize)
      /\ f.fptr % UnitsPerSector = 0
  BY UnitAssumption, BesideSame DEF MoveAt, FileOf, FileAt, Shows, AtBoundary
<1>2. k \in 1..Len(e) /\ c = e[k] /\ f.clust = c /\ Len(e) = Larger(k, SectorsFor(f.fsize)) /\ Len(e) \in Nat
      /\ SectorsFor(f.fsize) \in Nat /\ k = SectorsFor(f.fptr) + 1 /\ k + 1 = SectorsFor(f.fptr) + 2
  <2>1. SectorsFor(f.fsize) \in Nat /\ SectorsFor(f.fptr) \in Nat
    <3>1. f.fsize <= f.fsize /\ f.fptr <= f.fptr  BY <1>1
    <3> QED  BY <1>1, <3>1, MoreSectors
  <2>2. Chained(F, e)  BY <1>1
  <2>3. Len(e) \in Nat  BY <2>2, ChainKind
  <2> QED  BY <2>1, <2>3 DEF MoveAt
<1> HIDE DEF k
<1>3. c \in Clusters /\ F[c] = IF k < Len(e) THEN e[k + 1] ELSE LastLink
  <2>1. Chained(F, e) /\ k \in 1..Len(e)  BY <1>1, <1>2
  <2>2. \A i \in 1..Len(e) : e[i] \in Clusters  BY <2>1, ChainKind
  <2>3. \A i \in 1..Len(e) : F[e[i]] = IF i < Len(e) THEN e[i + 1] ELSE LastLink
    BY <2>1, ChainKind
  <2> QED  BY <1>2, <2>1, <2>2, <2>3
<1>4. CASE left <= UnitsPerSector
  <2>1. m = Moved(Land(v, f, left, c))  BY <1>4, Zenon DEF MoveNext
  <2>2. MovedTo(T, F, X, e, fp, ofs, m)  BY <1>4, <2>1, Landed
  <2> QED  BY <1>1, <2>2 DEF HasMovedOn
<1>5. CASE ~(left <= UnitsPerSector)
  <2> DEFINE g == IF CanWrite(f) THEN CreateChain(v, c) ELSE GetFat(v, c)
  <2>1. m = FollowOn(g, f, left)  BY <1>5, Zenon DEF MoveNext
  <2>2. left > UnitsPerSector  BY <1>1, <1>5
  <2>3. ~CanWrite(f) => k < Len(e)
    <3> SUFFICES ASSUME ~CanWrite(f) PROVE k < Len(e)  OBVIOUS
    <3> DEFINE x == f.fptr + UnitsPerSector
               y == x + 1
    <3>1. SectorsFor(x) = k /\ x % UnitsPerSector = 0 /\ x \in Nat /\ 1 \in 1..UnitsPerSector
      <4>1. f.fptr \in Nat /\ f.fptr % UnitsPerSector = 0  BY <1>1
      <4>2. SectorsFor(x) = SectorsFor(f.fptr) + 1 /\ x % UnitsPerSector = 0 /\ x \in Nat
        BY <4>1, SectorOn
      <4> QED  BY <1>1, <1>2, <4>2
    <3>2. y \in Nat /\ y <= f.fsize  BY <1>1, <2>2
    <3> HIDE DEF x
    <3>3. SectorsFor(y) = k + 1  BY <3>1, FromBoundary
    <3> HIDE DEF y
    <3>4. SectorsFor(y) <= SectorsFor(f.fsize)  BY <1>1, <3>2, MoreSectors
    <3> QED  BY <1>2, <3>3, <3>4 DEF Larger
  <2>4. CASE k < Len(e)
    <3>1. F[c] \in Clusters  BY <1>1, <1>2, <1>3, <2>4, ChainKind
    <3>2. Shows(g.v, T, F, X) /\ g.val = e[k + 1]
      <4>1. CASE CanWrite(f)
        <5>1. g = CreateChain(v, c)  BY <4>1
        <5> HIDE DEF g
        <5> QED  BY <1>1, <1>3, <2>4, <3>1, <5>1, ChainFollowed DEF FileAt
      <4>2. CASE ~CanWrite(f)
        <5>1. g = GetFat(v, c)  BY <4>2
        <5> HIDE DEF g
        <5> QED  BY <1>1, <1>3, <2>4, <5>1, EntrySeen DEF FileAt
      <4> QED  BY <4>1, <4>2
    <3>3. FileAt(g.v, T, F, X, e) /\ k + 1 \in 1..Len(e) /\ Len(e) = Larger(k + 1, SectorsFor(f.fsize))
      BY <1>1, <1>2, <2>4, <3>2 DEF FileAt, Larger
    <3> HIDE DEF g
    <3>4. m.res = "more" /\ m.ofs < left /\ MoveAt(T, F, X, e, fp, ofs, m.v, m.fp, m.ofs, m.clst)
      <4>1. SectorsFor(f.fptr) + 2 \in 1..Len(e) /\ g.val = e[SectorsFor(f.fptr) + 2]
            /\ Len(e) = Larger(SectorsFor(f.fptr) + 2, SectorsFor(f.fsize)) /\ FileAt(g.v, T, F, X, e)
        BY <1>2, <3>2, <3>3
      <4>2. GoesOn(T, F, X, e, fp, ofs, f, g, left)  BY <1>1, <2>2, <4>1 DEF GoesOn
      <4> QED  BY <2>1, <4>2, GoneOn
    <3> QED  BY <1>1, <3>4 DEF HasMovedOn
  <2>5. CASE k = Len(e)
    <3>1. CanWrite(f)  BY <1>2, <2>3, <2>5
    <3>2. g = CreateChain(v, c)  BY <3>1
    <3> HIDE DEF g
    <3>3. Grown(T, F, X, c, g)  BY <1>1, <1>3, <2>5, <3>2, ChainFollowed DEF FileAt
    <3>4. LastOf(e) = c
      <4>1. Len(e) > 0  BY <1>2
      <4>2. LastOf(e) = e[Len(e)]  BY <1>1, <4>1, ChainKind
      <4> QED  BY <1>2, <2>5, <4>2
    <3>5. CASE g.val = 0 /\ Shows(g.v, T, F, X) /\ FatFull(F)
      <4> DEFINE x == f.fptr + UnitsPerSector
                 h == AtUnit(f, x)
                 q == Settled(g.v, h, NoSector)
      <4>1. m = Moved(q)
        <5>1. m = Moved(Settled(g.v, [f EXCEPT !.fptr = @ + UnitsPerSector], NoSector))
          <6>1. g.val = 0 /\ CanWrite(f) /\ g.val # Max32 /\ g.val \notin Clusters
            BY <3>1, <3>5, Numbers
          <6> QED  BY <2>1, <6>1, Zenon DEF FollowOn
        <5> QED  BY <5>1 DEF AtUnit
      <4>2. SectorsFor(x) = k /\ x % UnitsPerSector = 0 /\ x \in Nat /\ x > 0
        BY <1>1, <1>2, SectorOn
      <4>3. h = AtUnit(f, x)  OBVIOUS
      <4> HIDE DEF h, x
      <4>4. FpFields(h) /\ h =
           [flag |-> f.flag, fptr |-> x, fsize |-> f.fsize, sclust |-> f.sclust, clust |-> f.clust,
            dsect |-> f.dsect, buf |-> f.buf, dirSect |-> f.dirSect, slot |-> f.slot]
        BY <1>1, <4>3, UnitKept
      <4>5. FileOf(h, e) /\ CanWrite(h) /\ AtBoundary(h)
        BY <1>1, <3>1, <4>2, <4>4 DEF FileOf, Buffered, CanWrite, AtBoundary
      <4>6. Lands(h, e)  BY <1>2, <4>2, <4>4, <4>5 DEF Lands, Long
      <4>7. Kept(fp, h)  BY <1>1, <3>1, <4>4, <4>5 DEF Kept, SameEntry
      <4>8. FileAt(g.v, T, F, X, e) /\ h.fptr > 0 /\ q = Settled(g.v, h, NoSector)
        BY <1>1, <3>5, <4>2, <4>4 DEF FileAt
      <4> HIDE DEF q
      <4>9. Goes(q) /\ FileAt(q.v, T, F, X, e) /\ FileFits(q.fp, e) /\ ChangeMarked(fp, q.fp)
        BY <4>5, <4>6, <4>7, <4>8, SettledFits
      <4>10. m.v = q.v /\ m.fp = q.fp /\ m.res = q.res  BY <4>1 DEF Moved
      <4>11. CanWrite(fp)  BY <1>1, <3>1 DEF Kept, SameEntry
      <4>12. MovedTo(T, F, X, e, fp, ofs, m)  BY <3>5, <4>9, <4>10, <4>11 DEF MovedTo, Goes
      <4> QED  BY <1>1, <4>12 DEF HasMovedOn
    <3>6. CASE g.val \in Clusters /\ g.val # c /\ F[g.val] = 0 /\ Shows(g.v, T, Linked(F, c, g.val), X)
      <4> DEFINE n == g.val
                 G == Linked(F, LastOf(e), n)
                 y == Append(e, n)
      <4>1. n \in Clusters /\ F[n] = 0 /\ G = Linked(F, LastOf(e), n) /\ y = Append(e, n) /\ n = g.val
        BY <3>6
      <4>2. Shows(g.v, T, G, X)  BY <3>4, <3>6
      <4> HIDE DEF G, y, n
      <4>3. GrownBy(F, e, n, G, y)  BY <1>1, <4>1, GrownPath
      <4>4. Off(T, G, y)  BY <1>1, <4>3, OffAfter DEF FileAt, GrownBy
      <4>5. FileAt(g.v, T, G, X, y)  BY <4>2, <4>3, <4>4 DEF FileAt, Chained, GrownBy
      <4>6. e # <<>>  BY <1>1, <1>2, ChainKind
      <4>7. HeadOf(y) = HeadOf(e)  BY <4>3, <4>6 DEF GrownBy, HeadOf
      <4>8. Buffered(f, y)
        <5>1. 1..Len(e) \subseteq 1..Len(y)  BY <1>2, <4>3 DEF GrownBy
        <5>2. Buffered(f, e)  BY <1>1 DEF FileOf
        <5> QED  BY <4>3, <5>1, <5>2 DEF Buffered, SectorIn, GrownBy
      <4>9. FileOf(f, y)  BY <1>1, <4>7, <4>8 DEF FileOf
      <4>10. k + 1 \in 1..Len(y) /\ g.val = y[k + 1] /\ Len(y) = Larger(k + 1, SectorsFor(f.fsize))
        BY <1>2, <2>5, <4>1, <4>3 DEF GrownBy, Larger
      <4>11. m.res = "more" /\ m.ofs < left /\ MoveAt(T, G, X, y, fp, ofs, m.v, m.fp, m.ofs, m.clst)
        <5>1. SectorsFor(f.fptr) + 2 \in 1..Len(y) /\ g.val = y[SectorsFor(f.fptr) + 2]
              /\ Len(y) = Larger(SectorsFor(f.fptr) + 2, SectorsFor(f.fsize))
          BY <1>2, <4>10
        <5>2. GoesOn(T, G, X, y, fp, ofs, f, g, left)
          BY <1>1, <2>2, <4>5, <4>9, <5>1 DEF GoesOn
        <5> QED  BY <2>1, <5>2, GoneOn
      <4>12. Beside(F, e, G, y)  BY <4>3 DEF GrownBy
      <4> QED  BY <4>11, <4>12 DEF HasMovedOn
    <3> QED  BY <3>3, <3>5, <3>6 DEF Grown, FatFull
  <2> QED  BY <1>2, <2>4, <2>5
<1> QED  BY <1>4, <1>5

\* What f_lseek has done after n rounds.
MovingOn(T, F, X, e, fp, ofs, N, n, m) ==
  \E G, y : /\ Beside(F, e, G, y)
            /\ \/ /\ m.res = "more" /\ m.ofs <= N - n
                  /\ MoveAt(T, G, X, y, fp, ofs, m.v, m.fp, m.ofs, m.clst)
               \/ MovedTo(T, G, X, y, fp, ofs, m)

\* One round of f_lseek.
LEMMA MovingGoesOn ==
  ASSUME NEW T, NEW F, NEW X, NEW e, NEW fp, NEW ofs, NEW N \in Nat, NEW n \in Nat, NEW l,
         MovingOn(T, F, X, e, fp, ofs, N, n, l), NEW m, m = MoveRound(l)
  PROVE  MovingOn(T, F, X, e, fp, ofs, N, n + 1, m)
<1>1. PICK G, y : /\ Beside(F, e, G, y)
                  /\ \/ /\ l.res = "more" /\ l.ofs <= N - n
                        /\ MoveAt(T, G, X, y, fp, ofs, l.v, l.fp, l.ofs, l.clst)
                     \/ MovedTo(T, G, X, y, fp, ofs, l)
  BY DEF MovingOn
<1>2. CASE MovedTo(T, G, X, y, fp, ofs, l)
  <2>1. l.res # "more"  BY <1>2 DEF MovedTo, Goes
  <2>2. m = l  BY <2>1 DEF MoveRound
  <2> QED  BY <1>1, <1>2, <2>2 DEF MovingOn
<1>3. CASE l.res = "more" /\ l.ofs <= N - n /\ MoveAt(T, G, X, y, fp, ofs, l.v, l.fp, l.ofs, l.clst)
  <2> DEFINE v == l.v
             f == l.fp
             left == l.ofs
             c == l.clst
  <2>1. m = MoveNext(v, f, left, c)  BY <1>3 DEF MoveRound
  <2>2. MoveAt(T, G, X, y, fp, ofs, v, f, left, c) /\ left <= N - n  BY <1>3
  <2> HIDE DEF v, f, left, c
  <2>3. HasMovedOn(T, G, X, y, fp, ofs, left, m)  BY <2>1, <2>2, MovedOn
  <2>4. PICK H, z : /\ Beside(G, y, H, z)
                    /\ \/ m.res = "more" /\ m.ofs < left /\ MoveAt(T, H, X, z, fp, ofs, m.v, m.fp, m.ofs, m.clst)
                       \/ MovedTo(T, H, X, z, fp, ofs, m)
    BY <2>3 DEF HasMovedOn
  <2>5. Beside(F, e, H, z)  BY <1>1, <2>4, BesideOn
  <2>6. CASE MovedTo(T, H, X, z, fp, ofs, m)
    BY <2>5, <2>6 DEF MovingOn
  <2>7. CASE m.res = "more" /\ m.ofs < left /\ MoveAt(T, H, X, z, fp, ofs, m.v, m.fp, m.ofs, m.clst)
    <3>1. left \in Nat /\ m.ofs \in Nat  BY <2>2, <2>7 DEF MoveAt
    <3>2. m.ofs <= N - (n + 1)  BY <2>2, <2>7, <3>1
    <3> QED  BY <2>5, <2>7, <3>2 DEF MovingOn
  <2> QED  BY <2>4, <2>6, <2>7
<1> QED  BY <1>1, <1>2, <1>3

\* The loop of f_lseek along the chain.
LEMMA MovedAlong ==
  ASSUME NEW v, NEW T, NEW F, NEW X, NEW e, NEW fp, NEW ofs, NEW f, NEW left, NEW c,
         MoveAt(T, F, X, e, fp, ofs, v, f, left, c), NEW r, r = MoveOn(v, f, left, c)
  PROVE  \E G, y : Beside(F, e, G, y) /\ MovedTo(T, G, X, y, fp, ofs, r)
<1> DEFINE start == Moving(v, f, left, c)
<1>1. start.res = "more" /\ start.v = v /\ start.fp = f /\ start.ofs = left /\ start.clst = c
  BY DEF Moving
<1>2. r = Returned(MoveEnd(start, left))  BY DEF MoveOn, MoveEnd
<1>3. left \in Nat  BY DEF MoveAt
<1> HIDE DEF start
<1>4. PICK w : /\ w[0] = start /\ \A n \in 1..left : w[n] = MoveRound(w[n - 1])
               /\ MoveEnd(start, left) = w[left]
  BY <1>3, MoveLoop
<1> DEFINE m == w[left]
           S == {n \in 0..left : MovingOn(T, F, X, e, fp, ofs, left, n, w[n])}
<1>5. 0 \in S
  <2> DEFINE s == w[0]
  <2>1. s = start  BY <1>4
  <2> HIDE DEF s
  <2>2. Beside(F, e, F, e)  BY BesideSame
  <2>3. s.ofs <= left - 0  BY <1>1, <1>3, <2>1
  <2>4. MovingOn(T, F, X, e, fp, ofs, left, 0, s)  BY <1>1, <2>1, <2>2, <2>3 DEF MovingOn
  <2> QED  BY <1>3, <2>4 DEF s
<1>6. \A n \in 0..(left - 1) : n \in S => n + 1 \in S
  <2> SUFFICES ASSUME NEW n \in 0..(left - 1), MovingOn(T, F, X, e, fp, ofs, left, n, w[n])
               PROVE  MovingOn(T, F, X, e, fp, ofs, left, n + 1, w[n + 1])
    BY <1>3
  <2> DEFINE a == w[n]
             b == w[n + 1]
  <2>1. b = MoveRound(a)
    <3>1. n + 1 \in 1..left /\ (n + 1) - 1 = n  BY <1>3
    <3> QED  BY <1>4, <3>1
  <2> HIDE DEF a, b
  <2>2. MovingOn(T, F, X, e, fp, ofs, left, n, a) /\ n \in Nat  BY DEF a
  <2>3. MovingOn(T, F, X, e, fp, ofs, left, n + 1, b)  BY <1>3, <2>1, <2>2, MovingGoesOn
  <2> QED  BY <2>3 DEF b
<1> HIDE DEF S
<1>7. left \in S  BY <1>3, <1>5, <1>6, LoopKeeps
<1> HIDE DEF m
<1>8. MovingOn(T, F, X, e, fp, ofs, left, left, m)  BY <1>7 DEF S, m
<1>9. PICK G, y : /\ Beside(F, e, G, y)
                  /\ \/ /\ m.res = "more" /\ m.ofs <= left - left
                        /\ MoveAt(T, G, X, y, fp, ofs, m.v, m.fp, m.ofs, m.clst)
                     \/ MovedTo(T, G, X, y, fp, ofs, m)
  BY <1>8 DEF MovingOn
<1>10. MovedTo(T, G, X, y, fp, ofs, m)
  <2>1. ~(m.ofs \in Nat \ {0} /\ m.ofs <= left - left)  BY <1>3
  <2> QED  BY <1>9, <2>1 DEF MoveAt
<1>11. r.v = m.v /\ r.fp = m.fp /\ r.res = m.res  BY <1>2, <1>4 DEF Returned, File, m
<1> QED  BY <1>9, <1>10, <1>11 DEF MovedTo, Goes

\* An object with a chain that it has just begun.
Begun(fp, c) == [fp EXCEPT !.sclust = c, !.clust = c]

\* What a file object is when f_lseek has given it a first cluster.
LEMMA BegunKept ==
  ASSUME NEW fp, FpFields(fp), NEW c, NEW f, f = Begun(fp, c)
  PROVE  FpFields(f) /\ f =
           [flag |-> fp.flag, fptr |-> fp.fptr, fsize |-> fp.fsize, sclust |-> c, clust |-> c,
            dsect |-> fp.dsect, buf |-> fp.buf, dirSect |-> fp.dirSect, slot |-> fp.slot]
<1> DEFINE g == [fp EXCEPT !.sclust = c]
<1>2. FpFields(g) /\ g = [flag |-> fp.flag, fptr |-> fp.fptr, fsize |-> fp.fsize, sclust |-> c, clust |-> fp.clust,
              dsect |-> fp.dsect, buf |-> fp.buf, dirSect |-> fp.dirSect, slot |-> fp.slot]
  BY FpSet
<1>3. f = [g EXCEPT !.clust = c]  BY DEF Begun
<1> HIDE DEF g
<1>4. [g EXCEPT !.clust = c] = [flag |-> fp.flag, fptr |-> fp.fptr, fsize |-> fp.fsize, sclust |-> c, clust |-> c,
              dsect |-> fp.dsect, buf |-> fp.buf, dirSect |-> fp.dirSect, slot |-> fp.slot]
  BY <1>2, FpSet
<1> QED  BY <1>3, <1>4 DEF FpFields

\* From the start of the file.
LEMMA SoughtFromStart ==
  ASSUME NEW v, NEW T, NEW F, NEW X, NEW e, FileAt(v, T, F, X, e), NEW fp, NEW f, FileOf(f, e), f.fptr = 0,
         Len(e) = SectorsFor(f.fsize), Kept(fp, f), f.sclust = fp.sclust,
         NEW ofs \in Nat \ {0}, ~CanWrite(f) => ofs <= f.fsize,
         NEW r, r = SeekFromStart(v, f, ofs)
  PROVE  \E G, y : Beside(F, e, G, y) /\ MovedTo(T, G, X, y, fp, ofs, r)
<1>1. /\ FpFields(f) /\ f.fsize \in Nat /\ UnitsPerSector \in Nat /\ UnitsPerSector > 1 /\ F \in Fats
      /\ Chained(F, e) /\ Beside(F, e, F, e) /\ SectorsFor(f.fsize) \in Nat /\ Len(e) \in Nat
      /\ (SectorsFor(f.fsize) = 0 <=> f.fsize = 0) /\ (e = <<>> <=> Len(e) = 0)
  <2>1. f.fsize \in Nat  BY DEF FileOf
  <2>2. Chained(F, e)  BY DEF FileAt
  <2> QED
    BY <2>1, <2>2, UnitAssumption, BesideSame, MoreSectors, ChainKind DEF FileOf, FileAt, Shows
<1>2. SectorsFor(0) = 0 /\ 0 % UnitsPerSector = 0
  <2>1. 0 = 0 * UnitsPerSector + 0 /\ 0 \in Int /\ 0 \in 0..(UnitsPerSector - 1)  BY <1>1
  <2> QED  BY <1>1, <2>1, NoSectors, DividedSo
<1>3. CASE f.sclust # 0
  <2> DEFINE h == AtCluster(f, f.sclust)
  <2>1. r = MoveOn(v, h, ofs, f.sclust)  BY <1>3 DEF SeekFromStart, AtCluster
  <2>2. h = AtCluster(f, f.sclust)  OBVIOUS
  <2> HIDE DEF h
  <2>3. FpFields(h) /\ h =
           [flag |-> f.flag, fptr |-> f.fptr, fsize |-> f.fsize, sclust |-> f.sclust, clust |-> f.sclust,
            dsect |-> f.dsect, buf |-> f.buf, dirSect |-> f.dirSect, slot |-> f.slot]
    BY <1>1, <2>2, ClusterKept
  <2>4. Len(e) > 0 /\ f.sclust = e[1]
    <3>1. HeadOf(e) # 0  BY <1>3 DEF FileOf
    <3>2. Len(e) > 0  BY <1>1, <3>1, ChainKind
    <3>3. HeadOf(e) = e[1]  BY <1>1, <3>2, ChainKind
    <3> QED  BY <3>2, <3>3 DEF FileOf
  <2>5. FileOf(h, e) /\ AtBoundary(h) /\ (CanWrite(h) <=> CanWrite(f))
    BY <1>2, <2>3 DEF FileOf, Buffered, AtBoundary, CanWrite
  <2>6. Kept(fp, h)  BY <2>3, <2>5 DEF Kept, SameEntry
  <2>7. Len(e) = Larger(SectorsFor(h.fptr) + 1, SectorsFor(h.fsize)) /\ SectorsFor(h.fptr) + 1 \in 1..Len(e)
        /\ SectorsFor(h.fptr) = 0
    BY <1>1, <1>2, <2>3, <2>4 DEF Larger
  <2> DEFINE c == f.sclust
  <2>8. MoveAt(T, F, X, e, fp, ofs, v, h, ofs, c) /\ r = MoveOn(v, h, ofs, c)
    BY <2>1, <2>3, <2>4, <2>5, <2>6, <2>7 DEF MoveAt
  <2> HIDE DEF c
  <2> QED  BY <2>8, MovedAlong
<1>4. CASE f.sclust = 0
  <2> DEFINE g == CreateChain(v, 0)
  <2>0. r = MoveOnNew(g, f, ofs)  BY <1>4 DEF SeekFromStart
  <2>1. g = CreateChain(v, 0)  OBVIOUS
  <2> HIDE DEF g
  <2>2. Grown(T, F, X, 0, g)  BY <2>1, ChainBegun DEF FileAt
  <2>3. e = <<>> /\ Len(e) = 0 /\ f.fsize = 0 /\ LastOf(e) = 0
    <3>1. HeadOf(e) = 0  BY <1>4 DEF FileOf
    <3>2. ~(Len(e) > 0)
      <4>1. Len(e) > 0 => HeadOf(e) = e[1] /\ e[1] \in Clusters  BY <1>1, ChainKind
      <4> QED  BY <3>1, <4>1, Numbers
    <3> QED  BY <1>1, <3>2 DEF LastOf
  <2>4. CanWrite(f) /\ CanWrite(fp)  BY <2>3 DEF Kept, SameEntry
  <2>5. CASE g.val = 0 /\ Shows(g.v, T, F, X) /\ FatFull(F)
    <3> DEFINE h == AtCluster(f, 0)
               q == Settled(g.v, h, NoSector)
    <3>1. r = q
      <4>1. g.val = 0 /\ g.val # Max32 /\ g.val \notin Clusters /\ g.val # 1  BY <2>5, Numbers
      <4> QED  BY <2>0, <4>1, Zenon DEF MoveOnNew, AtCluster
    <3>2. h = AtCluster(f, 0)  OBVIOUS
    <3> HIDE DEF h
    <3>3. FpFields(h) /\ h =
           [flag |-> f.flag, fptr |-> f.fptr, fsize |-> f.fsize, sclust |-> f.sclust, clust |-> 0,
            dsect |-> f.dsect, buf |-> f.buf, dirSect |-> f.dirSect, slot |-> f.slot]
      <4> DEFINE c == 0
      <4>1. h = AtCluster(f, c)  BY <3>2
      <4> HIDE DEF c
      <4>2. FpFields(h) /\ h =
           [flag |-> f.flag, fptr |-> f.fptr, fsize |-> f.fsize, sclust |-> f.sclust, clust |-> c,
            dsect |-> f.dsect, buf |-> f.buf, dirSect |-> f.dirSect, slot |-> f.slot]
        BY <1>1, <4>1, ClusterKept
      <4> QED  BY <4>2 DEF c
    <3>4. FileOf(h, e) /\ AtBoundary(h) /\ (CanWrite(h) <=> CanWrite(f))
      BY <1>2, <3>3 DEF FileOf, Buffered, AtBoundary, CanWrite
    <3>5. Lands(h, e)  BY <1>1, <1>2, <2>3, <3>3, <3>4 DEF Lands, Long, Larger
    <3>6. Kept(fp, h)  BY <3>3, <3>4 DEF Kept, SameEntry
    <3>7. FileAt(g.v, T, F, X, e) /\ q = Settled(g.v, h, NoSector) /\ h.sclust = fp.sclust
      BY <2>5, <3>3 DEF FileAt
    <3> HIDE DEF q
    <3>8. Goes(q) /\ FileAt(q.v, T, F, X, e) /\ FileFits(q.fp, e) /\ ChangeMarked(fp, q.fp)
      BY <3>4, <3>5, <3>6, <3>7, SettledFits
    <3>9. MovedTo(T, F, X, e, fp, ofs, r)  BY <2>4, <2>5, <3>1, <3>8 DEF MovedTo
    <3> QED  BY <1>1, <3>9
  <2>6. CASE g.val \in Clusters /\ F[g.val] = 0 /\ Shows(g.v, T, Linked(F, 0, g.val), X)
    <3> DEFINE n == g.val
               G == Linked(F, LastOf(e), n)
               y == Append(e, n)
               h == Begun(f, n)
               w == g.v
    <3>1. n \in Clusters /\ F[n] = 0 /\ G = Linked(F, LastOf(e), n) /\ y = Append(e, n) /\ w = g.v
          /\ Shows(w, T, G, X) /\ h = Begun(f, n)
      BY <2>3, <2>6
    <3>2. r = MoveOn(w, h, ofs, n)
      <4>1. g.val # 0 /\ g.val # Max32 /\ g.val # 1  BY <2>6, Numbers
      <4> QED  BY <2>0, <4>1, Zenon DEF MoveOnNew, Begun
    <3> HIDE DEF G, y, n, h, w
    <3>3. GrownBy(F, e, n, G, y)  BY <1>1, <3>1, GrownPath
    <3>4. Off(T, G, y)  BY <3>3, OffAfter DEF FileAt, GrownBy
    <3>5. FileAt(w, T, G, X, y)  BY <3>1, <3>3, <3>4 DEF FileAt, Chained, GrownBy
    <3>6. FpFields(h) /\ h =
           [flag |-> f.flag, fptr |-> f.fptr, fsize |-> f.fsize, sclust |-> n, clust |-> n,
            dsect |-> f.dsect, buf |-> f.buf, dirSect |-> f.dirSect, slot |-> f.slot]
      BY <1>1, <3>1, BegunKept
    <3>7. Len(y) = 1 /\ y[1] = n /\ HeadOf(y) = n  BY <1>1, <2>3, <3>3 DEF GrownBy
    <3>8. "FA__DIRTY" \notin f.flag
      <4>1. ~SectorIn(f.dsect, e)  BY <1>1, <2>3 DEF SectorIn
      <4> QED  BY <4>1 DEF FileOf, Buffered
    <3>9. FileOf(h, y) /\ AtBoundary(h) /\ (CanWrite(h) <=> CanWrite(f))
      BY <1>2, <3>6, <3>7, <3>8 DEF FileOf, Buffered, AtBoundary, CanWrite
    <3>10. Kept(fp, h)  BY <2>3, <3>6, <3>9 DEF Kept, SameEntry
    <3>11. Len(y) = Larger(SectorsFor(h.fptr) + 1, SectorsFor(h.fsize)) /\ SectorsFor(h.fptr) + 1 \in 1..Len(y)
        /\ SectorsFor(h.fptr) = 0
      BY <1>1, <1>2, <2>3, <3>6, <3>7 DEF Larger
    <3>12. MoveAt(T, G, X, y, fp, ofs, w, h, ofs, n)
      BY <2>4, <3>5, <3>6, <3>7, <3>9, <3>10, <3>11 DEF MoveAt
    <3>13. PICK H, z : Beside(G, y, H, z) /\ MovedTo(T, H, X, z, fp, ofs, r)
      BY <3>2, <3>12, MovedAlong
    <3>14. Beside(F, e, H, z)  BY <3>3, <3>13, BesideOn DEF GrownBy
    <3> QED  BY <3>13, <3>14
  <2> QED  BY <2>2, <2>5, <2>6 DEF Grown, FatFull
<1> QED  BY <1>3, <1>4

\* Sectors are counted in order.
LEMMA SectorsInOrder ==
  ASSUME NEW U \in Nat, U > 1, NEW a \in Int, NEW b \in Int, a >= b
  PROVE  a * U >= b * U /\ a * U \in Int /\ b * U \in Int
OBVIOUS

\* f_lseek: the file has the room it needs, or the disk is full.
LEMMA FileSought ==
  ASSUME NEW v, NEW T, NEW F, NEW X, NEW e, FileAt(v, T, F, X, e), NEW fp, FileFits(fp, e),
         NEW to \in Nat, NEW r, r = FLseek(v, fp, to)
  PROVE  \E G, y : /\ Goes(r) /\ FileDone(T, F, X, e, fp, G, y, r.v, r.fp)
                   /\ CanWrite(fp) /\ r.fp.fptr < to => FatFull(G)
<1> DEFINE ofs == IF CanWrite(fp) THEN to ELSE Least(to, fp.fsize)
<1>1. /\ FpFields(fp) /\ "FA__ERROR" \notin fp.flag /\ fp.fptr \in Nat /\ fp.fsize \in Nat /\ FileOf(fp, e) /\ PosOf(fp, e)
      /\ Len(e) = SectorsFor(fp.fsize) /\ UnitsPerSector \in Nat /\ UnitsPerSector > 1 /\ Beside(F, e, F, e)
      /\ Chained(F, e)
  BY UnitAssumption, BesideSame DEF FileFits, FileOf, FileAt
<1>2. r = Seek(v, fp, ofs)  BY <1>1 DEF FLseek, Aborted
<1>3. ofs \in Nat /\ (~CanWrite(fp) => ofs <= fp.fsize) /\ (CanWrite(fp) => ofs = to)
  BY <1>1 DEF Least
<1> HIDE DEF ofs
<1>4. SUFFICES \E G, y : Beside(F, e, G, y) /\ MovedTo(T, G, X, y, fp, ofs, r)
  <2>1. PICK G, y : Beside(F, e, G, y) /\ MovedTo(T, G, X, y, fp, ofs, r)  BY <1>4
  <2>2. FileDone(T, F, X, e, fp, G, y, r.v, r.fp) /\ Goes(r)
    BY <2>1 DEF FileDone, MovedTo, ChangeMarked
  <2>3. CanWrite(fp) /\ r.fp.fptr < to => FatFull(G)
    <3>1. ~(ofs < ofs)  BY <1>3
    <3> QED  BY <1>3, <2>1, <3>1 DEF MovedTo
  <2> QED  BY <2>2, <2>3
<1>5. SectorsFor(0) = 0 /\ 0 % UnitsPerSector = 0 /\ SectorsFor(fp.fsize) \in Nat
  <2>1. 0 = 0 * UnitsPerSector + 0 /\ 0 \in Int /\ 0 \in 0..(UnitsPerSector - 1)  BY <1>1
  <2> QED  BY <1>1, <2>1, NoSectors, DividedSo, MoreSectors
<1> DEFINE o == AtUnit(fp, 0)
<1>6. FpFields(o) /\ o =
           [flag |-> fp.flag, fptr |-> 0, fsize |-> fp.fsize, sclust |-> fp.sclust, clust |-> fp.clust,
            dsect |-> fp.dsect, buf |-> fp.buf, dirSect |-> fp.dirSect, slot |-> fp.slot]
  <2> DEFINE z == 0
  <2>1. o = AtUnit(fp, z)  OBVIOUS
  <2> HIDE DEF z, o
  <2>2. FpFields(o) /\ o =
           [flag |-> fp.flag, fptr |-> z, fsize |-> fp.fsize, sclust |-> fp.sclust, clust |-> fp.clust,
            dsect |-> fp.dsect, buf |-> fp.buf, dirSect |-> fp.dirSect, slot |-> fp.slot]
    BY <1>1, <2>1, UnitKept
  <2> QED  BY <2>2 DEF z
<1>7. o = AtUnit(fp, 0)  OBVIOUS
<1> HIDE DEF o
<1>8. FileOf(o, e) /\ Kept(fp, o) /\ o.sclust = fp.sclust /\ o.fptr = 0 /\ AtBoundary(o) /\ (CanWrite(o) <=> CanWrite(fp))
  BY <1>1, <1>5, <1>6 DEF FileOf, Buffered, Kept, SameEntry, CanWrite, AtBoundary
<1>9. CASE ofs = 0
  <2>1. r = Settled(v, o, NoSector)
    <3>1. ~(ofs > 0)  BY <1>9
    <3>2. ~(ofs > 0 /\ fp.fptr > 0 /\ ClusterOf(ofs) >= ClusterOf(fp.fptr))  BY <3>1
    <3> QED  BY <1>2, <1>7, <1>9, <3>2, Zenon DEF Seek, AtUnit
  <2>2. Lands(o, e)  BY <1>1, <1>5, <1>6, <1>8 DEF Lands, Long, Larger
  <2>3. Goes(r) /\ FileAt(r.v, T, F, X, e) /\ FileFits(r.fp, e) /\ ChangeMarked(fp, r.fp) /\ r.fp.fptr = o.fptr
    BY <1>8, <2>1, <2>2, SettledFits
  <2>4. MovedTo(T, F, X, e, fp, ofs, r)  BY <1>8, <1>9, <2>3 DEF MovedTo
  <2> QED  BY <1>1, <2>4
<1>10. CASE ofs > 0 /\ fp.fptr > 0 /\ ClusterOf(ofs) >= ClusterOf(fp.fptr)
  <2> DEFINE k == ClusterOf(fp.fptr)
             x == k * UnitsPerSector
             left == ofs - x
             h == AtUnit(fp, x)
             c == fp.clust
  <2>1. r = MoveOn(v, h, left, c)
    <3>1. ofs # 0  BY <1>3, <1>10
    <3> QED  BY <1>2, <1>10, <3>1, Zenon DEF Seek, AtUnit
  <2>2. k \in Nat /\ SectorsFor(fp.fptr) = k + 1  BY <1>1, <1>10, EndsSomewhere
  <2>3. x % UnitsPerSector = 0 /\ x \in Nat
    <3>1. x = k * UnitsPerSector + 0 /\ 0 \in 0..(UnitsPerSector - 1) /\ k \in Int
      BY <1>1, <2>2
    <3>2. x % UnitsPerSector = 0  BY <1>1, <3>1, DividedSo
    <3>3. x \in Nat  BY <1>1, <2>2
    <3> QED  BY <3>2, <3>3
  <2>4. SectorsFor(x) = k
    <3> DEFINE y == x + 1
    <3>1. 1 \in 1..UnitsPerSector /\ y = k * UnitsPerSector + 1 /\ k \in Int  BY <1>1, <2>2
    <3>2. SectorsFor(y) = k + 1
      <4> DEFINE n == 1
      <4>1. n \in 1..UnitsPerSector /\ y = k * UnitsPerSector + n  BY <3>1
      <4> HIDE DEF k, n, y
      <4> QED  BY <3>1, <4>1, EndsIn
    <3> HIDE DEF x
    <3>3. SectorsFor(y) = SectorsFor(x) + 1 /\ SectorsFor(x) \in Nat  BY <2>3, SectorOn
    <3> QED  BY <2>2, <3>2, <3>3
  <2>5. left \in Nat \ {0}
    <3>1. ofs \in Nat /\ ofs > 0  BY <1>3, <1>10
    <3>2. PICK n \in 1..UnitsPerSector : ofs = ClusterOf(ofs) * UnitsPerSector + n
      BY <3>1, EndsSomewhere
    <3>3. ClusterOf(ofs) \in Int  BY <3>1, EndsSomewhere
    <3>4. ClusterOf(ofs) * UnitsPerSector >= x /\ ClusterOf(ofs) * UnitsPerSector \in Int
      BY <1>1, <1>10, <2>2, <3>3, SectorsInOrder
    <3>5. n \in Nat \ {0}  BY <1>1
    <3> HIDE DEF x
    <3> QED  BY <2>3, <3>2, <3>4, <3>5
  <2>6. x + left = ofs  BY <1>3, <2>3
  <2>7. h = AtUnit(fp, x)  OBVIOUS
  <2>8. k + 1 \in 1..Len(e) /\ c = e[k + 1]  BY <1>1, <1>10, <2>2 DEF PosOf
  <2> HIDE DEF k, x, h, left
  <2>9. FpFields(h) /\ h =
           [flag |-> fp.flag, fptr |-> x, fsize |-> fp.fsize, sclust |-> fp.sclust, clust |-> fp.clust,
            dsect |-> fp.dsect, buf |-> fp.buf, dirSect |-> fp.dirSect, slot |-> fp.slot]
    BY <1>1, <2>7, UnitKept
  <2>10. FileOf(h, e) /\ AtBoundary(h) /\ (CanWrite(h) <=> CanWrite(fp))
    BY <1>1, <2>3, <2>9 DEF FileOf, Buffered, AtBoundary, CanWrite
  <2>11. Kept(fp, h)  BY <2>9, <2>10 DEF Kept, SameEntry
  <2>12. Len(e) = Larger(k + 1, SectorsFor(fp.fsize))
    BY <1>1, <1>5, <2>2, <2>8 DEF Larger
  <2>13. MoveAt(T, F, X, e, fp, ofs, v, h, left, c)
    BY <1>3, <2>4, <2>5, <2>6, <2>8, <2>9, <2>10, <2>11, <2>12 DEF MoveAt
  <2> HIDE DEF c
  <2> QED  BY <2>1, <2>13, MovedAlong
<1>11. CASE ~(ofs = 0) /\ ~(ofs > 0 /\ fp.fptr > 0 /\ ClusterOf(ofs) >= ClusterOf(fp.fptr))
  <2>1. r = SeekFromStart(v, o, ofs)  BY <1>2, <1>7, <1>11, Zenon DEF Seek, AtUnit
  <2>2. ofs \in Nat \ {0}  BY <1>3, <1>11
  <2>3. Len(e) = SectorsFor(o.fsize) /\ (~CanWrite(o) => ofs <= o.fsize)
    BY <1>1, <1>3, <1>6, <1>8
  <2> QED  BY <1>8, <2>1, <2>2, <2>3, SoughtFromStart
<1> QED  BY <1>9, <1>10, <1>11

\* f_read and f_write, also when the mode of the object forbids them.
LEMMA FileLeft ==
  ASSUME NEW v, NEW T, NEW F, NEW X, NEW e, FileAt(v, T, F, X, e), NEW fp, FileFits(fp, e)
  PROVE  FileDone(T, F, X, e, fp, F, e, v, fp)
BY BesideSame DEF FileDone, SameEntry

\* f_write, also when the file has an error or may not be written.
LEMMA WrittenAnyway ==
  ASSUME NEW v, NEW T, NEW F, NEW X, NEW e, FileAt(v, T, F, X, e), NEW fp, FileFits(fp, e),
         NEW d, NEW btw \in Nat, NEW r, r = FWrite(v, fp, d, btw)
  PROVE  \E G, y : /\ FileDone(T, F, X, e, fp, G, y, r.v, r.fp)
                   /\ Goes(r) /\ r.did < btw => FatFull(G)
<1>1. CASE CanWrite(fp)  BY <1>1, FileWritten
<1>2. CASE ~CanWrite(fp)
  <2>1. "FA__ERROR" \notin fp.flag  BY DEF FileFits, FileOf
  <2>2. r = File(Failed(v, "FR_DENIED"), fp, 0)  BY <1>2, <2>1, Zenon DEF FWrite, CanWrite
  <2>3. r.v = v /\ r.fp = fp /\ ~Goes(r)  BY <2>2 DEF File, Failed, Goes
  <2> QED  BY <2>3, FileLeft
<1> QED  BY <1>1, <1>2

\* f_read, also when the file has an error or may not be read.
LEMMA ReadAnyway ==
  ASSUME NEW v, NEW T, NEW F, NEW X, NEW e, FileAt(v, T, F, X, e), NEW fp, FileFits(fp, e),
         NEW size \in Nat, NEW r, r = FRead(v, fp, size)
  PROVE  FileDone(T, F, X, e, fp, F, e, r.v, r.fp)
<1>1. CASE "FA_READ" \in fp.flag  BY <1>1, FileIsRead
<1>2. CASE "FA_READ" \notin fp.flag
  <2>1. "FA__ERROR" \notin fp.flag  BY DEF FileFits, FileOf
  <2>2. r = File(Failed(v, "FR_DENIED"), fp, <<>>)  BY <1>2, <2>1, Zenon DEF FRead
  <2>3. r.v = v /\ r.fp = fp  BY <2>2 DEF File, Failed
  <2> QED  BY <2>3, FileLeft
<1> QED  BY <1>1, <1>2

----------------------------------------------------------------------------
(* f_truncate.                                                             *)

\* What it leaves when the buffer is not of a sector that was cut off.
FileCut(T, F, X, e, fp, r) ==
  \E G, y : /\ Beside(F, e, G, y) /\ FileAt(r.v, T, G, X, y) /\ r.fp.sclust = HeadOf(y)
            /\ SameEntry(fp, r.fp) /\ r.fp.flag = fp.flag \cup {"FA__WRITTEN"} /\ r.fp.dsect = fp.dsect
            /\ Buffered(r.fp, y) => FileDone(T, F, X, e, fp, G, y, r.v, r.fp)

\* Nothing of the chain is left.
LEMMA AllCut ==
  ASSUME NEW v, NEW T, NEW F, NEW X, NEW e, FileAt(v, T, F, X, e), NEW fp, FileFits(fp, e), fp.fptr = 0,
         fp.fsize > 0, NEW f, f = WithSize(fp, 0, fp.flag \cup {"FA__WRITTEN"}), NEW r, r = CutAll(v, f)
  PROVE  FileCut(T, F, X, e, fp, r)
<1> DEFINE c == RemoveChain(v, e[1])
           h == AtStart(f, 0)
           G == Zeroed(F, Firsts(e, Len(e)))
<1>1. /\ FpFields(fp) /\ "FA__ERROR" \notin fp.flag /\ FileOf(fp, e) /\ Shows(v, T, F, X) /\ Chained(F, e) /\ Off(T, F, e)
      /\ Len(e) = SectorsFor(fp.fsize) /\ fp.fsize \in Nat /\ F \in Fats
  BY DEF FileFits, FileOf, FileAt, Shows
<1>2. Path(F, e) /\ fp.sclust = e[1]
  <2>1. SectorsFor(fp.fsize) # 0 /\ SectorsFor(fp.fsize) \in Nat  BY <1>1, MoreSectors
  <2>2. e # <<>>  BY <1>1, <2>1, ChainKind
  <2> QED  BY <1>1, <2>2 DEF Chained, FileOf, HeadOf
<1>3. FpFields(f) /\ f =
         [flag |-> fp.flag \cup {"FA__WRITTEN"}, fptr |-> fp.fptr, fsize |-> 0, sclust |-> fp.sclust, clust |-> fp.clust,
          dsect |-> fp.dsect, buf |-> fp.buf, dirSect |-> fp.dirSect, slot |-> fp.slot]
  BY <1>1, SizeSet
<1>4. c = RemoveChain(v, e[1]) /\ h = AtStart(f, 0)  OBVIOUS
<1>5. r = Aborting(File(c, h, 0))  BY <1>2, <1>3 DEF CutAll, AtStart
<1> HIDE DEF c, h
<1>6. Goes(c) /\ c = Ok(c.v) /\ Shows(c.v, T, G, X)  BY <1>1, <1>2, <1>4, ChainFreed
<1>7. r.v = c.v /\ r.fp = h  BY <1>5, <1>6 DEF Aborting, File, Goes
<1>8. h =
         [flag |-> fp.flag \cup {"FA__WRITTEN"}, fptr |-> fp.fptr, fsize |-> 0, sclust |-> 0, clust |-> fp.clust,
          dsect |-> fp.dsect, buf |-> fp.buf, dirSect |-> fp.dirSect, slot |-> fp.slot] /\ FpFields(h)
  <2> DEFINE z == 0
  <2>1. h = AtStart(f, z)  BY <1>4
  <2> HIDE DEF z
  <2>2. FpFields(h) /\ h =
           [flag |-> f.flag, fptr |-> f.fptr, fsize |-> f.fsize, sclust |-> z, clust |-> f.clust,
            dsect |-> f.dsect, buf |-> f.buf, dirSect |-> f.dirSect, slot |-> f.slot]
    BY <1>3, <2>1, StartKept
  <2>3. h.flag = f.flag /\ h.fptr = f.fptr /\ h.fsize = f.fsize /\ h.sclust = z /\ h.clust = f.clust
        /\ h.dsect = f.dsect /\ h.buf = f.buf /\ h.dirSect = f.dirSect /\ h.slot = f.slot
          BY <2>2
  <2> QED  BY <1>3, <2>2, <2>3 DEF z
<1>9. G = Zeroed(F, Firsts(e, Len(e)))  OBVIOUS
<1> HIDE DEF G
<1>10. Beside(F, e, G, <<>>) /\ G \in Fats  BY <1>1, <1>2, <1>9, FreedPath
<1>11. Off(T, G, <<>>)  BY <1>1, <1>10, OffAfter
<1>12. FileAt(r.v, T, G, X, <<>>)  BY <1>6, <1>7, <1>11 DEF FileAt, Chained
<1>13. SameEntry(fp, h) /\ h.sclust = HeadOf(<<>>)  BY <1>8 DEF SameEntry, CanWrite, HeadOf
<1>14. ASSUME Buffered(h, <<>>) PROVE FileFits(h, <<>>)
  <2>1. "FA__ERROR" \notin h.flag  BY <1>1, <1>8
  <2>2. FileOf(h, <<>>) /\ PosOf(h, <<>>)  BY <1>8, <1>13, <1>14, <2>1 DEF FileOf, PosOf
  <2>3. Len(<<>>) = SectorsFor(0)  BY NoSectors
  <2> QED  BY <1>8, <2>2, <2>3 DEF FileFits
<1>15. Buffered(r.fp, <<>>) => FileDone(T, F, X, e, fp, G, <<>>, r.v, r.fp)
  BY <1>7, <1>8, <1>10, <1>12, <1>13, <1>14 DEF FileDone
<1>16. r.fp.sclust = HeadOf(<<>>) /\ SameEntry(fp, r.fp) /\ r.fp.flag = fp.flag \cup {"FA__WRITTEN"} /\ r.fp.dsect = fp.dsect
  <2>1. r.fp = h  BY <1>7
  <2>2. h.flag = fp.flag \cup {"FA__WRITTEN"} /\ h.dsect = fp.dsect  BY <1>8
  <2> QED  BY <1>13, <2>1, <2>2
<1> QED  BY <1>10, <1>12, <1>15, <1>16 DEF FileCut

\* The front of the chain is left, if not all of it.
LEMMA FrontLeft ==
  ASSUME NEW v, NEW T, NEW F, NEW X, NEW e, FileAt(v, T, F, X, e), NEW fp, FileFits(fp, e), fp.fptr > 0,
         NEW f, f = WithSize(fp, fp.fptr, fp.flag \cup {"FA__WRITTEN"}),
         NEW G, NEW y, Beside(F, e, G, y), NEW r, r.fp = f, FileAt(r.v, T, G, X, y),
         Len(y) = SectorsFor(fp.fptr), HeadOf(y) = HeadOf(e), y[SectorsFor(fp.fptr)] = e[SectorsFor(fp.fptr)]
  PROVE  FileCut(T, F, X, e, fp, r)
<1>1. /\ FpFields(fp) /\ "FA__ERROR" \notin fp.flag /\ FileOf(fp, e) /\ PosOf(fp, e) /\ fp.fptr \in Nat
      /\ Chained(G, y)
  BY DEF FileFits, FileOf, FileAt
<1> DEFINE z == fp.flag \cup {"FA__WRITTEN"}
<1>2. /\ FpFields(f) /\ f.flag = z /\ f.fptr = fp.fptr /\ f.fsize = fp.fptr /\ f.sclust = fp.sclust /\ f.clust = fp.clust
      /\ f.dsect = fp.dsect /\ f.dirSect = fp.dirSect /\ f.slot = fp.slot
  <2>1. f = WithSize(fp, fp.fptr, z)  OBVIOUS
  <2> HIDE DEF z
  <2>2. FpFields(f) /\ f =
         [flag |-> z, fptr |-> fp.fptr, fsize |-> fp.fptr, sclust |-> fp.sclust, clust |-> fp.clust,
          dsect |-> fp.dsect, buf |-> fp.buf, dirSect |-> fp.dirSect, slot |-> fp.slot]
    BY <1>1, <2>1, SizeSet
  <2> QED  BY <2>2
<1>3. SameEntry(fp, f) /\ f.sclust = HeadOf(y) /\ f.dsect = fp.dsect /\ f.flag = fp.flag \cup {"FA__WRITTEN"}
  <2>1. fp.sclust = HeadOf(e)  BY <1>1 DEF FileOf
  <2>2. "FA_WRITE" \in f.flag <=> "FA_WRITE" \in fp.flag  BY <1>2
  <2> QED  BY <1>2, <2>1, <2>2 DEF SameEntry, CanWrite
<1> HIDE DEF z
<1>4. ASSUME Buffered(f, y) PROVE FileFits(f, y)
  <2>1. "FA__ERROR" \notin f.flag  BY <1>1, <1>3
  <2>2. FileOf(f, y)  BY <1>1, <1>2, <1>3, <1>4, <2>1 DEF FileOf
  <2>3. SectorsFor(fp.fptr) \in 1..Len(y)
    <3>1. SectorsFor(fp.fptr) # 0 /\ SectorsFor(fp.fptr) \in Nat  BY <1>1, MoreSectors
    <3> QED  BY <3>1
  <2>4. PosOf(f, y)  BY <1>1, <1>2, <2>3 DEF PosOf
  <2> QED  BY <1>1, <1>2, <2>2, <2>4 DEF FileFits
<1>5. Buffered(r.fp, y) => FileDone(T, F, X, e, fp, G, y, r.v, r.fp)
  BY <1>2, <1>3, <1>4 DEF FileDone
<1> QED  BY <1>3, <1>5 DEF FileCut

\* f_truncate cuts the chain behind a position that is not the start.
LEMMA TailCut ==
  ASSUME NEW v, NEW T, NEW F, NEW X, NEW e, FileAt(v, T, F, X, e), NEW fp, FileFits(fp, e), fp.fptr > 0,
         NEW f, f = WithSize(fp, fp.fptr, fp.flag \cup {"FA__WRITTEN"}), NEW r, r = CutTail(GetFat(v, f.clust), f)
  PROVE  FileCut(T, F, X, e, fp, r)
<1> DEFINE g == GetFat(v, f.clust)
           k == SectorsFor(fp.fptr)
<1>1. /\ FpFields(fp) /\ "FA__ERROR" \notin fp.flag /\ FileOf(fp, e) /\ PosOf(fp, e) /\ Shows(v, T, F, X) /\ Chained(F, e)
      /\ Off(T, F, e) /\ fp.fptr \in Nat /\ F \in Fats
  BY DEF FileFits, FileOf, FileAt, Shows
<1>2. f.clust = fp.clust /\ k \in 1..Len(e) /\ fp.clust = e[k]
  <2>1. f.clust = fp.clust  BY <1>1, SizeSet
  <2> QED  BY <1>1, <2>1 DEF PosOf
<1>3. g = GetFat(v, f.clust) /\ r = CutTail(g, f)  OBVIOUS
<1> HIDE DEF g, k
<1>4. /\ Path(F, e) /\ e[k] \in Clusters /\ F[e[k]] = (IF k < Len(e) THEN e[k + 1] ELSE LastLink)
      /\ k < Len(e) => e[k + 1] \in Clusters /\ k \in 1..(Len(e) - 1)
  <2>1. Len(e) \in Nat /\ e # <<>> /\ \A i \in 1..Len(e) : e[i] \in Clusters
    BY <1>1, <1>2, ChainKind
  <2>2. \A i \in 1..Len(e) : F[e[i]] = IF i < Len(e) THEN e[i + 1] ELSE LastLink
    BY <1>1, ChainKind
  <2>3. k + 1 \in 1..Len(e) \/ ~(k < Len(e))  BY <1>2, <2>1
  <2> QED  BY <1>1, <1>2, <2>1, <2>2, <2>3 DEF Chained
<1>5. g.val = F[e[k]] /\ Shows(g.v, T, F, X)  BY <1>1, <1>2, <1>3, <1>4, EntrySeen
<1>6. NFatEnt \in Nat /\ LastLink \in Nat /\ NFatEnt <= LastLink /\ LastLink # Max32 /\ LastLink # 1 /\ Clusters = 2..(NFatEnt - 1)
      /\ \A c \in Clusters : c < NFatEnt /\ c # 1 /\ c # Max32
  BY Numbers DEF Clusters
<1>7. CASE k = Len(e)
  <2>1. g.val = LastLink  BY <1>4, <1>5, <1>7
  <2>2. ~(g.val = Max32) /\ ~(g.val = 1) /\ ~(g.val < NFatEnt)  BY <1>6, <2>1
  <2>3. r = File(Ok(g.v), f, 0)  BY <1>3, <2>2, Zenon DEF CutTail
  <2>4. r.v = g.v /\ r.fp = f  BY <2>3 DEF File, Ok
  <2>5. FileAt(r.v, T, F, X, e)  BY <1>1, <1>5, <2>4 DEF FileAt
  <2>6. Beside(F, e, F, e)  BY BesideSame
  <2> QED  BY <1>7, <2>4, <2>5, <2>6, FrontLeft DEF k
<1>8. CASE k < Len(e)
  <2> DEFINE P == Put(F, e[k], LastLink)
             G == Zeroed(P, Firsts(Rest(e, k), Len(Rest(e, k))))
             p == PutFat(g.v, f.clust, LastLink)
             c == RemoveChain(p.v, g.val)
             y == Front(e, k)
  <2>1. g.val = e[k + 1] /\ e[k + 1] \in Clusters /\ k \in 1..(Len(e) - 1)  BY <1>4, <1>5, <1>8
  <2>2. ~(g.val = Max32) /\ ~(g.val = 1) /\ g.val < NFatEnt /\ g.val \notin {1, Max32}
    BY <1>6, <2>1
  <2>3. r = Aborting(File(Then(p, LAMBDA w : RemoveChain(w, g.val)), f, 0))
    BY <1>3, <2>2, Zenon DEF CutTail
  <2>4. p = PutFat(g.v, e[k], LastLink) /\ P = Put(F, e[k], LastLink) /\ c = RemoveChain(p.v, g.val)
        /\ G = Zeroed(P, Firsts(Rest(e, k), Len(Rest(e, k)))) /\ y = Front(e, k)
    BY <1>2
  <2> HIDE DEF P, G, p, c, y
  <2>5. LastLink \in Link \ {1}  BY <1>6 DEF Link
  <2>6. Goes(p) /\ Shows(p.v, T, P, X)
    <3> DEFINE n == e[k]
    <3>1. n \in Clusters /\ p = PutFat(g.v, n, LastLink) /\ P = Put(F, n, LastLink)
      BY <1>4, <2>4
    <3> HIDE DEF n
    <3> QED  BY <1>5, <2>5, <3>1, FatEntrySet
  <2>7. /\ Path(P, Rest(e, k)) /\ Rest(e, k)[1] = e[k + 1] /\ Path(G, y) /\ Beside(F, e, G, y) /\ Len(y) = k
        /\ \A i \in 1..k : y[i] = e[i]
    BY <1>1, <1>4, <2>1, <2>4, CutPath
  <2>8. Goes(c) /\ Shows(c.v, T, G, X)
    <3> DEFINE q == Rest(e, k)
    <3>1. Path(P, q) /\ c = RemoveChain(p.v, q[1]) /\ G = Zeroed(P, Firsts(q, Len(q)))
      BY <2>1, <2>4, <2>7
    <3> HIDE DEF q
    <3> QED  BY <2>6, <3>1, ChainFreed
  <2>9. r.v = c.v /\ r.fp = f
    <3>1. Then(p, LAMBDA w : RemoveChain(w, g.val)) = c  BY <2>4, <2>6 DEF Then, Goes
    <3>2. r = Aborting(File(c, f, 0))  BY <2>3, <3>1
    <3>3. File(c, f, 0).res = "FR_OK"  BY <2>8 DEF File, Goes
    <3>4. r = File(c, f, 0)  BY <3>2, <3>3 DEF Aborting
    <3> QED  BY <3>4 DEF File
  <2>10. Chained(G, y)  BY <2>7 DEF Chained
  <2>11. Off(T, G, y)  BY <1>1, <2>7, OffAfter
  <2>12. FileAt(r.v, T, G, X, y)  BY <2>8, <2>9, <2>10, <2>11 DEF FileAt
  <2>13. HeadOf(y) = HeadOf(e) /\ y[k] = e[k]
    <3>1. 1 \in 1..k /\ k \in 1..k  BY <2>1
    <3>2. y # <<>> /\ e # <<>>
      <4>1. Len(y) # 0 /\ Len(e) # 0  BY <1>2, <2>1, <2>7
      <4> QED  BY <4>1
    <3> QED  BY <2>7, <3>1, <3>2 DEF HeadOf
  <2> QED  BY <2>7, <2>9, <2>12, <2>13, FrontLeft DEF k
<1>9. Len(e) \in Nat  BY <1>1, ChainKind
<1> QED  BY <1>2, <1>7, <1>8, <1>9

\* f_truncate leaves a file that fits its new size, or refuses.
LEMMA FileIsCut ==
  ASSUME NEW v, NEW T, NEW F, NEW X, NEW e, FileAt(v, T, F, X, e), NEW fp, FileFits(fp, e),
         NEW r, r = FTruncate(v, fp)
  PROVE  FileCut(T, F, X, e, fp, r) \/ (r.v = v /\ r.fp = fp)
<1> DEFINE f == WithSize(fp, fp.fptr, fp.flag \cup {"FA__WRITTEN"})
<1>1. /\ FpFields(fp) /\ ~Aborted(fp) /\ fp.fptr \in Nat /\ fp.fsize \in Nat
  BY DEF FileFits, FileOf, Aborted
<1>2. CASE ~CanWrite(fp)
  <2>1. r = File(Failed(v, "FR_DENIED"), fp, 0)  BY <1>1, <1>2, Zenon DEF FTruncate
  <2> QED  BY <2>1 DEF File, Failed
<1>3. CASE CanWrite(fp) /\ ~(fp.fsize > fp.fptr)
  <2>1. r = File(Ok(v), fp, 0)  BY <1>1, <1>3, Zenon DEF FTruncate
  <2> QED  BY <2>1 DEF File, Ok
<1>4. CASE CanWrite(fp) /\ fp.fsize > fp.fptr
  <2>1. r = Cut(v, f)  BY <1>1, <1>4, Zenon DEF FTruncate, WithSize
  <2>2. f = WithSize(fp, fp.fptr, fp.flag \cup {"FA__WRITTEN"})  OBVIOUS
  <2> HIDE DEF f
  <2>3. f.fptr = fp.fptr  BY <1>1, <2>2, SizeSet
  <2>4. CASE fp.fptr = 0
    <3>1. r = CutAll(v, f)  BY <2>1, <2>3, <2>4 DEF Cut
    <3>2. f = WithSize(fp, 0, fp.flag \cup {"FA__WRITTEN"}) /\ fp.fsize > 0  BY <1>4, <2>2, <2>4
    <3> QED  BY <2>4, <3>1, <3>2, AllCut
  <2>5. CASE fp.fptr # 0
    <3>1. r = CutTail(GetFat(v, f.clust), f) /\ fp.fptr > 0  BY <1>1, <2>1, <2>3, <2>5 DEF Cut
    <3> QED  BY <2>2, <3>1, TailCut
  <2> QED  BY <2>4, <2>5
<1> QED  BY <1>2, <1>3, <1>4

----------------------------------------------------------------------------
(* What a volume is to somebody who knows all of its chains: of the chains *)
(* some are tables, and an object in a table owns one or none.  A picture  *)
(* is a record of the FAT, what the tables hold (rows), the chains, those  *)
(* of them that are tables (dirs), and which chain an object owns.         *)

Family(F, C) ==
  /\ \A e \in C : Path(F, e)
  /\ \A e, d \in C : e # d => Cells(e) \cap Cells(d) = {}
\* The chain e becomes y, begins with it or ends.
Swap(C, e, y) == (C \ {e}) \cup ({y} \ {<<>>})

TablesOf(D) == RootSectors \cup {DataSector(c) : c \in UNION {Cells(e) : e \in D}}
Row(X, p) == X[p[1]][p[2]]
Live(T, X) == {p \in T \X (1..PerTable) : IsObject(Row(X, p))}
HoldEntries(T, X) == \A s \in T : DOMAIN X[s] = 1..PerTable /\ \A i \in 1..PerTable : IsEntry(X[s][i])

\* The entry e of an object that owns x. What the entry of a file that is held says of it
\* is of no account.
Owner(C, D, e, x, held) ==
  IF e.isDir THEN x \in D /\ e.clust = HeadOf(x) /\ (Fat32 => HeadOf(x) # 2)
  ELSE /\ x \in (C \ D) \cup {<<>>}
       /\ ~held => e.clust = HeadOf(x) /\ Len(x) = SectorsFor(e.size)

Tables(a) == TablesOf(a.dirs)
Living(a) == Live(Tables(a), a.rows)
\* E are places that own nothing, H places that are held.
Picture(a, E, H) ==
  /\ Family(a.fat, a.chains) /\ a.dirs \subseteq a.chains
  /\ Fat32 => \E e \in a.dirs : e[1] = 2
  /\ HoldEntries(Tables(a), a.rows)
  /\ \A p \in Living(a) \ E : Owner(a.chains, a.dirs, Row(a.rows, p), a.owns[p], p \in H)
  /\ \A p, q \in Living(a) \ E : a.owns[p] = a.owns[q] /\ a.owns[p] # <<>> => p = q
Drawn(v, a) == Shows(v, Tables(a), a.fat, a.rows)

\* A chain that is not empty starts with one of its clusters.
LEMMA PathNotEmpty ==
  ASSUME NEW F, NEW e, Path(F, e)
  PROVE  e # <<>> /\ e[1] \in Cells(e) /\ Cells(e) # {} /\ e[1] \in Clusters /\ Chained(F, e) /\ HeadOf(e) = e[1]
<1>1. Chained(F, e)  BY DEF Chained
<1>2. Len(e) > 0 /\ Len(e) \in Nat  BY DEF Path
<1>3. 1 \in 1..Len(e) /\ e # <<>>  BY <1>1, <1>2, ChainKind
<1> QED  BY <1>1, <1>3, ChainKind DEF HeadOf

\* A chain of a family changes, the others do not.
LEMMA FamilyAfter ==
  ASSUME NEW F, NEW C, Family(F, C), NEW e \in C \cup {<<>>}, NEW G, NEW y, Beside(F, e, G, y), Chained(G, y)
  PROVE  /\ Family(G, Swap(C, e, y))
         /\ \A d \in C : d # e => d # y /\ d \in Swap(C, e, y) /\ Path(G, d) /\ Cells(d) \cap Cells(y) = {}
<1>1. ASSUME NEW d \in C, d # e PROVE Path(G, d) /\ Cells(d) \cap Cells(y) = {} /\ d # y /\ d \in Swap(C, e, y)
  <2>1. Path(F, d)  BY DEF Family
  <2>2. Cells(d) \cap Cells(e) = {}
    <3>1. CASE e \in C  BY <1>1, <3>1 DEF Family
    <3>2. CASE e = <<>>  BY <3>2 DEF Cells
    <3> QED  BY <3>1, <3>2
  <2>3. Path(G, d) /\ Cells(d) \cap Cells(y) = {}  BY <2>1, <2>2, PathBeside
  <2>4. d # y  BY <2>1, <2>3, PathNotEmpty
  <2> QED  BY <1>1, <2>3, <2>4 DEF Swap
<1>2. \A d \in Swap(C, e, y) : Path(G, d)  BY <1>1 DEF Swap, Chained
<1>3. ASSUME NEW b \in Swap(C, e, y), NEW d \in Swap(C, e, y), b # d PROVE Cells(b) \cap Cells(d) = {}
  <2>1. CASE b \in C /\ b # e /\ d \in C /\ d # e  BY <1>3, <2>1 DEF Family
  <2>2. CASE b = y  BY <1>1, <1>3, <2>2 DEF Swap
  <2>3. CASE d = y  BY <1>1, <1>3, <2>3 DEF Swap
  <2> QED  BY <2>1, <2>2, <2>3 DEF Swap
<1> QED  BY <1>1, <1>2, <1>3 DEF Family

\* The sectors of a table.
LEMMA TablesKnown ==
  ASSUME NEW D
  PROVE  /\ \A c : DataSector(c) \in TablesOf(D) <=> \E e \in D : c \in Cells(e)
         /\ RootSectors \subseteq TablesOf(D)
         /\ \A s \in TablesOf(D) : s \in RootSectors \/ \E e \in D : \E c \in Cells(e) : s = DataSector(c)
<1>1. \A c : DataSector(c) \notin RootSectors  BY SectorsApart DEF RootSectors
<1> QED  BY <1>1, SectorsApart DEF TablesOf

\* The chain of a file is no table.
LEMMA OwnedOff ==
  ASSUME NEW F, NEW C, Family(F, C), NEW D \in SUBSET C, NEW e \in (C \ D) \cup {<<>>}
  PROVE  Off(TablesOf(D), F, e) /\ Chained(F, e)
<1>1. ASSUME NEW c \in Clusters, DataSector(c) \in TablesOf(D) PROVE F[c] # 0 /\ c \notin Cells(e)
  <2>1. PICK d \in D : c \in Cells(d)  BY <1>1, TablesKnown
  <2>2. Path(F, d)  BY DEF Family
  <2>3. Chained(F, d)  BY <2>2 DEF Chained
  <2>4. PICK i \in 1..Len(d) : c = d[i]  BY <2>1 DEF Cells
  <2>5. F[c] # 0  BY <2>3, <2>4, ChainKind
  <2>6. c \notin Cells(e)
    <3>1. CASE e = <<>>  BY <3>1 DEF Cells
    <3>2. CASE e \in C \ D  BY <2>1, <3>2 DEF Family
    <3> QED  BY <3>1, <3>2
  <2> QED  BY <2>5, <2>6
<1>2. Chained(F, e)  BY DEF Family, Chained
<1> QED  BY <1>1, <1>2 DEF Off

\* The chain of a file changes.
WithFile(a, p, G, y) ==
  [fat |-> G, rows |-> a.rows, chains |-> Swap(a.chains, a.owns[p], y), dirs |-> a.dirs,
   owns |-> [q \in Living(a) |-> IF q = p THEN y ELSE a.owns[q]]]

\* The chain of one open file changes in the picture.
LEMMA FilePictured ==
  ASSUME NEW a, NEW E, NEW H, Picture(a, E, H), NEW p \in Living(a) \ E, p \in H, ~Row(a.rows, p).isDir,
         NEW G, NEW y, Beside(a.fat, a.owns[p], G, y), Chained(G, y), NEW b, b = WithFile(a, p, G, y)
  PROVE  /\ Picture(b, E, H) /\ Tables(b) = Tables(a) /\ Living(b) = Living(a) /\ b.rows = a.rows /\ b.fat = G /\ b.dirs = a.dirs
         /\ b.owns[p] = y /\ \A q \in Living(a) : q # p => b.owns[q] = a.owns[q]
<1> DEFINE e == a.owns[p]
           C == a.chains
           D == a.dirs
<1>1. /\ b.fat = G /\ b.rows = a.rows /\ b.chains = Swap(C, e, y) /\ b.dirs = D
      /\ b.owns = [q \in Living(a) |-> IF q = p THEN y ELSE a.owns[q]]
  BY DEF WithFile
<1>2. Tables(b) = Tables(a) /\ Living(b) = Living(a)  BY <1>1 DEF Tables, Living
<1>3. b.owns[p] = y /\ \A q \in Living(a) : q # p => b.owns[q] = a.owns[q]  BY <1>1
<1>4. /\ Family(a.fat, C) /\ D \subseteq C /\ (Fat32 => \E d \in D : d[1] = 2) /\ HoldEntries(Tables(a), a.rows)
      /\ \A q \in Living(a) \ E : Owner(C, D, Row(a.rows, q), a.owns[q], q \in H)
      /\ \A q, r \in Living(a) \ E : a.owns[q] = a.owns[r] /\ a.owns[q] # <<>> => q = r
  BY DEF Picture
<1>5. e \in (C \ D) \cup {<<>>}  BY <1>4 DEF Owner
<1>6. /\ Family(G, Swap(C, e, y))
      /\ \A d \in C : d # e => d # y /\ d \in Swap(C, e, y) /\ Path(G, d) /\ Cells(d) \cap Cells(y) = {}
  BY <1>4, <1>5, FamilyAfter
<1>7. \A d \in D : d \in C /\ d # e /\ d \in Swap(C, e, y) /\ d # y
  <2>1. \A d \in D : d \in C /\ d # <<>>  BY <1>4, PathNotEmpty DEF Family
  <2> QED  BY <1>5, <1>6, <2>1
<1>8. y \in (Swap(C, e, y) \ D) \cup {<<>>}  BY <1>7 DEF Swap
<1>9. ASSUME NEW q \in Living(a) \ E, q # p PROVE a.owns[q] # <<>> => a.owns[q] # e /\ a.owns[q] # y /\ a.owns[q] \in C
  <2>1. a.owns[q] \in C \cup {<<>>}  BY <1>4 DEF Owner
  <2> QED  BY <1>4, <1>6, <1>9, <2>1
<1>10. ASSUME NEW q \in Living(a) \ E PROVE Owner(Swap(C, e, y), D, Row(a.rows, q), b.owns[q], q \in H)
  <2>1. CASE q = p  BY <1>3, <1>8, <2>1 DEF Owner
  <2>2. CASE q # p
    <3>1. b.owns[q] = a.owns[q] /\ Owner(C, D, Row(a.rows, q), a.owns[q], q \in H)
      BY <1>3, <1>4, <2>2
    <3>2. a.owns[q] \in C \ D => a.owns[q] \in Swap(C, e, y) \ D
      BY <1>4, <1>6, <1>9, <2>2, PathNotEmpty DEF Family
    <3> QED  BY <3>1, <3>2 DEF Owner
  <2> QED  BY <2>1, <2>2
<1>11. ASSUME NEW q \in Living(a) \ E, NEW r \in Living(a) \ E, b.owns[q] = b.owns[r], b.owns[q] # <<>> PROVE q = r
  BY <1>3, <1>4, <1>9, <1>11
<1>12. D \subseteq Swap(C, e, y)  BY <1>7
<1> HIDE DEF e, C, D
<1>13. Picture(b, E, H)
  BY <1>1, <1>2, <1>4, <1>6, <1>10, <1>11, <1>12 DEF Picture
<1> QED  BY <1>1, <1>2, <1>3, <1>13 DEF D

\* An entry of a table is replaced.
RowPut(X, p, e) == [X EXCEPT ![p[1]] = [X[p[1]] EXCEPT ![p[2]] = e]]

\* One entry of the tables is replaced.
LEMMA RowIsPut ==
  ASSUME NEW T, NEW X, X = [s \in T |-> X[s]], HoldEntries(T, X), NEW p \in T \X (1..PerTable), NEW e, IsEntry(e),
         NEW Y, Y = RowPut(X, p, e)
  PROVE  /\ Y = [s \in T |-> Y[s]] /\ HoldEntries(T, Y) /\ Row(Y, p) = e
         /\ \A q \in T \X (1..PerTable) : q # p => Row(Y, q) = Row(X, q)
<1> DEFINE s == p[1]
           i == p[2]
           x == [X[s] EXCEPT ![i] = e]
<1>1. s \in T /\ i \in 1..PerTable /\ p = <<s, i>>  OBVIOUS
<1>2. DOMAIN X[s] = 1..PerTable  BY <1>1 DEF HoldEntries
<1>3. Y = [X EXCEPT ![s] = x]  BY DEF RowPut
<1>4. DOMAIN x = 1..PerTable /\ x[i] = e /\ \A j \in 1..PerTable : j # i => x[j] = X[s][j]
  BY <1>1, <1>2
<1> HIDE DEF x, s, i
<1>5. Y[s] = x /\ \A r \in T : r # s => Y[r] = X[r]  BY <1>1, <1>3
<1>6. Y = [r \in T |-> Y[r]]  BY <1>1, <1>3
<1>7. HoldEntries(T, Y)
  <2> SUFFICES ASSUME NEW r \in T PROVE DOMAIN Y[r] = 1..PerTable /\ \A j \in 1..PerTable : IsEntry(Y[r][j])
    BY DEF HoldEntries
  <2>1. CASE r = s
    <3>1. \A j \in 1..PerTable : IsEntry(X[s][j])  BY <1>1 DEF HoldEntries
    <3> QED  BY <1>4, <1>5, <2>1, <3>1
  <2>2. CASE r # s  BY <1>5, <2>2 DEF HoldEntries
  <2> QED  BY <2>1, <2>2
<1>8. Row(Y, p) = e  BY <1>1, <1>4, <1>5 DEF Row
<1>9. \A q \in T \X (1..PerTable) : q # p => Row(Y, q) = Row(X, q)
  <2> SUFFICES ASSUME NEW r \in T, NEW j \in 1..PerTable, <<r, j>> # p PROVE Y[r][j] = X[r][j]
    BY DEF Row
  <2> QED  BY <1>1, <1>4, <1>5
<1> QED  BY <1>6, <1>7, <1>8, <1>9

\* The entry at p is replaced; if it is that of an object this owns x.
WithRow(a, p, e, x) ==
  [fat |-> a.fat, rows |-> RowPut(a.rows, p, e), chains |-> a.chains, dirs |-> a.dirs,
   owns |-> [q \in Living(a) \cup {p} |-> IF q = p THEN x ELSE a.owns[q]]]
\* Nobody but p owns x.
Unowned(a, E, p, x) == \A q \in Living(a) \ E : q # p /\ a.owns[q] = x => x = <<>>
\* Nothing changes but what stands at p.
OnlyAt(a, p, b) ==
  /\ Tables(b) = Tables(a) /\ b.fat = a.fat /\ b.chains = a.chains /\ b.dirs = a.dirs
  /\ \A q \in Tables(a) \X (1..PerTable) : q # p =>
       (q \in Living(b) <=> q \in Living(a)) /\ Row(b.rows, q) = Row(a.rows, q)
       /\ (q \in Living(a) => b.owns[q] = a.owns[q])

\* The tables of a picture are what its rows are of.
Regular(a) == a.rows = [s \in Tables(a) |-> a.rows[s]]

\* An entry is replaced by one that is no object, or has a chain of its own.
LEMMA RowPictured ==
  ASSUME NEW a, NEW E, NEW H, Picture(a, E, H), Regular(a),
         NEW p \in Tables(a) \X (1..PerTable), NEW e, IsEntry(e),
         NEW x, IsObject(e) => p \notin E /\ Owner(a.chains, a.dirs, e, x, p \in H) /\ Unowned(a, E, p, x),
         NEW b, b = WithRow(a, p, e, x)
  PROVE  /\ Picture(b, E, H) /\ OnlyAt(a, p, b) /\ Row(b.rows, p) = e /\ b.owns[p] = x
         /\ Regular(b) /\ (p \in Living(b) <=> IsObject(e))
<1> DEFINE T == Tables(a)
           X == a.rows
           Y == RowPut(X, p, e)
           C == a.chains
           D == a.dirs
<1>1. /\ b.fat = a.fat /\ b.rows = Y /\ b.chains = C /\ b.dirs = D
      /\ b.owns = [q \in Living(a) \cup {p} |-> IF q = p THEN x ELSE a.owns[q]]
  BY DEF WithRow
<1>2. Tables(b) = T  BY <1>1 DEF Tables
<1>3. /\ Family(a.fat, C) /\ D \subseteq C /\ (Fat32 => \E d \in D : d[1] = 2) /\ HoldEntries(T, X)
      /\ \A q \in Living(a) \ E : Owner(C, D, Row(X, q), a.owns[q], q \in H)
      /\ \A q, r \in Living(a) \ E : a.owns[q] = a.owns[r] /\ a.owns[q] # <<>> => q = r
  BY DEF Picture
<1>4. Y = RowPut(X, p, e) /\ X = [s \in T |-> X[s]] /\ Living(a) = Live(T, X) /\ Living(b) = Live(T, Y) /\ p \in T \X (1..PerTable)
  BY <1>1, <1>2 DEF Living, Regular
<1> HIDE DEF T, X, Y, C, D
<1>5. /\ Y = [s \in T |-> Y[s]] /\ HoldEntries(T, Y) /\ Row(Y, p) = e
      /\ \A q \in T \X (1..PerTable) : q # p => Row(Y, q) = Row(X, q)
  BY <1>3, <1>4, RowIsPut
<1>6. p \in Living(b) <=> IsObject(e)  BY <1>4, <1>5 DEF Live
<1>7. \A q \in T \X (1..PerTable) : q # p => (q \in Living(b) <=> q \in Living(a))
  BY <1>4, <1>5 DEF Live
<1>8. b.owns[p] = x /\ \A q \in Living(a) : q # p => b.owns[q] = a.owns[q]  BY <1>1
<1>9. \A q \in Living(b) : q \in T \X (1..PerTable)  BY <1>4 DEF Live
<1>10. \A q \in Living(b) : q # p => q \in Living(a) /\ Row(Y, q) = Row(X, q) /\ b.owns[q] = a.owns[q]
  BY <1>5, <1>7, <1>8, <1>9
<1>11. ASSUME NEW q \in Living(b) \ E PROVE Owner(C, D, Row(Y, q), b.owns[q], q \in H)
  <2>1. CASE q = p  BY <1>5, <1>6, <1>8, <2>1 DEF C, D
  <2>2. CASE q # p
    <3>1. q \in Living(a) \ E /\ Row(Y, q) = Row(X, q) /\ b.owns[q] = a.owns[q]  BY <1>10, <2>2
    <3> QED  BY <1>3, <3>1
  <2> QED  BY <2>1, <2>2
<1>12. ASSUME NEW q \in Living(b) \ E, NEW r \in Living(b) \ E, b.owns[q] = b.owns[r], b.owns[q] # <<>> PROVE q = r
  <2>1. CASE q = p /\ r # p  BY <1>6, <1>8, <1>10, <1>12, <2>1 DEF Unowned
  <2>2. CASE q # p /\ r = p  BY <1>6, <1>8, <1>10, <1>12, <2>2 DEF Unowned
  <2>3. CASE q # p /\ r # p
    <3>1. q \in Living(a) \ E /\ r \in Living(a) \ E /\ b.owns[q] = a.owns[q] /\ b.owns[r] = a.owns[r]
      BY <1>10, <2>3
    <3> QED  BY <1>3, <1>12, <3>1
  <2> QED  BY <2>1, <2>2, <2>3
<1>13. OnlyAt(a, p, b)
  BY <1>1, <1>2, <1>5, <1>7, <1>8 DEF OnlyAt, T, X, C, D
<1>14. Picture(b, E, H)
  BY <1>1, <1>2, <1>3, <1>5, <1>11, <1>12 DEF Picture
<1>15. Regular(b)  BY <1>1, <1>2, <1>5 DEF Regular
<1> QED  BY <1>1, <1>2, <1>5, <1>6, <1>8, <1>13, <1>14, <1>15

\* A sector of a table in the window.
LEMMA RowSeen ==
  ASSUME NEW v, NEW a, Drawn(v, a), v.sect \in Tables(a)
  PROVE  v.win = a.rows[v.sect] /\ Regular(a) /\ HasFields(v)
<1>1. v.win = Holding(a.fat, a.rows, v.sect)  BY DEF Drawn, Shows, Seen
<1>2. v.sect \notin FirstCopy  BY SectorsApart DEF Drawn, Shows
<1> QED  BY <1>1, <1>2 DEF Holding, Drawn, Shows, Volume, Regular

\* The entry is replaced in the buffer, and so in the volume.
LEMMA RowDrawn ==
  ASSUME NEW v, NEW a, Drawn(v, a), NEW p, p[1] = v.sect, p[1] \in Tables(a), NEW e, NEW x,
         NEW w, Overwritten(v, [v.win EXCEPT ![p[2]] = e], w)
  PROVE  Drawn(w, WithRow(a, p, e, x)) /\ w.sect = v.sect
<1> DEFINE b == WithRow(a, p, e, x)
           y == [v.win EXCEPT ![p[2]] = e]
<1>1. b.fat = a.fat /\ b.rows = RowPut(a.rows, p, e) /\ Tables(b) = Tables(a)
  BY DEF WithRow, Tables
<1>2. RowPut(a.rows, p, e) = Laid(a.rows, v.sect, y)  BY RowSeen DEF RowPut, Laid
<1>3. Overwritten(v, y, w)  OBVIOUS
<1> HIDE DEF b, y
<1>4. Shows(w, Tables(a), a.fat, Laid(a.rows, v.sect, y))  BY <1>3, TableOverwritten DEF Drawn
<1>5. Drawn(w, b)  BY <1>1, <1>2, <1>4 DEF Drawn
<1> QED  BY <1>5 DEF b, Overwritten

\* Entries of a table, by kind.
IsSfn(e) == e = [sfn |-> e.sfn, isDir |-> e.isDir, ro |-> e.ro, clust |-> e.clust, size |-> e.size]

\* The kinds of entries.
LEMMA ObjectEntry ==
  ASSUME NEW e, IsEntry(e)
  PROVE  /\ "sfn" \in DOMAIN e => IsSfn(e) /\ e.isDir \in BOOLEAN /\ e.clust \in 0..(NFatEnt - 1) /\ e.size \in Nat
         /\ "sfn" \in DOMAIN e <=> ~Blank(e) /\ ~IsLfn(e) /\ ~IsLabel(e)
         /\ IsObject(e) <=> "sfn" \in DOMAIN e /\ e.sfn \notin {Dot, DotDot}
         /\ IsLfn(e) => ~IsObject(e) /\ ~Blank(e)
         /\ Blank(e) => ~IsObject(e)
         /\ IsLabel(e) => ~IsObject(e) /\ ~Blank(e)
<1>1. \A x : DOMAIN [blank |-> x] = {"blank"}  OBVIOUS
<1>2. Blank(e) => DOMAIN e = {"blank"}  BY <1>1 DEF Blank, EndOfTable, Deleted
<1>3. IsLfn(e) /\ e = [lfn |-> e.lfn, ord |-> e.ord, last |-> e.last, sum |-> e.sum] => DOMAIN e = {"lfn", "ord", "last", "sum"}
  <2>1. DOMAIN [lfn |-> e.lfn, ord |-> e.ord, last |-> e.last, sum |-> e.sum] = {"lfn", "ord", "last", "sum"}  OBVIOUS
  <2> QED  BY <2>1
<1>4. e = Label(e.label) => DOMAIN e = {"label"}
  <2>1. DOMAIN [label |-> e.label] = {"label"}  OBVIOUS
  <2> QED  BY <2>1 DEF Label
<1>5. IsSfn(e) => DOMAIN e = {"sfn", "isDir", "ro", "clust", "size"}
  <2>1. DOMAIN [sfn |-> e.sfn, isDir |-> e.isDir, ro |-> e.ro, clust |-> e.clust, size |-> e.size] = {"sfn", "isDir", "ro", "clust", "size"}
    OBVIOUS
  <2> QED  BY <2>1 DEF IsSfn
<1>6. e = Sfn(e.sfn, e.isDir, e.ro, e.clust, e.size) <=> IsSfn(e)  BY DEF Sfn, IsSfn
<1>7. \/ Blank(e)
      \/ IsLfn(e) /\ e = [lfn |-> e.lfn, ord |-> e.ord, last |-> e.last, sum |-> e.sum]
      \/ IsLabel(e) /\ e = Label(e.label)
      \/ "sfn" \in DOMAIN e /\ IsSfn(e) /\ e.isDir \in BOOLEAN /\ e.clust \in 0..(NFatEnt - 1) /\ e.size \in Nat
  BY <1>6 DEF IsEntry
<1> QED  BY <1>2, <1>3, <1>4, <1>5, <1>7 DEF IsLfn, IsLabel, IsObject

\* An entry of an object with another chain and size.
Resized(e, c, n) == Sfn(e.sfn, e.isDir, e.ro, c, n)
Rewritten(e, c, n) == [[e EXCEPT !.size = n] EXCEPT !.clust = c]

\* An entry with another cluster and another size.
LEMMA ResizedEntry ==
  ASSUME NEW e, IsEntry(e), "sfn" \in DOMAIN e, NEW c \in 0..(NFatEnt - 1), NEW n \in Nat, NEW d, d = Resized(e, c, n)
  PROVE  /\ IsEntry(d) /\ d.sfn = e.sfn /\ d.isDir = e.isDir /\ d.clust = c /\ d.size = n /\ (IsObject(d) <=> IsObject(e))
         /\ Rewritten(e, c, n) = d
<1>1. IsSfn(e) /\ e.isDir \in BOOLEAN  BY ObjectEntry
<1>2. d = [sfn |-> e.sfn, isDir |-> e.isDir, ro |-> e.ro, clust |-> c, size |-> n]
  BY DEF Resized, Sfn
<1>3. d.sfn = e.sfn /\ d.isDir = e.isDir /\ d.clust = c /\ d.size = n /\ d.ro = e.ro  BY <1>2
<1>4. "sfn" \in DOMAIN d  BY <1>2
<1>5. d = Sfn(d.sfn, d.isDir, d.ro, d.clust, d.size)  BY <1>2, <1>3 DEF Sfn
<1>6. IsEntry(d)  BY <1>1, <1>3, <1>4, <1>5 DEF IsEntry
<1>7. [[e EXCEPT !.size = n] EXCEPT !.clust = c] = d
  <2> DEFINE f == [sfn |-> e.sfn, isDir |-> e.isDir, ro |-> e.ro, clust |-> e.clust, size |-> e.size]
  <2>1. e = f  BY <1>1 DEF IsSfn
  <2> DEFINE g == [sfn |-> e.sfn, isDir |-> e.isDir, ro |-> e.ro, clust |-> e.clust, size |-> n]
  <2>3. [f EXCEPT !.size = n] = g  OBVIOUS
  <2>4. [g EXCEPT !.clust = c] = [sfn |-> e.sfn, isDir |-> e.isDir, ro |-> e.ro, clust |-> c, size |-> n]
    OBVIOUS
  <2>2. [[f EXCEPT !.size = n] EXCEPT !.clust = c] = [sfn |-> e.sfn, isDir |-> e.isDir, ro |-> e.ro, clust |-> c, size |-> n]
    BY <2>3, <2>4
  <2> HIDE DEF f
  <2> QED  BY <1>2, <2>1, <2>2
<1> QED  BY <1>3, <1>4, <1>6, <1>7 DEF IsObject, Rewritten

\* What is known of the entries of a picture.
LEMMA EntriesKnown ==
  ASSUME NEW a, NEW E, NEW H, Picture(a, E, H), NEW p \in Tables(a) \X (1..PerTable)
  PROVE  /\ IsEntry(Row(a.rows, p)) /\ (p \in Living(a) <=> IsObject(Row(a.rows, p)))
         /\ p \in Living(a) \ E => Owner(a.chains, a.dirs, Row(a.rows, p), a.owns[p], p \in H)
         /\ p[1] \in Tables(a) /\ p[2] \in 1..PerTable /\ p = <<p[1], p[2]>>
BY DEF Picture, HoldEntries, Row, Living, Live

\* An object stands in a table.
LEMMA PlacesKnown ==
  ASSUME NEW a, NEW p \in Living(a)
  PROVE  p \in Tables(a) \X (1..PerTable) /\ IsObject(Row(a.rows, p))
BY DEF Living, Live

\* A window that is written though nothing in it has changed.
LEMMA DirtyDrawn ==
  ASSUME NEW v, NEW a, Drawn(v, a), v.sect \in Tables(a), NEW w, Overwritten(v, v.win, w)
  PROVE  Drawn(w, a) /\ w.sect = v.sect
<1>1. Shows(w, Tables(a), a.fat, Laid(a.rows, v.sect, v.win))  BY TableOverwritten DEF Drawn
<1>2. Laid(a.rows, v.sect, v.win) = a.rows
  <2> DEFINE X == a.rows
             T == Tables(a)
  <2>1. X = [s \in T |-> X[s]] /\ v.win = X[v.sect] /\ v.sect \in T  BY RowSeen DEF Regular
  <2> HIDE DEF X, T
  <2>2. [X EXCEPT ![v.sect] = X[v.sect]] = [s \in T |-> X[s]]  BY <2>1
  <2> QED  BY <2>1, <2>2 DEF Laid, X
<1> QED  BY <1>1, <1>2 DEF Drawn, Overwritten

----------------------------------------------------------------------------
(* Positions in a table.  A table is a chain of dirs, or <<>>, which is    *)
(* the static root directory.                                              *)

IsTable(D, e) == e \in D \/ (e = <<>> /\ ~Fat32)
RowsOf(e) == IF e = <<>> THEN RootTables ELSE Len(e)
SectorAt(e, k) == IF e = <<>> THEN RootSector(k) ELSE DataSector(e[k + 1])
ClusterAt(e, k) == IF e = <<>> THEN 0 ELSE e[k + 1]
PlaceOf(e, i) == <<SectorAt(e, i \div PerTable), (i % PerTable) + 1>>
EntryAt(a, e, i) == Row(a.rows, PlaceOf(e, i))
HasEntry(e, i) == i \in Nat /\ i < RowsOf(e) * PerTable

\* A directory object of the table e, and one that is at entry i of it.
OfTable(e, dj) == IF e = <<>> THEN dj.sclust = 0 ELSE dj.sclust = e[1] \/ (Fat32 /\ dj.sclust = 0 /\ e[1] = 2)
At(e, i, dj) ==
  /\ HasEntry(e, i) /\ dj.index = i
  /\ dj.sect = SectorAt(e, i \div PerTable) /\ dj.clust = ClusterAt(e, i \div PerTable)

DjFields(dj) ==
  dj = [sclust |-> dj.sclust, index |-> dj.index, clust |-> dj.clust, sect |-> dj.sect, lfnIdx |-> dj.lfnIdx,
        fn |-> dj.fn, lfn |-> dj.lfn, loss |-> dj.loss, root |-> dj.root]
\* d has the name that dj has, and also the start of it.
SameName(dj, d) ==
  DjFields(d) /\ d.sclust = dj.sclust /\ d.fn = dj.fn /\ d.lfn = dj.lfn /\ d.loss = dj.loss /\ d.root = dj.root
SameDir(dj, d) == SameName(dj, d) /\ d.lfnIdx = dj.lfnIdx

\* The fields that move a directory object.
AtEntry(dj, i, c, s) ==
  [sclust |-> dj.sclust, index |-> i, clust |-> c, sect |-> s, lfnIdx |-> dj.lfnIdx,
   fn |-> dj.fn, lfn |-> dj.lfn, loss |-> dj.loss, root |-> dj.root]

\* A directory object moved to an entry keeps its name and its table.
LEMMA MovesDir ==
  ASSUME NEW dj, NEW i, NEW c, NEW s, NEW d, d = AtEntry(dj, i, c, s)
  PROVE  SameDir(dj, d) /\ d.index = i /\ d.clust = c /\ d.sect = s
BY DEF AtEntry, SameDir, SameName, DjFields

Indexed(dj, i) == [dj EXCEPT !.index = i]
Clustered(dj, c, s) == [dj EXCEPT !.clust = c, !.sect = s]
Sectored(dj, i, s) == [dj EXCEPT !.index = i, !.sect = s]
Entered(dj, i, c, s) == [dj EXCEPT !.index = i, !.clust = c, !.sect = s]

\* Each of the assignments to a directory object is a move to an entry.
LEMMA SetsDir ==
  ASSUME NEW dj, DjFields(dj), NEW i, NEW c, NEW s
  PROVE  /\ Indexed(dj, i) = AtEntry(dj, i, dj.clust, dj.sect)
         /\ Clustered(dj, c, s) = AtEntry(dj, dj.index, c, s)
         /\ Sectored(dj, i, s) = AtEntry(dj, i, dj.clust, s)
         /\ Entered(dj, i, c, s) = AtEntry(dj, i, c, s)
<1> DEFINE f == [sclust |-> dj.sclust, index |-> dj.index, clust |-> dj.clust, sect |-> dj.sect, lfnIdx |-> dj.lfnIdx,
        fn |-> dj.fn, lfn |-> dj.lfn, loss |-> dj.loss, root |-> dj.root]
<1>1. dj = f  BY DEF DjFields
<1>2. [f EXCEPT !.index = i] = AtEntry(dj, i, dj.clust, dj.sect)  BY DEF AtEntry
<1>3. [f EXCEPT !.clust = c, !.sect = s] = AtEntry(dj, dj.index, c, s)
  <2> DEFINE x == [f EXCEPT !.clust = c]
             g == AtEntry(dj, dj.index, c, dj.sect)
  <2>1. x = g  BY DEF AtEntry
  <2>2. [g EXCEPT !.sect = s] = AtEntry(dj, dj.index, c, s)  BY DEF AtEntry
  <2>3. [f EXCEPT !.clust = c, !.sect = s] = [x EXCEPT !.sect = s]  OBVIOUS
  <2> HIDE DEF x, g, f
  <2> QED  BY <2>1, <2>2, <2>3
<1>4. [f EXCEPT !.index = i, !.sect = s] = AtEntry(dj, i, dj.clust, s)
  <2> DEFINE x == [f EXCEPT !.index = i]
             g == AtEntry(dj, i, dj.clust, dj.sect)
  <2>1. x = g  BY DEF AtEntry
  <2>2. [g EXCEPT !.sect = s] = AtEntry(dj, i, dj.clust, s)  BY DEF AtEntry
  <2>3. [f EXCEPT !.index = i, !.sect = s] = [x EXCEPT !.sect = s]  OBVIOUS
  <2> HIDE DEF x, g, f
  <2> QED  BY <2>1, <2>2, <2>3
<1>5. [f EXCEPT !.index = i, !.clust = c, !.sect = s] = AtEntry(dj, i, c, s)
  <2> DEFINE x == [f EXCEPT !.index = i]
             g == AtEntry(dj, i, dj.clust, dj.sect)
             y == [g EXCEPT !.clust = c]
             h == AtEntry(dj, i, c, dj.sect)
  <2>1. x = g /\ y = h  BY DEF AtEntry
  <2>2. [h EXCEPT !.sect = s] = AtEntry(dj, i, c, s)  BY DEF AtEntry
  <2>3. [f EXCEPT !.index = i, !.clust = c, !.sect = s] = [[x EXCEPT !.clust = c] EXCEPT !.sect = s]  OBVIOUS
  <2> HIDE DEF x, g, h, f
  <2> QED  BY <2>1, <2>2, <2>3
<1> HIDE DEF f
<1> QED  BY <1>1, <1>2, <1>3, <1>4, <1>5 DEF Indexed, Clustered, Sectored, Entered

\* The sector and the slot of the next entry.
LEMMA PlacesNext ==
  ASSUME NEW i \in Nat
  PROVE  /\ i \div PerTable \in Nat /\ (i % PerTable) + 1 \in 1..PerTable
         /\ (i + 1) % PerTable # 0 => (i + 1) \div PerTable = i \div PerTable
         /\ (i + 1) % PerTable = 0 => (i + 1) \div PerTable = (i \div PerTable) + 1
         /\ \A n \in Nat : i < n * PerTable <=> i \div PerTable < n
         /\ 0 \div PerTable = 0
<1> DEFINE P == PerTable
           q == i \div P
           m == i % P
<1>1. P \in Nat /\ P > 1  BY TableAssumption
<1>2. i = q * P + m /\ m \in 0..(P - 1) /\ q \in Int  BY <1>1, Divided
<1> HIDE DEF q, m
<1>3. q \in Nat
  <2>1. q < 0 => q * P <= -P  BY <1>1, <1>2
  <2> QED  BY <1>1, <1>2, <2>1
<1>4. ASSUME m + 1 < P PROVE (i + 1) \div P = q /\ (i + 1) % P # 0
  <2>1. i + 1 = q * P + (m + 1) /\ m + 1 \in 0..(P - 1)  BY <1>1, <1>2, <1>4
  <2> DEFINE k == m + 1
             j == i + 1
  <2>2. j = q * P + k /\ k \in 0..(P - 1)  BY <2>1
  <2> HIDE DEF k, j, P
  <2>3. j \div P = q /\ j % P = k  BY <1>1, <1>2, <2>2, DividedSo
  <2> QED  BY <1>1, <1>2, <2>3 DEF k, j
<1>5. ASSUME m + 1 = P PROVE (i + 1) \div P = q + 1 /\ (i + 1) % P = 0
  <2> DEFINE k == q + 1
             j == i + 1
             z == 0
  <2>1. j = k * P + z /\ k \in Int /\ z \in 0..(P - 1)  BY <1>1, <1>2, <1>3, <1>5
  <2> HIDE DEF k, j, P, z
  <2>2. j \div P = k /\ j % P = z  BY <1>1, <2>1, DividedSo
  <2> QED  BY <2>2 DEF k, j, z
<1>6. \A n \in Nat : i < n * P <=> q < n
  <2> SUFFICES ASSUME NEW n \in Nat PROVE i < n * P <=> q < n  OBVIOUS
  <2>1. q < n => (q + 1) * P <= n * P  BY <1>1, <1>3
  <2>2. q >= n => q * P >= n * P  BY <1>1, <1>3
  <2>3. (q + 1) * P = q * P + P  BY <1>1, <1>3
  <2> QED  BY <1>1, <1>2, <1>3, <2>1, <2>2, <2>3
<1>7. 0 \div P = 0  BY <1>1
<1>8. m + 1 < P \/ m + 1 = P  BY <1>1, <1>2
<1>9. (i % P) + 1 \in 1..P  BY <1>1, <1>2 DEF m
<1>10. /\ (i + 1) % P # 0 => (i + 1) \div P = q
       /\ (i + 1) % P = 0 => (i + 1) \div P = q + 1
  BY <1>4, <1>5, <1>8
<1> HIDE DEF P
<1> QED  BY <1>3, <1>6, <1>7, <1>9, <1>10 DEF q, P

\* A volume that a picture is of.
Sees(v, a, E, H) == Drawn(v, a) /\ Picture(a, E, H)

\* The sectors of a table.
LEMMA TableKnown ==
  ASSUME NEW a, NEW E, NEW H, Picture(a, E, H), NEW e, IsTable(a.dirs, e)
  PROVE  /\ Chained(a.fat, e) /\ RowsOf(e) \in Nat /\ (e # <<>> => e \in a.dirs /\ e \in a.chains /\ Path(a.fat, e) /\ Len(e) > 0)
         /\ (e = <<>> => ~Fat32)
         /\ \A k \in 0..(RowsOf(e) - 1) : SectorAt(e, k) \in Tables(a)
<1>1. Family(a.fat, a.chains) /\ a.dirs \subseteq a.chains  BY DEF Picture
<1>2. CASE e = <<>>
  <2>1. ~Fat32
    <3>1. e \notin a.dirs  BY <1>1, <1>2, PathNotEmpty DEF Family
    <3> QED  BY <3>1 DEF IsTable
  <2>2. RootTables \in Nat  BY TableAssumption
  <2>3. RowsOf(e) = RootTables /\ \A k : SectorAt(e, k) = RootSector(k)
    BY <1>2 DEF RowsOf, SectorAt
  <2>4. \A k \in 0..(RootTables - 1) : RootSector(k) \in Tables(a)
    BY <2>1, TablesKnown DEF Tables, RootSectors
  <2> QED  BY <1>2, <2>1, <2>2, <2>3, <2>4 DEF Chained
<1>3. CASE e # <<>>
  <2>1. e \in a.dirs /\ e \in a.chains /\ Path(a.fat, e)  BY <1>1, <1>3 DEF IsTable, Family
  <2>2. Chained(a.fat, e)  BY <2>1 DEF Chained
  <2>3. Len(e) \in Nat /\ Len(e) > 0  BY <1>3, <2>2, ChainKind
  <2>4. \A k \in 0..(Len(e) - 1) : DataSector(e[k + 1]) \in Tables(a)
    <3> SUFFICES ASSUME NEW k \in 0..(Len(e) - 1) PROVE DataSector(e[k + 1]) \in Tables(a)  OBVIOUS
    <3>1. k + 1 \in 1..Len(e)  BY <2>3
    <3>2. e[k + 1] \in Cells(e)  BY <3>1 DEF Cells
    <3> QED  BY <2>1, <3>2, TablesKnown DEF Tables
  <2>5. RowsOf(e) = Len(e) /\ \A k : SectorAt(e, k) = DataSector(e[k + 1])
    BY <1>3 DEF RowsOf, SectorAt
  <2> QED  BY <1>3, <2>1, <2>2, <2>3, <2>4, <2>5
<1> QED  BY <1>2, <1>3

\* An entry of a table has a place in one of its sectors.
LEMMA PlaceKnown ==
  ASSUME NEW a, NEW E, NEW H, Picture(a, E, H), NEW e, IsTable(a.dirs, e), NEW i, HasEntry(e, i)
  PROVE  /\ PlaceOf(e, i) \in Tables(a) \X (1..PerTable) /\ IsEntry(EntryAt(a, e, i))
         /\ i \in Nat /\ i \div PerTable \in 0..(RowsOf(e) - 1)
         /\ (PlaceOf(e, i) \in Living(a) <=> IsObject(EntryAt(a, e, i)))
<1>1. i \in Nat /\ i < RowsOf(e) * PerTable /\ RowsOf(e) \in Nat  BY TableKnown DEF HasEntry
<1>2. i \div PerTable \in Nat /\ (i % PerTable) + 1 \in 1..PerTable /\ i \div PerTable < RowsOf(e)
  BY <1>1, PlacesNext
<1>3. i \div PerTable \in 0..(RowsOf(e) - 1)  BY <1>1, <1>2
<1>4. SectorAt(e, i \div PerTable) \in Tables(a)  BY <1>3, TableKnown
<1>5. PlaceOf(e, i) \in Tables(a) \X (1..PerTable)  BY <1>2, <1>4 DEF PlaceOf
<1> QED  BY <1>1, <1>3, <1>5, EntriesKnown DEF EntryAt

\* The sector of a directory object in the window.
InWindow(v, a, e, i, dj) ==
  /\ v.sect = dj.sect /\ Entry(v, dj) = EntryAt(a, e, i) /\ DOMAIN v.win = 1..PerTable
  /\ PlaceOf(e, i) = <<dj.sect, Slot(dj)>> /\ Slot(dj) \in 1..PerTable /\ v.sect \in Tables(a)

\* With its sector in the buffer, the entry a walk is at is in the buffer.
LEMMA WindowShows ==
  ASSUME NEW v, NEW a, NEW E, NEW H, Sees(v, a, E, H), NEW e, IsTable(a.dirs, e), NEW i, NEW dj, At(e, i, dj),
         v.sect = dj.sect
  PROVE  InWindow(v, a, e, i, dj)
<1>1. HasEntry(e, i) /\ dj.index = i /\ dj.sect = SectorAt(e, i \div PerTable)  BY DEF At
<1>2. PlaceOf(e, i) \in Tables(a) \X (1..PerTable)  BY <1>1, PlaceKnown DEF Sees
<1>3. PlaceOf(e, i) = <<dj.sect, Slot(dj)>>  BY <1>1 DEF PlaceOf, Slot
<1>4. dj.sect \in Tables(a) /\ Slot(dj) \in 1..PerTable  BY <1>2, <1>3
<1>5. v.win = a.rows[dj.sect]  BY <1>4, RowSeen DEF Sees
<1>6. Entry(v, dj) = EntryAt(a, e, i)  BY <1>3, <1>5 DEF Entry, EntryAt, Row
<1>7. DOMAIN v.win = 1..PerTable  BY <1>4, <1>5 DEF Sees, Picture, HoldEntries
<1> QED  BY <1>3, <1>4, <1>6, <1>7 DEF InWindow

\* A volume is the record of its fields.
LEMMA SameWindow ==
  ASSUME NEW w, HasFields(w), DOMAIN w.win = 1..PerTable
  PROVE  [w EXCEPT !.win = AsTable(w.win)] = w
<1> DEFINE f == [disk |-> w.disk, win |-> w.win, sect |-> w.sect, dirty |-> w.dirty,
                 last |-> w.last, free |-> w.free, info |-> w.info, fault |-> w.fault]
           x == w.win
<1>1. w = f /\ AsTable(w.win) = x  BY DEF HasFields, AsTable
<1>2. [f EXCEPT !.win = x] = f  OBVIOUS
<1> HIDE DEF f, x
<1> QED  BY <1>1, <1>2

\* move_window to where a directory object is.
LEMMA Loaded ==
  ASSUME NEW v, NEW a, NEW E, NEW H, Sees(v, a, E, H), NEW e, IsTable(a.dirs, e), NEW i, NEW dj, At(e, i, dj),
         NEW r, r = Load(v, dj)
  PROVE  Goes(r) /\ Sees(r.v, a, E, H) /\ r.dj = dj /\ InWindow(r.v, a, e, i, dj)
<1> DEFINE m == MoveWindow(v, dj.sect)
<1>1. HasEntry(e, i) /\ dj.sect = SectorAt(e, i \div PerTable)  BY DEF At
<1>2. dj.sect \in Tables(a)
  <2>1. PlaceOf(e, i) \in Tables(a) \X (1..PerTable)  BY <1>1, PlaceKnown DEF Sees
  <2> QED  BY <1>1, <2>1 DEF PlaceOf
<1>3. m = MoveWindow(v, dj.sect)  OBVIOUS
<1> HIDE DEF m
<1>4. Goes(m) /\ Drawn(m.v, a) /\ m.v.sect = dj.sect
  <2> DEFINE T == Tables(a)
             s == dj.sect
  <2>1. Shows(v, T, a.fat, a.rows) /\ s \in FirstCopy \cup T  BY <1>2 DEF Sees, Drawn
  <2> HIDE DEF T, s
  <2>2. Goes(m) /\ Shows(m.v, T, a.fat, a.rows) /\ m.v.sect = s  BY <1>3, <2>1, WindowAt DEF s
  <2> QED  BY <2>2 DEF Drawn, T, s
<1>5. Sees(m.v, a, E, H)  BY <1>4 DEF Sees
<1>6. InWindow(m.v, a, e, i, dj)  BY <1>4, <1>5, WindowShows
<1>7. HasFields(m.v)  BY <1>4 DEF Drawn, Shows, Volume
<1>8. [m.v EXCEPT !.win = AsTable(@)] = m.v  BY <1>6, <1>7, SameWindow DEF InWindow
<1>9. With(m, dj).res = "FR_OK" /\ With(m, dj).v = m.v /\ With(m, dj).dj = dj
  BY <1>4 DEF With, Goes
<1>10. r = Done([m.v EXCEPT !.win = AsTable(@)], dj)  BY <1>3, <1>9 DEF Load, ThenAt
<1>11. r.v = m.v /\ r.dj = dj /\ Goes(r)  BY <1>8, <1>10 DEF Done, With, Ok, Goes
<1> QED  BY <1>5, <1>6, <1>11

----------------------------------------------------------------------------
(* dir_sdi and dir_next, but for a table that is stretched.                *)

\* The search for the cluster of an entry has come past n clusters of the table e.
SoughtTo(a, e, n, l) ==
  /\ Drawn(l.v, a)
  /\ \/ l.res = "FR_OK" /\ n < Len(e) /\ l.clst = e[n + 1]
     \/ l.res = "FR_INT_ERR" /\ n >= Len(e)

\* One cluster further in dir_sdi.
LEMMA SeekGoesOn ==
  ASSUME NEW a, NEW e, Path(a.fat, e), NEW n \in Nat, NEW l, SoughtTo(a, e, n, l), NEW m, m = SeekRound(l)
  PROVE  SoughtTo(a, e, n + 1, m)
<1>1. CASE l.res # "FR_OK"
  <2>1. m = l  BY <1>1 DEF SeekRound
  <2>2. Len(e) \in Nat /\ n >= Len(e)  BY <1>1, PathNotEmpty, ChainKind DEF SoughtTo
  <2> QED  BY <1>1, <2>1, <2>2 DEF SoughtTo
<1>2. CASE l.res = "FR_OK"
  <2> DEFINE F == a.fat
             k == n + 1
             c == e[k]
             g == GetFat(l.v, c)
  <2>1. Chained(F, e)  BY PathNotEmpty
  <2>2. Drawn(l.v, a) /\ n < Len(e) /\ l.clst = c /\ Len(e) \in Nat /\ k \in 1..Len(e)
    BY <1>2, <2>1, ChainKind DEF SoughtTo
  <2>3. c \in Clusters /\ F[c] = IF k < Len(e) THEN e[k + 1] ELSE LastLink
    BY <2>1, <2>2, ChainKind
  <2>4. g = GetFat(l.v, c)  OBVIOUS
  <2> HIDE DEF c, g
  <2>5. g.val = F[c] /\ Drawn(g.v, a)
    <3>1. Shows(l.v, Tables(a), F, a.rows)  BY <2>2 DEF Drawn
    <3> DEFINE T == Tables(a)
    <3> HIDE DEF T, F
    <3>2. g.val = F[c] /\ Shows(g.v, T, F, a.rows)  BY <2>3, <2>4, <3>1, EntrySeen DEF T
    <3> QED  BY <3>2 DEF Drawn, T, F
  <2>6. m = SeekNext(g)  BY <1>2, <2>2, <2>4 DEF SeekRound
  <2>7. CASE k < Len(e)
    <3>1. k + 1 \in 1..Len(e)  BY <2>2, <2>7
    <3>2. g.val \in Clusters /\ g.val = e[k + 1]  BY <2>1, <2>3, <2>5, <2>7, <3>1, ChainKind
    <3>3. g.val # Max32  BY <3>2, Numbers
    <3>4. m = Seeking(g.v, g.val, "FR_OK")  BY <2>6, <3>2, <3>3, Zenon DEF SeekNext
    <3>5. m.v = g.v /\ m.res = "FR_OK" /\ m.clst = e[k + 1]  BY <3>2, <3>4 DEF Seeking
    <3> QED  BY <2>2, <2>5, <2>7, <3>5 DEF SoughtTo
  <2>8. CASE ~(k < Len(e))
    <3>1. g.val = LastLink  BY <2>3, <2>5, <2>8
    <3>2. g.val # Max32 /\ g.val \notin Clusters  BY <3>1, Numbers
    <3>3. m = Seeking(g.v, 0, "FR_INT_ERR")  BY <2>6, <3>2, Zenon DEF SeekNext
    <3>4. m.v = g.v /\ m.res = "FR_INT_ERR"  BY <3>3 DEF Seeking
    <3> QED  BY <2>2, <2>5, <2>8, <3>4 DEF SoughtTo
  <2> QED  BY <2>7, <2>8
<1> QED  BY <1>1, <1>2

\* The walk along the chain in dir_sdi.
LEMMA SeekIsDone ==
  ASSUME NEW v, NEW a, Drawn(v, a), NEW e, Path(a.fat, e), NEW N \in Nat,
         NEW m, m = SeekEnd(Seeking(v, e[1], "FR_OK"), N)
  PROVE  SoughtTo(a, e, N, m) /\ (N = 0 => m.v = v)
<1> DEFINE start == Seeking(v, e[1], "FR_OK")
<1>1. start.v = v /\ start.res = "FR_OK" /\ start.clst = e[1]  BY DEF Seeking
<1> HIDE DEF start
<1>2. PICK w : /\ w[0] = start /\ \A n \in 1..N : w[n] = SeekRound(w[n - 1])
               /\ SeekEnd(start, N) = w[N]
  BY SeekLoop
<1>3. m = w[N]  BY <1>2 DEF start
<1>4. Len(e) \in Nat /\ 0 < Len(e)
  <2>1. Chained(a.fat, e) /\ e # <<>>  BY PathNotEmpty
  <2> QED  BY <2>1, ChainKind
<1> DEFINE S == {n \in 0..N : SoughtTo(a, e, n, w[n])}
<1>5. 0 \in S
  <2> DEFINE s == w[0]
  <2>1. s.v = v /\ s.res = "FR_OK" /\ s.clst = e[0 + 1]  BY <1>1, <1>2
  <2> HIDE DEF s
  <2>2. SoughtTo(a, e, 0, s)  BY <1>4, <2>1 DEF SoughtTo
  <2> QED  BY <2>2 DEF s
<1>6. \A n \in 0..(N - 1) : n \in S => n + 1 \in S
  <2> SUFFICES ASSUME NEW n \in 0..(N - 1), SoughtTo(a, e, n, w[n]) PROVE SoughtTo(a, e, n + 1, w[n + 1])
    OBVIOUS
  <2> DEFINE x == w[n]
             y == w[n + 1]
  <2>1. y = SeekRound(x)
    <3>1. n + 1 \in 1..N /\ (n + 1) - 1 = n  OBVIOUS
    <3> QED  BY <1>2, <3>1
  <2> HIDE DEF x, y
  <2>2. SoughtTo(a, e, n, x) /\ n \in Nat  BY DEF x
  <2>3. SoughtTo(a, e, n + 1, y)  BY <2>1, <2>2, SeekGoesOn
  <2> QED  BY <2>3 DEF y
<1> HIDE DEF S
<1>7. N \in S  BY <1>5, <1>6, LoopKeeps
<1>8. N = 0 => m = start  BY <1>2, <1>3
<1> QED  BY <1>1, <1>3, <1>7, <1>8 DEF S

\* dir_sdi.
LEMMA DirIsAt ==
  ASSUME NEW v, NEW a, NEW E, NEW H, Sees(v, a, E, H), NEW e, IsTable(a.dirs, e), NEW dj, DjFields(dj), OfTable(e, dj),
         NEW idx \in Nat, NEW r, r = DirSdi(v, dj, idx)
  PROVE  /\ SameDir(dj, r.dj) /\ Sees(r.v, a, E, H) /\ (HasEntry(e, idx) => Goes(r)) /\ (Goes(r) => At(e, idx, r.dj))
         /\ r.res \in {"FR_OK", "FR_INT_ERR"} /\ (idx = 0 => r.v = v)
<1> DEFINE d == AtEntry(dj, idx, dj.clust, dj.sect)
           k == idx \div PerTable
<1>1. r = SeekAt(v, d, idx)  BY SetsDir DEF DirSdi, Indexed
<1>2. SameDir(dj, d) /\ d.index = idx /\ DjFields(d) /\ d.sclust = dj.sclust
  BY MovesDir DEF SameDir, SameName
<1> HIDE DEF d
<1>3. k \in Nat /\ \A n \in Nat : idx < n * PerTable <=> k < n  BY PlacesNext
<1>4. \A i, c, s : SameDir(dj, AtEntry(d, i, c, s))  BY <1>2, MovesDir DEF SameDir, SameName
<1>5. \A i, c, s : AtEntry(d, i, c, s).index = i /\ AtEntry(d, i, c, s).clust = c /\ AtEntry(d, i, c, s).sect = s
  BY MovesDir
<1>7. RowsOf(e) \in Nat  BY TableKnown DEF Sees
<1>8. CASE e = <<>>
  <2>1. ~Fat32 /\ d.sclust = 0 /\ RowsOf(e) = RootTables
    BY <1>2, <1>8, TableKnown DEF Sees, OfTable, RowsOf
  <2>2. ~(d.sclust = 1 \/ d.sclust >= NFatEnt)  BY <2>1, Numbers
  <2>3. r = SeekStatic(v, d, idx)  BY <1>1, <2>1, <2>2, Zenon DEF SeekAt
  <2>4. CASE idx >= RootTables * PerTable
    <3>1. r = Fails(v, d, "FR_INT_ERR")  BY <2>3, <2>4 DEF SeekStatic
    <3>2. r.v = v /\ r.dj = d /\ r.res = "FR_INT_ERR"  BY <3>1 DEF Fails, With, Failed
    <3>3. ~HasEntry(e, idx)  BY <1>3, <1>7, <2>1, <2>4, TableAssumption DEF HasEntry
    <3> QED  BY <1>2, <3>2, <3>3 DEF Goes
  <2>5. CASE ~(idx >= RootTables * PerTable)
    <3> DEFINE g == AtEntry(d, idx, 0, RootSector(k))
    <3>1. r = Done(v, [d EXCEPT !.clust = 0, !.sect = RootSector(k)])
      BY <2>3, <2>5 DEF SeekStatic
    <3>2. r = Done(v, g)
      <4> DEFINE s == RootSector(k)
                 z == 0
      <4>1. r = Done(v, Clustered(d, z, s)) /\ g = AtEntry(d, d.index, z, s)
        BY <1>2, <3>1 DEF Clustered
      <4> HIDE DEF s, z, g
      <4> QED  BY <1>2, <4>1, SetsDir
    <3>3. SameDir(dj, g) /\ g.index = idx /\ g.clust = 0 /\ g.sect = RootSector(k)
      BY <1>4, <1>5
    <3> HIDE DEF g
    <3>4. r.v = v /\ r.dj = g /\ r.res = "FR_OK"  BY <3>2 DEF Done, With, Ok
    <3>5. HasEntry(e, idx)  BY <1>3, <1>7, <2>1, <2>5, TableAssumption DEF HasEntry
    <3>6. At(e, idx, g)  BY <1>8, <3>3, <3>5 DEF At, SectorAt, ClusterAt
    <3> QED  BY <3>3, <3>4, <3>6 DEF Goes
  <2> QED  BY <2>4, <2>5
<1>9. CASE e # <<>>
  <2> DEFINE c == IF d.sclust = 0 THEN 2 ELSE d.sclust
             m == SeekEnd(Seeking(v, c, "FR_OK"), k)
  <2>1. Path(a.fat, e) /\ RowsOf(e) = Len(e) /\ Drawn(v, a)
    BY <1>9, TableKnown DEF Sees, RowsOf
  <2>2. e[1] \in Clusters  BY <2>1, PathNotEmpty
  <2>3. c = e[1] /\ (d.sclust = 0 => Fat32) /\ ~(d.sclust = 1 \/ d.sclust >= NFatEnt)
    BY <1>2, <1>9, <2>2, Numbers DEF OfTable
  <2>4. r = SeekFrom(v, d, c, idx)
    <3>1. ~(d.sclust = 0 /\ ~Fat32)  BY <2>3
    <3> QED  BY <1>1, <2>3, <3>1, Zenon DEF SeekAt
  <2>5. r = Reached(m, d)  BY <2>4 DEF SeekFrom, SeekEnd
  <2>6. m = SeekEnd(Seeking(v, e[1], "FR_OK"), k)  BY <2>3
  <2> HIDE DEF m, c, k
  <2>7. SoughtTo(a, e, k, m) /\ (k = 0 => m.v = v)  BY <1>3, <2>1, <2>6, SeekIsDone
  <2>8. idx = 0 => k = 0  BY PlacesNext DEF k
  <2>9. Sees(m.v, a, E, H)  BY <2>7 DEF SoughtTo, Sees
  <2>10. CASE m.res = "FR_OK"
    <3> DEFINE g == AtEntry(d, idx, m.clst, DataSector(m.clst))
    <3>1. r = Done(m.v, [d EXCEPT !.clust = m.clst, !.sect = DataSector(m.clst)])
      BY <2>5, <2>10 DEF Reached
    <3>2. r = Done(m.v, g)
      <4> DEFINE s == DataSector(m.clst)
                 z == m.clst
      <4>1. r = Done(m.v, Clustered(d, z, s)) /\ g = AtEntry(d, d.index, z, s)
        BY <1>2, <3>1 DEF Clustered
      <4> HIDE DEF s, z, g
      <4> QED  BY <1>2, <4>1, SetsDir
    <3>3. SameDir(dj, g) /\ g.index = idx /\ g.clust = m.clst /\ g.sect = DataSector(m.clst)
      BY <1>4, <1>5
    <3> HIDE DEF g
    <3>4. r.v = m.v /\ r.dj = g /\ r.res = "FR_OK"  BY <3>2 DEF Done, With, Ok
    <3>5. k < Len(e) /\ m.clst = e[k + 1]  BY <2>7, <2>10 DEF SoughtTo
    <3>6. HasEntry(e, idx)  BY <1>3, <1>7, <2>1, <3>5 DEF HasEntry
    <3>7. At(e, idx, g)  BY <1>9, <3>3, <3>5, <3>6 DEF At, SectorAt, ClusterAt, k
    <3> QED  BY <2>7, <2>8, <2>9, <3>3, <3>4, <3>7 DEF Goes
  <2>11. CASE m.res # "FR_OK"
    <3>1. r = Fails(m.v, d, m.res)  BY <2>5, <2>11 DEF Reached
    <3>2. r.v = m.v /\ r.dj = d /\ r.res = m.res  BY <3>1 DEF Fails, With, Failed
    <3>3. m.res = "FR_INT_ERR" /\ k >= Len(e)  BY <2>7, <2>11 DEF SoughtTo
    <3>4. ~HasEntry(e, idx)  BY <1>3, <1>7, <2>1, <3>3 DEF HasEntry
    <3> QED  BY <1>2, <2>7, <2>8, <2>9, <3>2, <3>3, <3>4 DEF Goes
  <2> QED  BY <2>10, <2>11
<1> QED  BY <1>8, <1>9

\* What dir_next does at entry i of the table e. Behind the last entry it has to stretch the table,
\* if it may, and the static root directory it cannot.
NextAt(a, E, H, e, i, dj, stretch, r) ==
  /\ HasEntry(e, i + 1) => Goes(r) /\ Sees(r.v, a, E, H) /\ SameDir(dj, r.dj) /\ At(e, i + 1, r.dj)
  /\ ~HasEntry(e, i + 1) /\ (e = <<>> \/ ~stretch) =>
       r.res = "FR_NO_FILE" /\ Sees(r.v, a, E, H) /\ r.dj = dj
  /\ ~HasEntry(e, i + 1) /\ e # <<>> /\ stretch =>
       \E w : r = StretchTable(CreateChain(w, LastOf(e)), dj) /\ Sees(w, a, E, H) /\ (i + 1) % PerTable = 0

\* dir_next within a sector.
LEMMA NextInSector ==
  ASSUME NEW v, NEW a, NEW E, NEW H, Sees(v, a, E, H), NEW e, IsTable(a.dirs, e), NEW i, NEW dj, At(e, i, dj), DjFields(dj),
         NEW stretch, NEW r, r = DirNext(v, dj, stretch), (i + 1) % PerTable # 0
  PROVE  NextAt(a, E, H, e, i, dj, stretch, r)
<1> DEFINE k == i + 1
           d == AtEntry(dj, k, dj.clust, dj.sect)
<1>1. dj.index = i /\ i \in Nat /\ HasEntry(e, i)  BY DEF At, HasEntry
<1>2. r = Done(v, [dj EXCEPT !.index = @ + 1])  BY <1>1 DEF DirNext
<1>3. r = Done(v, d)
  <2>1. r = Done(v, Indexed(dj, k)) /\ d = AtEntry(dj, k, dj.clust, dj.sect)
    BY <1>1, <1>2 DEF Indexed
  <2> HIDE DEF k, d
  <2> QED  BY <2>1, SetsDir
<1>4. SameDir(dj, d) /\ d.index = k /\ d.clust = dj.clust /\ d.sect = dj.sect  BY MovesDir
<1> HIDE DEF d
<1>5. r.v = v /\ r.dj = d /\ r.res = "FR_OK"  BY <1>3 DEF Done, With, Ok
<1>6. RowsOf(e) \in Nat /\ k \in Nat  BY <1>1, TableKnown DEF Sees
<1>7. k \div PerTable = i \div PerTable  BY <1>1, PlacesNext
<1>8. HasEntry(e, k)
  <2>1. \A n \in Nat : i < n * PerTable <=> i \div PerTable < n  BY <1>1, PlacesNext
  <2>2. \A n \in Nat : k < n * PerTable <=> k \div PerTable < n  BY <1>6, PlacesNext
  <2> HIDE DEF k
  <2> QED  BY <1>1, <1>6, <1>7, <2>1, <2>2 DEF HasEntry
<1>9. At(e, k, d)  BY <1>4, <1>7, <1>8 DEF At
<1> QED  BY <1>4, <1>5, <1>8, <1>9 DEF NextAt, Goes

\* dir_next behind a sector of the fixed root directory.
LEMMA NextInRoot ==
  ASSUME NEW v, NEW a, NEW E, NEW H, Sees(v, a, E, H), NEW e, IsTable(a.dirs, e), NEW i, NEW dj, At(e, i, dj), DjFields(dj),
         NEW stretch, NEW r, r = DirNext(v, dj, stretch), (i + 1) % PerTable = 0, e = <<>>
  PROVE  NextAt(a, E, H, e, i, dj, stretch, r)
<1> DEFINE k == i + 1
           s == RootSector(k \div PerTable)
           d == AtEntry(dj, k, dj.clust, s)
<1>1. dj.index = i /\ i \in Nat /\ HasEntry(e, i) /\ dj.clust = 0
  BY DEF At, HasEntry, ClusterAt
<1>2. r = NextStatic(v, dj)  BY <1>1, Zenon DEF DirNext
<1>3. RowsOf(e) = RootTables  BY DEF RowsOf
<1>4. HasEntry(e, k) <=> ~(dj.index + 1 >= RootTables * PerTable)
  BY <1>1, <1>3, TableAssumption DEF HasEntry
<1>5. CASE ~HasEntry(e, k)
  <2>1. r = Fails(v, dj, "FR_NO_FILE")  BY <1>2, <1>4, <1>5 DEF NextStatic
  <2>2. r.v = v /\ r.dj = dj /\ r.res = "FR_NO_FILE"  BY <2>1 DEF Fails, With, Failed
  <2> QED  BY <1>5, <2>2 DEF NextAt
<1>6. CASE HasEntry(e, k)
  <2>1. r = Done(v, [dj EXCEPT !.index = @ + 1, !.sect = s])
    BY <1>1, <1>2, <1>4, <1>6 DEF NextStatic
  <2>2. r = Done(v, d)
    <3>1. r = Done(v, Sectored(dj, k, s)) /\ d = AtEntry(dj, k, dj.clust, s)
      BY <1>1, <2>1 DEF Sectored
    <3> HIDE DEF k, d, s
    <3> QED  BY <3>1, SetsDir
  <2>3. SameDir(dj, d) /\ d.index = k /\ d.clust = dj.clust /\ d.sect = s  BY MovesDir
  <2> HIDE DEF d
  <2>4. r.v = v /\ r.dj = d /\ r.res = "FR_OK"  BY <2>2 DEF Done, With, Ok
  <2>5. At(e, k, d)  BY <1>1, <1>6, <2>3 DEF At, SectorAt, ClusterAt
  <2> QED  BY <1>6, <2>3, <2>4, <2>5 DEF NextAt, Goes
<1> QED  BY <1>5, <1>6

\* dir_next behind the cluster of a table with a chain.
LEMMA NextInChain ==
  ASSUME NEW v, NEW a, NEW E, NEW H, Sees(v, a, E, H), NEW e, IsTable(a.dirs, e), NEW i, NEW dj, At(e, i, dj), DjFields(dj),
         NEW stretch \in BOOLEAN, NEW r, r = DirNext(v, dj, stretch), (i + 1) % PerTable = 0, e # <<>>
  PROVE  NextAt(a, E, H, e, i, dj, stretch, r)
<1> DEFINE k == i + 1
           q == i \div PerTable
           F == a.fat
           c == dj.clust
           g == GetFat(v, c)
<1>1. dj.index = i /\ i \in Nat /\ HasEntry(e, i) /\ dj.clust = e[q + 1]
  BY DEF At, HasEntry, ClusterAt
<1>2. Chained(F, e) /\ RowsOf(e) = Len(e) /\ Len(e) \in Nat /\ Path(F, e)
  <2>1. Chained(F, e) /\ Path(F, e)  BY TableKnown DEF Sees
  <2> QED  BY <2>1, ChainKind DEF RowsOf
<1>3. q \in Nat /\ k \div PerTable = q + 1 /\ k \in Nat  BY <1>1, PlacesNext
<1>4. q < Len(e) /\ (HasEntry(e, k) <=> q + 1 < Len(e))
  <2>1. i < Len(e) * PerTable <=> q < Len(e)  BY <1>1, <1>2, PlacesNext
  <2>2. k < Len(e) * PerTable <=> k \div PerTable < Len(e)  BY <1>2, <1>3, PlacesNext
  <2> HIDE DEF k, q
  <2> QED  BY <1>1, <1>2, <1>3, <2>1, <2>2 DEF HasEntry
<1> DEFINE n == q + 1
<1>5. n \in 1..Len(e) /\ c = e[n] /\ c \in Clusters /\ F[c] = IF n < Len(e) THEN e[n + 1] ELSE LastLink
  <2>1. n \in 1..Len(e)  BY <1>2, <1>3, <1>4
  <2> HIDE DEF n
  <2>2. e[n] \in Clusters /\ F[e[n]] = IF n < Len(e) THEN e[n + 1] ELSE LastLink
    BY <1>2, <2>1, ChainKind
  <2> QED  BY <1>1, <2>1, <2>2 DEF n
<1>6. r = NextCluster(g, dj, stretch)
  <2>1. ~((dj.index + 1) % PerTable # 0)  BY <1>1
  <2>2. ~((dj.index + 1) % PerTable = 0 /\ dj.clust = 0)  BY <1>5, Numbers
  <2> QED  BY <2>1, <2>2, Zenon DEF DirNext
<1>7. g = GetFat(v, c)  OBVIOUS
<1> HIDE DEF g
<1>8. g.val = F[c] /\ Sees(g.v, a, E, H)
  <2> DEFINE T == Tables(a)
  <2>1. Shows(v, T, F, a.rows)  BY DEF Sees, Drawn
  <2> HIDE DEF T, F, c
  <2>2. g.val = F[c] /\ Shows(g.v, T, F, a.rows)  BY <1>5, <1>7, <2>1, EntrySeen DEF T
  <2> QED  BY <2>2 DEF Sees, Drawn, T, F
<1> HIDE DEF c
<1>9. CASE HasEntry(e, k)
  <2> DEFINE m == g.val
             s == DataSector(m)
             d == AtEntry(dj, k, m, s)
  <2>1. n < Len(e) /\ n + 1 \in 1..Len(e)  BY <1>2, <1>4, <1>5, <1>9
  <2>2. m = e[n + 1] /\ m \in Clusters  BY <1>2, <1>5, <1>8, <2>1, ChainKind
  <2>3. r = Enter(g.v, dj, m)
    <3>1. ~(g.val <= 1) /\ g.val # Max32  BY <2>2, Numbers
    <3> QED  BY <1>6, <2>2, <3>1, Zenon DEF NextCluster
  <2>4. r = Done(g.v, d)
    <3>1. r = Done(g.v, Entered(dj, k, m, s)) /\ d = AtEntry(dj, k, m, s)
      BY <1>1, <2>3 DEF Enter, Entered
    <3> HIDE DEF k, m, s, d
    <3> QED  BY <3>1, SetsDir
  <2>5. SameDir(dj, d) /\ d.index = k /\ d.clust = m /\ d.sect = s  BY MovesDir
  <2> HIDE DEF d
  <2>6. r.v = g.v /\ r.dj = d /\ r.res = "FR_OK"  BY <2>4 DEF Done, With, Ok
  <2>7. At(e, k, d)  BY <1>3, <1>9, <2>2, <2>5 DEF At, SectorAt, ClusterAt
  <2> QED  BY <1>8, <1>9, <2>5, <2>6, <2>7 DEF NextAt, Goes
<1>10. CASE ~HasEntry(e, k)
  <2>1. g.val = LastLink /\ n = Len(e)  BY <1>2, <1>4, <1>5, <1>8, <1>10
  <2>2. ~(g.val <= 1) /\ g.val # Max32 /\ g.val \notin Clusters  BY <2>1, Numbers
  <2>3. r = IF stretch THEN StretchTable(CreateChain(g.v, dj.clust), dj) ELSE Fails(g.v, dj, "FR_NO_FILE")
    BY <1>6, <2>2, Zenon DEF NextCluster
  <2>4. c = LastOf(e)  BY <1>5, <2>1 DEF LastOf
  <2>5. CASE stretch
    <3>1. r = StretchTable(CreateChain(g.v, LastOf(e)), dj)  BY <2>3, <2>4, <2>5 DEF c
    <3> QED  BY <1>8, <1>10, <2>5, <3>1 DEF NextAt
  <2>6. CASE ~stretch
    <3>1. r = Fails(g.v, dj, "FR_NO_FILE")  BY <2>3, <2>6
    <3>2. r.v = g.v /\ r.dj = dj /\ r.res = "FR_NO_FILE"  BY <3>1 DEF Fails, With, Failed
    <3> QED  BY <1>8, <1>10, <2>6, <3>2 DEF NextAt
  <2> QED  BY <2>5, <2>6
<1> QED  BY <1>9, <1>10

\* dir_next: the next entry, the end of the table, or a stretched table.
LEMMA DirGoesOn ==
  ASSUME NEW v, NEW a, NEW E, NEW H, Sees(v, a, E, H), NEW e, IsTable(a.dirs, e), NEW i, NEW dj, At(e, i, dj), DjFields(dj),
         NEW stretch \in BOOLEAN, NEW r, r = DirNext(v, dj, stretch)
  PROVE  NextAt(a, E, H, e, i, dj, stretch, r)
BY NextInSector, NextInRoot, NextInChain

----------------------------------------------------------------------------
(* The loops over the entries of a table.                                  *)

\* The loops that walk through a table, by name.
LEMMA LooksAre ==
  ASSUME NEW v, NEW dj, NEW st
  PROVE  /\ Look("alloc", v, dj, st) = AllocLook(v, dj, st)
         /\ Look("find", v, dj, st) = FindLook(v, dj, st)
         /\ Look("read", v, dj, st) = ReadLook(v, dj, st)
         /\ Look("label", v, dj, st) = LabelLook(v, dj, st)
         /\ Look("store", v, dj, st) = StoreLook(v, dj, st)
         /\ Look("delete", v, dj, st) = DeleteLook(v, dj, st)
BY DEF Look

\* What a look at an entry returns.
LEMMA SaidIs ==
  ASSUME NEW v, NEW dj, NEW says, NEW st, NEW m, m = Said(v, dj, says, st)
  PROVE  m.v = v /\ m.dj = dj /\ m.res = says /\ m.st = st
BY DEF Said

\* A round of a loop that goes on: the sector is brought in, and then the entry is looked at.
RoundAt(a, E, H, e, i, l) == Sees(l.v, a, E, H) /\ At(e, i, l.dj) /\ l.res = "more" /\ IsTable(a.dirs, e)
LooksAt(loop, a, E, H, e, i, d, st, m) ==
  \E w : Sees(w, a, E, H) /\ InWindow(w, a, e, i, d) /\ m = Onward(Look(loop, w, d, st), loop)

\* A round of a walk loads the sector of its entry and looks at it.
LEMMA RoundLooks ==
  ASSUME NEW loop, NEW a, NEW E, NEW H, NEW e, NEW i, NEW l, RoundAt(a, E, H, e, i, l), NEW m, m = ScanRound(l, loop)
  PROVE  LooksAt(loop, a, E, H, e, i, l.dj, l.st, m)
<1> DEFINE r == Load(l.v, l.dj)
           d == l.dj
<1>1. m = Onward(LookIf(r, loop, l.st), loop)  BY DEF ScanRound, RoundAt
<1>2. r = Load(l.v, d)  OBVIOUS
<1> HIDE DEF r, d
<1>3. At(e, i, d) /\ Sees(l.v, a, E, H) /\ IsTable(a.dirs, e)  BY DEF d, RoundAt
<1>4. Goes(r) /\ Sees(r.v, a, E, H) /\ r.dj = d /\ InWindow(r.v, a, e, i, d)
  BY <1>2, <1>3, Loaded
<1>5. LookIf(r, loop, l.st) = Look(loop, r.v, d, l.st)  BY <1>4 DEF LookIf, Goes
<1> QED  BY <1>1, <1>4, <1>5 DEF d, LooksAt

\* And then the loop goes on to the next entry, if there is one.
StepsOn(a, E, H, e, i, m, x) ==
  /\ Sees(x.v, a, E, H) /\ SameDir(m.dj, x.dj) /\ x.st = m.st
  /\ \/ x.res = "more" /\ At(e, i + 1, x.dj)
     \/ x.res = "FR_NO_FILE" /\ ~HasEntry(e, i + 1)

\* A walk that has not found its entry goes to the next one.
LEMMA LoopStepsOn ==
  ASSUME NEW loop, loop # "alloc", NEW a, NEW E, NEW H, NEW e, IsTable(a.dirs, e), NEW i, NEW m, Sees(m.v, a, E, H),
         At(e, i, m.dj), DjFields(m.dj), m.res = "more", NEW x, x = Onward(m, loop)
  PROVE  StepsOn(a, E, H, e, i, m, x)
<1> DEFINE v == m.v
           dj == m.dj
           stretch == FALSE
           r == DirNext(v, dj, stretch)
<1>1. x = StepOn(r, m.st)
  <2>1. (loop = "alloc") = stretch  OBVIOUS
  <2> QED  BY <2>1 DEF Onward
<1>2. r = DirNext(v, dj, stretch)  OBVIOUS
<1> HIDE DEF r
<1>3. NextAt(a, E, H, e, i, dj, stretch, r)
  <2>1. stretch \in BOOLEAN  OBVIOUS
  <2> HIDE DEF stretch
  <2> QED  BY <1>2, <2>1, DirGoesOn
<1>4. x.v = r.v /\ x.dj = r.dj /\ x.st = m.st /\ x.res = IF r.res = "FR_OK" THEN "more" ELSE r.res
  BY <1>1, SaidIs DEF StepOn
<1>5. SameDir(dj, dj)  BY DEF SameDir, SameName
<1>6. CASE HasEntry(e, i + 1)
  <2>1. Goes(r) /\ Sees(r.v, a, E, H) /\ SameDir(dj, r.dj) /\ At(e, i + 1, r.dj)
    BY <1>3, <1>6 DEF NextAt
  <2> QED  BY <1>4, <2>1 DEF StepsOn, Goes
<1>7. CASE ~HasEntry(e, i + 1)
  <2>1. r.res = "FR_NO_FILE" /\ Sees(r.v, a, E, H) /\ r.dj = dj  BY <1>3, <1>7 DEF NextAt
  <2> QED  BY <1>4, <1>5, <1>7, <2>1 DEF StepsOn
<1> QED  BY <1>6, <1>7

\* A walk that has found its entry stops there.
LEMMA LoopStops ==
  ASSUME NEW loop, NEW m, m.res # "more", NEW x, x = Onward(m, loop)
  PROVE  x = m
BY DEF Onward

\* No table has more entries than there are rounds.
LEMMA RoundsEnough ==
  ASSUME NEW a, NEW E, NEW H, Picture(a, E, H), NEW e, IsTable(a.dirs, e)
  PROVE  MaxRounds \in Nat /\ \A i : HasEntry(e, i) => i \in Nat /\ i < MaxRounds
<1>1. RowsOf(e) \in Nat  BY TableKnown
<1>2. RowsOf(e) <= NFatEnt + RootTables
  <2>1. CASE e = <<>>  BY <2>1, Numbers, TableAssumption, GeometryAssumption DEF RowsOf
  <2>2. CASE e # <<>>
    <3>1. Path(a.fat, e)  BY <2>2, TableKnown
    <3>2. e \in Seq(Clusters) /\ \A i, j \in 1..Len(e) : e[i] = e[j] => i = j  BY <3>1 DEF Path
    <3>3. Len(e) \in Nat /\ Len(e) <= NFatEnt - 2  BY <3>2, PathBounded
    <3> QED  BY <2>2, <3>3, TableAssumption, GeometryAssumption DEF RowsOf
  <2> QED  BY <2>1, <2>2
<1> DEFINE M == NFatEnt + RootTables
<1>3. M \in Nat /\ MaxRounds = M * PerTable
  BY TableAssumption, GeometryAssumption DEF MaxRounds
<1> HIDE DEF M
<1>4. M * PerTable \in Nat /\ RowsOf(e) * PerTable <= M * PerTable
  <2>1. RowsOf(e) <= M  BY <1>2 DEF M
  <2>2. \A x, y \in Nat : x <= y => y * PerTable >= x * PerTable /\ y * PerTable \in Nat
    BY TableAssumption, SectorsInOrder
  <2> QED  BY <1>1, <1>3, <2>1, <2>2, TableAssumption
<1>5. RowsOf(e) * PerTable \in Nat  BY <1>1, TableAssumption
<1> QED  BY <1>3, <1>4, <1>5 DEF HasEntry
=============================================================================
