------------------------------ MODULE FatFormat ------------------------------
(***************************************************************************)
(* f_mkfs(0, 1, 0) of fatcli/src/ff.c, which makes a volume of a whole     *)
(* image and chooses the cluster size itself, and the part of chk_mounted  *)
(* that finds out what such a volume is.  Sizes are as in the code, in     *)
(* sectors of 512 bytes; a volume is the record of the fields of its boot  *)
(* sector, and which sectors were cleared.                                 *)
(***************************************************************************)
EXTENDS Integers, Sequences

SS == 512
SZ_DIR == 32
MIN_FAT16 == 4086
MIN_FAT32 == 65526
N_ROOTDIR == 512
N_FATS == 1
AsWord(n) == n % 65536

vst == <<1024, 512, 256, 128, 64, 32, 16, 8, 4, 2, 0>>
cst == <<32768, 16384, 8192, 4096, 2048, 16384, 8192, 4096, 2048, 1024, 512>>

TypeFor(nClst) ==
  CASE nClst >= MIN_FAT32 -> "FS_FAT32"
    [] nClst < MIN_FAT32 /\ nClst >= MIN_FAT16 -> "FS_FAT16"
    [] OTHER -> "FS_FAT12"

\* Sectors in a cluster: the first row of the table that is not above the size.
Row(vs) == CHOOSE i \in 1..Len(vst) : vs >= vst[i] /\ \A j \in 1..(i - 1) : vs < vst[j]
ClusterSize(nVol) == cst[Row(nVol \div 2000)] \div SS

RoundedUp(bytes) == (bytes + SS - 1) \div SS

\* n_fat, from the number of clusters that the volume would have without it.
FatSize(fmt, nClst) ==
  CASE fmt = "FS_FAT32" -> RoundedUp(nClst * 4 + 8)
    [] fmt = "FS_FAT12" -> RoundedUp((nClst * 3 + 1) \div 2 + 3)
    [] OTHER            -> RoundedUp(nClst * 2 + 4)

\* Mutant of BootSector: a size of 65536 goes into the 16-bit field.
BootSectorWide(nVol, fmt, au, nRsv, nFat, nDir) ==
  [SecPerClus |-> au % 256, RsvdSecCnt |-> AsWord(nRsv), NumFATs |-> N_FATS,
   RootEntCnt |-> IF fmt = "FS_FAT32" THEN 0 ELSE N_ROOTDIR,
   TotSec16   |-> IF nVol <= 65536 THEN AsWord(nVol) ELSE 0,
   TotSec32   |-> IF nVol <= 65536 THEN 0 ELSE nVol,
   FATSz16    |-> IF fmt = "FS_FAT32" THEN 0 ELSE AsWord(nFat),
   FATSz32    |-> IF fmt = "FS_FAT32" THEN nFat ELSE 0,
   RootClus   |-> IF fmt = "FS_FAT32" THEN 2 ELSE 0]

\* The fields of the boot sector that f_mkfs writes.
BootSector(nVol, fmt, au, nRsv, nFat, nDir) ==
  [SecPerClus |-> au % 256, RsvdSecCnt |-> AsWord(nRsv), NumFATs |-> N_FATS,
   RootEntCnt |-> IF fmt = "FS_FAT32" THEN 0 ELSE N_ROOTDIR,
   TotSec16   |-> IF nVol < 65536 THEN nVol ELSE 0,
   TotSec32   |-> IF nVol < 65536 THEN 0 ELSE nVol,
   FATSz16    |-> IF fmt = "FS_FAT32" THEN 0 ELSE AsWord(nFat),
   FATSz32    |-> IF fmt = "FS_FAT32" THEN nFat ELSE 0,
   RootClus   |-> IF fmt = "FS_FAT32" THEN 2 ELSE 0]

Refused(res) == [res |-> res]
Formatted(nVol, fmt, au, nRsv, nFat, nDir, nClst) ==
  [res |-> "FR_OK", fmt |-> fmt, nClst |-> nClst,
   boot |-> BootSector(nVol, fmt, au, nRsv, nFat, nDir),
   cleared |-> [from |-> nRsv,
                to   |-> nRsv + nFat * N_FATS + (IF fmt = "FS_FAT32" THEN au ELSE nDir)],
   FreeCount |-> IF fmt = "FS_FAT32" THEN nClst - 1 ELSE -1]

\* nClst are the clusters that the tables leave: the sub-type must be the same still.
Final(nVol, fmt, au, nRsv, nFat, nDir, nClst) ==
  IF \/ fmt = "FS_FAT16" /\ nClst < MIN_FAT16
     \/ fmt = "FS_FAT32" /\ nClst < MIN_FAT32
  THEN Refused("FR_MKFS_ABORTED")
  ELSE Formatted(nVol, fmt, au, nRsv, nFat, nDir, nClst)

LaidOut(nVol, fmt, au, nRsv, nFat, nDir) ==
  IF nVol < nRsv + nFat * N_FATS + nDir + au THEN Refused("FR_MKFS_ABORTED")
  ELSE Final(nVol, fmt, au, nRsv, nFat, nDir, (nVol - nRsv - nFat * N_FATS - nDir) \div au)

WithType(nVol, fmt, au) ==
  LaidOut(nVol, fmt, au, IF fmt = "FS_FAT32" THEN 32 ELSE 1, FatSize(fmt, nVol \div au),
          IF fmt = "FS_FAT32" THEN 0 ELSE (N_ROOTDIR * SZ_DIR) \div SS)

FMkfs(nVol) ==
  IF nVol < 128 THEN Refused("FR_DISK_ERR")
  ELSE WithType(nVol, TypeFor(nVol \div ClusterSize(nVol)), ClusterSize(nVol))

----------------------------------------------------------------------------
(* chk_mounted; bsect is 0.                                                *)

FatBytes(fmt, nFatEnt) ==
  CASE fmt = "FS_FAT32" -> nFatEnt * 4
    [] fmt = "FS_FAT16" -> nFatEnt * 2
    [] OTHER            -> ((nFatEnt * 3) \div 2) + (nFatEnt % 2)

NoVolume == Refused("FR_NO_FILESYSTEM")

FatSectors(b) == IF b.FATSz16 = 0 THEN b.FATSz32 ELSE b.FATSz16
Total(b) == IF b.TotSec16 = 0 THEN b.TotSec32 ELSE b.TotSec16
System(b) == b.RsvdSecCnt + FatSectors(b) * b.NumFATs + (b.RootEntCnt * SZ_DIR) \div SS

\* nClst is the number of clusters, fmt the sub-type that follows from it.
Mountable(b, nClst, fmt) ==
  /\ b.NumFATs \in {1, 2} /\ b.SecPerClus \in {1, 2, 4, 8, 16, 32, 64, 128}
  /\ b.RootEntCnt % (SS \div SZ_DIR) = 0
  /\ b.RsvdSecCnt # 0 /\ Total(b) >= System(b) /\ nClst # 0
  /\ (fmt = "FS_FAT32") = (b.RootEntCnt = 0)
  /\ FatSectors(b) >= RoundedUp(FatBytes(fmt, nClst + 2))

Found(b, nClst, fmt) ==
  IF ~Mountable(b, nClst, fmt) THEN NoVolume
  ELSE [res |-> "FR_OK", fs_type |-> fmt, n_fatent |-> nClst + 2, csize |-> b.SecPerClus,
        fatbase |-> b.RsvdSecCnt, database |-> System(b),
        dirbase |-> IF fmt = "FS_FAT32" THEN b.RootClus
                    ELSE b.RsvdSecCnt + FatSectors(b) * b.NumFATs]

Clusters(b) == (Total(b) - System(b)) \div b.SecPerClus
ChkMounted(b) == Found(b, Clusters(b), TypeFor(Clusters(b)))
=============================================================================
