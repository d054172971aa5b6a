-------------------------------- MODULE Fat12 --------------------------------
(***************************************************************************)
(* FAT12 entries, get_fat and put_fat of fatcli/src/ff.c: an entry has 12  *)
(* bits, one and a half bytes, and may lie across two sectors.  The table  *)
(* is a function from addresses to bytes, its sectors have SectorSize.     *)
(***************************************************************************)
EXTENDS Integers

CONSTANTS SectorSize

ASSUME SectorAssumption == SectorSize \in Nat /\ SectorSize > 1

FirstByte(c) == c + c \div 2

Get12(table, c) ==
  LET wc == table[FirstByte(c)] + 256 * table[FirstByte(c) + 1]
  IN  IF c % 2 = 1 THEN wc \div 16 ELSE wc % 4096

\* The first byte, then the second: in between move_window may write the sector of the
\* first and read the next one.
PutLow(table, c, val) ==
  [table EXCEPT ![FirstByte(c)] =
     IF c % 2 = 1 THEN (@ % 16) + ((val * 16) % 256) ELSE val % 256]

\* Mutant of PutHigh: the other entry's half is not kept.
PutHighAlone(table, c, val) ==
  [table EXCEPT ![FirstByte(c) + 1] =
     IF c % 2 = 1 THEN (val \div 16) % 256 ELSE (val \div 256) % 16]

PutHigh(table, c, val) ==
  [table EXCEPT ![FirstByte(c) + 1] =
     IF c % 2 = 1 THEN (val \div 16) % 256 ELSE (@ - (@ % 16)) + ((val \div 256) % 16)]

Put12(table, c, val) == PutHigh(PutLow(table, c, val), c, val)
=============================================================================
