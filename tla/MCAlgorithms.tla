---------------------------- MODULE MCAlgorithms ----------------------------
(***************************************************************************)
(* Inputs for the functions of Algorithms.  The widths of time periods and *)
(* the limits of the ACPI table are scaled down, so that every rounding,   *)
(* carry and limit is met; volumes have their real sizes.                  *)
(***************************************************************************)
EXTENDS Algorithms

\* Past the longest that fits, and every period there is.
SomeLengths == 0..1100
AllPeriods == 0..127
SomeClocks == (0..160) \cup {4000, 4095, 4096, 8160, 8190, 8191}

\* No two bytes near each other are the same; and few values, for memcmp.
Cell == 0..25
SomeMemories ==
  {[a \in Cell |-> (37 * a + 5) % 256]}
    \cup {[a \in Cell |-> IF a % 13 \in DOMAIN t THEN t[a % 13] ELSE (a \div 13)] :
            t \in [0..2 -> {0, 255}]}
SomeAddresses == {0, 1, 2, 13}
SomeLens == (0..4) \cup (7..9) \cup (14..18) \cup {24}
SomeValues == {0, 1, 200}

\* Ten entries of a FAT12 table, whose sectors have four bytes here.
EntryBytes == 3..17
SomeTables ==
  {[a \in EntryBytes |-> 0], [a \in EntryBytes |-> 255], [a \in EntryBytes |-> (59 * a) % 256]}
SomeFatEntries == 2..10
SomeLinks == (0..64) \cup {2048, 2748} \cup (4072..4095)

\* Around every size at which f_mkfs chooses another cluster size, every number of clusters
\* at which the FAT type changes, 16-bit sizes, and the largest volume.
Near(n, w) == (n - w)..(n + w)
SomeImages ==
  (1..12000) \cup UNION {Near(2000 * vst[i], 20) : i \in 1..10}
    \cup Near(65536, 3) \cup Near(65536 + 2000 * 3, 5)
    \cup (4193550..4194250) \cup Near(134217728, 20) \cup 2147483600..2147483646

SomeMaxPin == [a \in {1, 2} |-> a + 1]
\* The IO APICs hold interrupts 0..2, 3..6 and, when the one that does not work is listed, 7
\* on; two overrides of 3 in place, and others that redirect 0 and 4.
SomeEntries ==
  {[type |-> "APIC", id |-> 7, enabled |-> b] : b \in BOOLEAN}
    \cup {[type |-> "IOAPIC", addr |-> 1, irqBase |-> 0],
          [type |-> "IOAPIC", addr |-> 2, irqBase |-> 3],
          [type |-> "IOAPIC", addr |-> 0, irqBase |-> 7]}
    \cup {[type |-> "IRQOVERRIDE", isaIrq |-> p[1], apicIrq |-> p[2], low |-> p[3], level |-> p[4]] :
            p \in {<<0, 2, FALSE, FALSE>>, <<3, 3, TRUE, TRUE>>, <<3, 3, FALSE, TRUE>>,
                   <<4, 5, TRUE, FALSE>>}}

\* ACPI lists an IO APIC once.
SomeMadts ==
  {t \in UNION {[1..n -> SomeEntries] : n \in 0..4} :
     \A j, k \in DOMAIN t : (t[j].type = "IOAPIC" /\ t[j] = t[k]) => j = k}
=============================================================================
