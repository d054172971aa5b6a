----------------------------- MODULE Algorithms -----------------------------
(***************************************************************************)
(* The functions of the kernel and of fatcli that compute a result from    *)
(* their arguments alone, each called once: call says which, with what,    *)
(* and ret is what it returned.  The properties compare the results with   *)
(* what the functions are for, said without their steps.                   *)
(***************************************************************************)
EXTENDS TimePeriod, MemFunctions, Fat12, FatFormat, IoApic, FiniteSets

CONSTANTS
  Lengths, Periods, Clocks,   \* time.c
  Memories, Addresses, Lens, Values,   \* util.s
  Tables, FatEntries, Links,  \* get_fat, put_fat
  Images,                     \* sectors in the image that is formatted
  Madts

\* The widths of the arguments.
ASSUME TimeAssumption ==
  /\ Lengths \cup Clocks \subseteq 0..(Pow2[ClockBits] - 1)
  /\ Periods \subseteq 0..(2 * Pow2[MantissaBits + ExponentBits] - 1)

ASSUME MemoryAssumption ==
  /\ \A mem \in Memories : mem \in [DOMAIN mem -> 0..255] /\ DOMAIN mem \subseteq Int
  /\ Addresses \subseteq Int /\ Lens \subseteq Nat /\ Values \subseteq 0..255

\* The table has the bytes of all its entries, whose values have 12 bits.
ASSUME TableAssumption ==
  /\ FatEntries \subseteq Nat /\ Links \subseteq 0..4095
  /\ \A table \in Tables :
       /\ table \in [DOMAIN table -> 0..255] /\ DOMAIN table \subseteq Int
       /\ \A c \in FatEntries : {FirstByte(c), FirstByte(c) + 1} \subseteq DOMAIN table

ASSUME ImageAssumption == Images \subseteq Nat

\* The IO APICs in a table have different addresses and no interrupt in common, their last
\* pins included, and there is a vector for each of their interrupts.
ASSUME MadtAssumption ==
  \A madt \in Madts :
    /\ madt \in Seq(MadtEntry)
    /\ \A k \in DOMAIN madt :
         (madt[k].type = "IOAPIC" /\ madt[k].addr \in DOMAIN MaxPin) =>
           INTR_IRQ + madt[k].irqBase + MaxPin[madt[k].addr] <= 256
    /\ \A j, k \in DOMAIN madt :
         (j # k /\ madt[j].type = "IOAPIC" /\ madt[k].type = "IOAPIC") =>
           /\ madt[j].addr # madt[k].addr
           /\ {madt[j].addr, madt[k].addr} \subseteq DOMAIN MaxPin =>
                \/ madt[j].irqBase + MaxPin[madt[j].addr] < madt[k].irqBase
                \/ madt[k].irqBase + MaxPin[madt[k].addr] < madt[j].irqBase

VARIABLES call, ret
vars == <<call, ret>>

Calls ==
  [fn : {"TimeMakePeriod"}, us : Lengths]
    \cup [fn : {"TimeExpandPeriodBase"}, period : Periods, base : Clocks]
    \cup [fn : {"memcpy"}, mem : Memories, dest : Addresses, src : Addresses, len : Lens]
    \cup [fn : {"memset"}, mem : Memories, dest : Addresses, value : Values, len : Lens]
    \cup [fn : {"memcmp"}, mem : Memories, a : Addresses, b : Addresses, len : Lens]
    \cup [fn : {"put_fat"}, table : Tables, clst : FatEntries, val : Links]
    \cup [fn : {"f_mkfs"}, sectors : Images]
    \cup [fn : {"ParseAcpiTables"}, madt : Madts]

Cells(from, len) == from..(from + len - 1)

\* Every byte is inside the memory, and the arrays of memcpy do not overlap (restrict).
Allowed(c) ==
  /\ c.fn = "memcpy" => /\ Cells(c.dest, c.len) \cup Cells(c.src, c.len) \subseteq DOMAIN c.mem
                        /\ Cells(c.dest, c.len) \cap Cells(c.src, c.len) = {}
  /\ c.fn = "memset" => Cells(c.dest, c.len) \subseteq DOMAIN c.mem
  /\ c.fn = "memcmp" => Cells(c.a, c.len) \cup Cells(c.b, c.len) \subseteq DOMAIN c.mem

Init == call \in {c \in Calls : Allowed(c)} /\ ret = <<>>

Returns(value) == ret = <<>> /\ ret' = <<value>> /\ UNCHANGED call

Next ==
  \/ call.fn = "TimeMakePeriod" /\ Returns(TimeMakePeriod(call.us))
  \/ call.fn = "TimeExpandPeriodBase" /\ Returns(TimeExpandPeriodBase(call.period, call.base))
  \/ call.fn = "memcpy" /\ Returns(MemCpy(call.mem, call.dest, call.src, call.len))
  \/ call.fn = "memset" /\ Returns(MemSet(call.mem, call.dest, call.value, call.len))
  \/ call.fn = "memcmp" /\ Returns(MemCmp(call.mem, call.a, call.b, call.len))
  \/ call.fn = "put_fat" /\ Returns(Put12(call.table, call.clst, call.val))
  \/ call.fn = "f_mkfs" /\ Returns(FMkfs(call.sectors))
  \/ call.fn = "ParseAcpiTables" /\ Returns(ParseAcpiTables(call.madt))

Spec == Init /\ [][Next]_vars

Returned(fn) == call.fn = fn /\ ret # <<>>

----------------------------------------------------------------------------
(* Time periods.                                                           *)

\* A length of time that is made into a period and later added to a clock is the length
\* that was asked for, or shorter by less than a part in 2^(MantissaBits - 1), or the
\* period is the infinite one; that only when it does not fit.  The period is never taken
\* for an absolute one.
MadeIsClose ==
  Returned("TimeMakePeriod") =>
    LET n == call.us
        expanded == TimeExpandPeriodBase(ret[1], 0)
    IN  /\ Relative(ret[1])
        /\ (ret[1] = TIME_PEROID_INFINITE) = (n >= Pow2[MaxLog2 + 1])
        /\ \/ ret[1] = TIME_PEROID_INFINITE
           \/ n = 0 /\ expanded = 0
           \/ expanded <= n /\ (n - expanded) * Pow2[MantissaBits - 1] < n

\* An absolute period replaces the low bits of the clock, in units of 2^exponent: the
\* mantissa and above it the carry, and the bits above those only change by the carry out
\* of the addition.  It claims nothing when both the carry and the bit it replaces are set
\* (time.c:63), and nothing on a clock that has bits above the 32 that ~0x3FFU keeps
\* (time.c:60): there the code does not do what time.c:53 says.
AbsoluteReplaces ==
  (Returned("TimeExpandPeriodBase") /\ ~Relative(call.period)) =>
    LET unit  == Pow2[AbsExponent(call.period)]
        b     == call.base \div unit
        bit   == (b \div Mantissas) % 2
        above == 2 * Mantissas * (b \div (2 * Mantissas))
        units == ret[1] \div unit
    IN  (b < Pow2[MaskBits] /\ ~(Carry(call.period) = 1 /\ bit = 1)) =>
          /\ ret[1] % unit = 0
          /\ units % (2 * Mantissas) = Mantissa(call.period) + Mantissas * Carry(call.period)
          /\ (units - (units % (2 * Mantissas))) * unit
               = Wrapped((above + (IF Carry(call.period) = 0 /\ bit = 1 THEN 2 * Mantissas ELSE 0)) * unit)

----------------------------------------------------------------------------
(* Memory.                                                                 *)

\* memcpy and memset write the bytes they are asked to and no other, whatever the length
\* leaves over from words of eight; memcmp orders arrays by their first bytes that differ, as
\* unsigned numbers.  Of a memset of 8 to 15 bytes with a value other than zero this only
\* says that it writes no other byte, for the code leaves out the last eight (util.s:67).
Copied == ret[1] = [a \in DOMAIN call.mem |->
                      IF a \in Cells(call.dest, call.len) THEN call.mem[call.src + (a - call.dest)]
                      ELSE call.mem[a]]
Filled == ret[1] = [a \in DOMAIN call.mem |->
                      IF a \in Cells(call.dest, call.len) THEN call.value ELSE call.mem[a]]
NoOtherByte == \A a \in DOMAIN call.mem \ Cells(call.dest, call.len) : ret[1][a] = call.mem[a]
Ordered ==
  LET A(i) == call.mem[call.a + i]
      B(i) == call.mem[call.b + i]
      FirstDiffer(i) == A(i) # B(i) /\ \A j \in 0..(i - 1) : A(j) = B(j)
  IN  IF ret[1] = 0 THEN \A i \in 0..(call.len - 1) : A(i) = B(i)
      ELSE \E i \in 0..(call.len - 1) : FirstDiffer(i) /\ (ret[1] > 0) = (A(i) > B(i))
BytesExact ==
  /\ Returned("memcpy") => Copied
  /\ (Returned("memset") /\ (call.value = 0 \/ call.len \notin Word..(2 * Word - 1))) => Filled
  /\ Returned("memset") => NoOtherByte
  /\ Returned("memcmp") => Ordered

----------------------------------------------------------------------------
(* FAT12.                                                                  *)

\* An entry of a FAT12 table that is written can be read back, and no other entry changes,
\* though they share bytes; not even when the error of a disk stops put_fat between the
\* two bytes it writes.
EntriesApart ==
  Returned("put_fat") =>
    /\ Get12(ret[1], call.clst) = call.val
    /\ \A c \in FatEntries \ {call.clst} :
         /\ Get12(ret[1], c) = Get12(call.table, c)
         /\ Get12(PutLow(call.table, call.clst, call.val), c) = Get12(call.table, c)

----------------------------------------------------------------------------
(* Formatting.                                                             *)

\* A volume f_mkfs makes can be mounted, is of the kind it was made as with as many
\* clusters, lies inside of the image, has a cleared table and root directory that its
\* last cluster does not run into, and an FSInfo sector that counts its free clusters.
\* f_mkfs refuses an image exactly when it has less than 128 sectors, or would have the
\* clusters of a FAT32 volume if its 32 reserved sectors and the 512 of its table were not
\* taken off: with the cluster size f_mkfs chooses, a size between is never refused.
Fitting(made) ==
  LET fs == ChkMounted(made.boot)
  IN  /\ fs.res = "FR_OK" /\ fs.fs_type = made.fmt /\ fs.n_fatent = made.nClst + 2
      /\ fs.database + made.nClst * fs.csize <= call.sectors
      /\ made.cleared.from = fs.fatbase
      /\ IF fs.fs_type = "FS_FAT32"
         THEN /\ made.cleared.to = fs.database + fs.csize /\ fs.dirbase = 2
              /\ made.FreeCount = (fs.n_fatent - 2) - 1
         ELSE made.cleared.to = fs.database /\ fs.dirbase < fs.database
SizeRefused ==
  \/ call.sectors < 128
  \/ call.sectors \in (MIN_FAT32 * 64)..(MIN_FAT32 * 64 + 32 + 512 - 1)
MountsAsFormatted ==
  Returned("f_mkfs") => IF ret[1].res = "FR_OK" THEN ~SizeRefused /\ Fitting(ret[1]) ELSE SizeRefused

----------------------------------------------------------------------------
(* The ACPI table.                                                         *)

\* The entries ParseAcpiTables looks at: up to the one that fills CpuList.
Enabled(madt, k) == Cardinality({j \in 1..k : madt[j].type = "APIC" /\ madt[j].enabled})
Seen(madt) == {k \in 1..Len(madt) : Enabled(madt, k - 1) < MaxCpus}
IoApicsOf(madt) == {k \in Seen(madt) : madt[k].type = "IOAPIC"}

\* The overrides that have to do with an irq, as the interrupt they are about or the one
\* they redirect it to; and one of them that leaves no doubt about polarity and trigger: the
\* last, when all of them keep their interrupt where it is.
Naming(madt, irq) ==
  {j \in DOMAIN madt : madt[j].type = "IRQOVERRIDE" /\ irq \in {madt[j].isaIrq, madt[j].apicIrq}}
Settles(madt, j, irq) ==
  /\ j \in Naming(madt, irq)
  /\ \A l \in Naming(madt, irq) : l <= j /\ madt[l].isaIrq = madt[l].apicIrq

Formed(pin, e) == pin.low = e.low /\ pin.level = e.level

\* The pin for an irq of the IO APIC in entry k.
PinAsListed(madt, k, irq, pin) ==
  /\ pin.masked
  /\ Naming(madt, irq) = {} => pin = Masked(INTR_IRQ + irq)
  /\ \A j \in Seen(madt) : (j > k /\ Settles(madt, j, irq)) => Formed(pin, madt[j])

Unusable ==
  \/ \E k \in IoApicsOf(call.madt) : call.madt[k].addr \notin DOMAIN MaxPin
  \/ Cardinality(IoApicsOf(call.madt)) > MaxIoApics
  \/ IoApicsOf(call.madt) = {} /\ DefaultAddr \notin DOMAIN MaxPin

\* Whatever the table lists and in whatever order, every pin but the last of every IO APIC in
\* the part that is looked at is left masked; one whose interrupt no override names has the
\* vector of its own interrupt, and is high and edge triggered; one whose interrupt is
\* overridden in place, after its IO APIC was listed, has the polarity and the trigger of
\* the last override, and no override of another interrupt or for another IO APIC disturbs
\* it.  There is a processor and an IO APIC to go on with, and no more than there is room
\* for; only an IO APIC that cannot be used is a panic.  It says nothing of the last pin
\* (intr.c:161), the vectors of overridden pins (intr.c:223) and overrides listed before
\* their IO APIC (intr.c:198), where the code does not do what it should.
PinsAsListed ==
  Returned("ParseAcpiTables") =>
    IF ret[1].at = "panic" THEN Unusable
    ELSE /\ Len(ret[1].cpus) \in 1..MaxCpus /\ Len(ret[1].ioApics) \in 1..MaxIoApics
         /\ \A k \in IoApicsOf(call.madt) :
              LET e == call.madt[k]
              IN  /\ \E n \in DOMAIN ret[1].ioApics : ret[1].ioApics[n].addr = e.addr
                  /\ \A i \in 0..(MaxPin[e.addr] - 1) :
                       PinAsListed(call.madt, k, e.irqBase + i, ret[1].pins[e.addr][i])
=============================================================================
