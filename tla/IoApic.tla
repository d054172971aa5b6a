------------------------------- MODULE IoApic -------------------------------
(***************************************************************************)
(* What ParseAcpiTables of kernel/src/boot/cpu_init.c makes of the ACPI    *)
(* table (MADT): the list of processors, and the IO APICs of               *)
(* kernel/src/intr.c with an entry for each of their pins.  A table is a   *)
(* sequence of entries                                                     *)
(*   [type |-> "APIC", id, enabled], [type |-> "IOAPIC", addr, irqBase],   *)
(*   [type |-> "IRQOVERRIDE", isaIrq, apicIrq, low, level]                 *)
(* and no table at all the empty one.  s is what is known so far:          *)
(*   cpus     local APIC ids in CpuList                                    *)
(*   ioApics  IntrIoApicData, as far as it is used                         *)
(*   pins     redirection entries of every IO APIC                         *)
(*   at       "loop", "done" after a break, or "panic"                     *)
(***************************************************************************)
EXTENDS Integers, Sequences

CONSTANTS
  MaxCpus,      \* APIC_MAX_CPU
  MaxIoApics,   \* INTR_MAX_IOAPIC
  MaxPin,       \* of each IO APIC that works, the number its version register has
  SelfId,       \* what ApicRead32(APIC_REG_ID) >> 24 returns
  DefaultAddr   \* 0xFEC00000

ASSUME LimitsAssumption == MaxCpus \in Nat \ {0} /\ MaxIoApics \in Nat \ {0}
ASSUME MaxPinAssumption ==
  DOMAIN MaxPin \subseteq Nat \ {0} /\ \A a \in DOMAIN MaxPin : MaxPin[a] \in 0..223

MadtEntry ==
  [type : {"APIC"}, id : 0..255, enabled : BOOLEAN]
    \cup [type : {"IOAPIC"}, addr : Nat, irqBase : Nat]
    \cup [type : {"IRQOVERRIDE"}, isaIrq : 0..255, apicIrq : Nat, low : BOOLEAN, level : BOOLEAN]

INTR_IRQ == 32

Byte(n) == n % 256

Masked(vector) == [vector |-> Byte(vector), masked |-> TRUE, low |-> FALSE, level |-> FALSE]
\* After a reset: the version register holds the number of the last pin.
ResetPins == [a \in DOMAIN MaxPin |-> [i \in 0..MaxPin[a] |-> Masked(0)]]

Start == [cpus |-> <<>>, ioApics |-> <<>>, pins |-> ResetPins, at |-> "loop"]
Panic(s) == [s EXCEPT !.at = "panic"]

\* Mutant of IntrInitIoApic: the vectors of a second IO APIC start at 32 again.
IntrInitIoApicNoBase(s, addr, irqBase) ==
  IF addr \notin DOMAIN MaxPin \/ Len(s.ioApics) = MaxIoApics THEN Panic(s)
  ELSE [s EXCEPT
          !.ioApics = Append(@, [addr |-> addr, baseIrq |-> irqBase, maxIrqs |-> MaxPin[addr]]),
          !.pins[addr] = [i \in DOMAIN @ |-> IF i < MaxPin[addr] THEN Masked(INTR_IRQ + i) ELSE @[i]]]

\* An address that is null or where no IO APIC answers is a panic, and so is one more
\* than there is room for.
IntrInitIoApic(s, addr, irqBase) ==
  IF addr \notin DOMAIN MaxPin \/ Len(s.ioApics) = MaxIoApics THEN Panic(s)
  ELSE [s EXCEPT
          !.ioApics = Append(@, [addr |-> addr, baseIrq |-> irqBase, maxIrqs |-> MaxPin[addr]]),
          !.pins[addr] = [i \in DOMAIN @ |->
                            IF i < MaxPin[addr] THEN Masked(INTR_IRQ + irqBase + i) ELSE @[i]]]

Holds(io, irq) == io.baseIrq <= irq /\ irq < io.baseIrq + io.maxIrqs

\* The mask and the destination are left as they are.
IntrInitSetOverride(s, e) ==
  LET holding == {k \in DOMAIN s.ioApics : Holds(s.ioApics[k], e.isaIrq)}
      io == s.ioApics[CHOOSE k \in holding : \A j \in holding : k <= j]
  IN  IF holding = {} THEN s
      ELSE [s EXCEPT !.pins[io.addr][e.isaIrq - io.baseIrq] =
              [vector |-> Byte(e.apicIrq), masked |-> @.masked, low |-> e.low, level |-> e.level]]

AddNewCpu(s, id) == [s EXCEPT !.cpus = Append(@, id)]

\* The loop ends with the entry that fills CpuList.
StopWhenFull(s) == IF Len(s.cpus) >= MaxCpus THEN [s EXCEPT !.at = "done"] ELSE s

Entry(s, e) ==
  CASE s.at # "loop" -> s
    [] s.at = "loop" /\ e.type = "APIC" /\ e.enabled -> StopWhenFull(AddNewCpu(s, e.id))
    [] s.at = "loop" /\ e.type = "APIC" /\ ~e.enabled -> s
    [] s.at = "loop" /\ e.type = "IOAPIC" -> IntrInitIoApic(s, e.addr, e.irqBase)
    [] s.at = "loop" /\ e.type = "IRQOVERRIDE" -> IntrInitSetOverride(s, e)

AtLeastOneCpu(s) == IF s.at # "panic" /\ s.cpus = <<>> THEN AddNewCpu(s, SelfId) ELSE s

\* One round for every entry of the table.
Parsed(madt) ==
  LET after[k \in 0..Len(madt)] == IF k = 0 THEN Start ELSE Entry(after[k - 1], madt[k])
  IN  after[Len(madt)]

\* The most common settings, when the loop has set up none.
AtLeastOneIoApic(s) ==
  IF s.at = "panic" \/ s.ioApics # <<>> THEN s
  ELSE LET t == IntrInitIoApic(s, DefaultAddr, 0)
       IN  IF t.at = "panic" THEN t
           ELSE IntrInitSetOverride(t, [isaIrq |-> 0, apicIrq |-> 2, low |-> FALSE, level |-> FALSE])

ParseAcpiTables(madt) == AtLeastOneIoApic(AtLeastOneCpu(Parsed(madt)))
=============================================================================
