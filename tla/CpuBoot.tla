------------------------------ MODULE CpuBoot ------------------------------
(***************************************************************************)
(* Bringing up the processors: CpuInitAll of src/boot/cpu_init.c, run by   *)
(* the boot processor, against the application processors it wakes with    *)
(* INIT and SIPI interrupts, which run src/boot/cpu_init_asm.s and         *)
(* CpuApEntry; and the removal of the identity mapping by BootMain after   *)
(* CpuInitAll returns.  The boot processor walks the processor entries of  *)
(* the ACPI table, wakes every processor it listed, and spins until as     *)
(* many have counted themselves in initCpusUp as it listed.                *)
(*                                                                         *)
(* A processor is known by its local APIC id.  Hardware the code relies on *)
(* (delivery of IPIs, the reaction to INIT, the PIT) is an action here     *)
(* and marked external.                                                    *)
(***************************************************************************)
EXTENDS Naturals, Sequences, FiniteSets

CONSTANTS
  Apics,     \* local APIC ids of the processors in the machine
  Bsp,       \* the one that boots
  MaxCpus,   \* APIC_MAX_CPU, the length of CpuList
  Pages,     \* pages KMemAllocate can hand out
  Rate,      \* what calibration computes: bus frequency / CONFIG_HZ
  None       \* no page, no message, not yet written

ASSUME BspAssumption == Bsp \in Apics /\ None \notin Apics /\ None \notin Pages
ASSUME ApicsAssumption == IsFiniteSet(Apics)
ASSUME NoneAssumption == None \notin [kind : {"INIT", "SIPI"}, dest : Apics]
ASSUME MaxCpusAssumption == MaxCpus \in Nat \ {0}
\* KMemInit gets 512 pages and APIC_MAX_CPU is 256.
ASSUME PagesAssumption == IsFiniteSet(Pages) /\ Cardinality(Pages) >= MaxCpus

VARIABLES
  pc,            \* where each processor is
  madt,          \* the processor entries of the ACPI table, in order
  i,             \* the loop counter of the boot processor
  CpuList,       \* the Cpu structures, in order of their logical ids from 0
  apicToCpu,     \* CpuApicToCpuId
  pool,          \* pages KMemAllocate has not handed out
  icr,           \* interrupt command register: the message being delivered
  lowCode,       \* is the start-up code at CPU_LOW_INIT_LOC?
  timerInitial,  \* apicTimerInitial
  timer,         \* local APIC timer of each processor: None when masked, or
                 \* the count it repeats
  stack,         \* the page whose end each processor uses as its stack
  msr,           \* the SYSCALL registers of each processor
  initCpusUp,    \* processors that finished CpuLateInit
  identity       \* is low memory still mapped at its own address?

vars == <<pc, madt, i, CpuList, apicToCpu, pool, icr, lowCode, timerInitial,
          timer, stack, msr, initCpusUp, identity>>

tables == <<madt, CpuList, apicToCpu, pool>>
bspVars == <<i, icr, lowCode, timerInitial>>
perCpu == <<timer, stack, msr>>

CpuCount == Len(CpuList)
ListedApics == {CpuList[k].apicId : k \in 1..Len(CpuList)}

\* A processor in firmware, reset by INIT, ready for SIPI, in the 16-bit code at
\* CPU_LOW_INIT_LOC, in identity mapped code with paging on, in the kernel...
ApPlaces == {"firmware", "reset", "waitsipi", "low", "paging", "apicbase"}
BspPlaces == {"parse", "bspbase", "init", "pit", "copy", "sipi", "wait", "unmap",
              "panic"}
LatePlaces == {"asm", "timer", "mark", "hlt"}
Crashed == "crashed"

Cpu == [apicId : Apics, page : Pages]
Ipi == [kind : {"INIT", "SIPI"}, dest : Apics]
Msrs == {"STAR", "LSTAR", "FMASK"}

TypeOK ==
  /\ pc \in [Apics -> ApPlaces \cup BspPlaces \cup LatePlaces \cup {Crashed}]
  /\ madt \in Seq([apicId : Apics, enabled : BOOLEAN])
  /\ i \in Nat
  /\ CpuList \in Seq(Cpu) /\ Len(CpuList) <= MaxCpus
  /\ apicToCpu \in [Apics -> Nat]
  /\ pool \in SUBSET Pages
  /\ icr \in Ipi \cup {None}
  /\ lowCode \in BOOLEAN
  /\ timerInitial \in {0, Rate}
  /\ timer \in [Apics -> {None, "calibrating", 0, Rate}]
  /\ stack \in [Apics -> Pages \cup {None}]
  /\ msr \in [Apics -> [Msrs -> {None, "segments", "EntrySyscall", "flags"}]]
  /\ initCpusUp \in Nat
  /\ identity \in BOOLEAN

\* ACPI lists each processor once, the boot processor first; the others may be
\* disabled.  A machine may have no table at all.
Tables ==
  {t \in [1..Cardinality(Apics) -> [apicId : Apics, enabled : BOOLEAN]] :
     /\ t[1] = [apicId |-> Bsp, enabled |-> TRUE]
     /\ \A j, k \in DOMAIN t : t[j].apicId = t[k].apicId => j = k}
  \cup {<<>>}

Init ==
  /\ pc = [a \in Apics |-> IF a = Bsp THEN "parse" ELSE "firmware"]
  /\ madt \in Tables
  /\ i = 1
  /\ CpuList = <<>>
  /\ apicToCpu = [a \in Apics |-> 0]
  /\ pool = Pages
  /\ icr = None
  /\ lowCode = FALSE
  /\ timerInitial = 0
  /\ timer = [a \in Apics |-> None]
  /\ stack = [a \in Apics |-> None]
  /\ msr = [a \in Apics |-> [m \in Msrs |-> None]]
  /\ initCpusUp = 0
  /\ identity = TRUE

Goto(a, from, to) == pc[a] = from /\ pc' = [pc EXCEPT ![a] = to]

----------------------------------------------------------------------------
(* The boot processor.                                                     *)

\* Mutant of AddNewCpu: CpuApicToCpuId keeps its zeros.
AddNewCpuUnmapped(a) ==
  /\ \E p \in pool :
       /\ pool' = pool \ {p}
       /\ CpuList' = Append(CpuList, [apicId |-> a, page |-> p])
  /\ UNCHANGED apicToCpu

AddNewCpu(a) ==
  /\ \E p \in pool :
       /\ pool' = pool \ {p}
       /\ CpuList' = Append(CpuList, [apicId |-> a, page |-> p])
  /\ apicToCpu' = [apicToCpu EXCEPT ![a] = CpuCount]

\* Mutant of ParseEntry: the limit is tested against the count before the entry.
ParseEntryLateLimit ==
  /\ pc[Bsp] = "parse" /\ i <= Len(madt)
  /\ IF madt[i].enabled
     THEN /\ AddNewCpu(madt[i].apicId)
          /\ i' = IF CpuCount >= MaxCpus THEN Len(madt) + 1 ELSE i + 1
     ELSE i' = i + 1 /\ UNCHANGED <<pool, CpuList, apicToCpu>>
  /\ UNCHANGED <<pc, madt, icr, lowCode, timerInitial, initCpusUp, identity, perCpu>>

\* One turn of the loop over the table; the loop stops at a full CpuList.
ParseEntry ==
  /\ pc[Bsp] = "parse" /\ i <= Len(madt)
  /\ IF madt[i].enabled
     THEN /\ AddNewCpu(madt[i].apicId)
          /\ i' = IF CpuCount + 1 >= MaxCpus THEN Len(madt) + 1 ELSE i + 1
     ELSE i' = i + 1 /\ UNCHANGED <<pool, CpuList, apicToCpu>>
  /\ UNCHANGED <<pc, madt, icr, lowCode, timerInitial, initCpusUp, identity, perCpu>>

\* Ensure there's at least one processor.
ParseDone ==
  /\ i > Len(madt)
  /\ Goto(Bsp, "parse", "bspbase")
  /\ IF CpuCount = 0 THEN AddNewCpu(Bsp) ELSE UNCHANGED <<pool, CpuList, apicToCpu>>
  /\ UNCHANGED <<madt, initCpusUp, identity, perCpu, bspVars>>

\* ApicBaseInit masks the timer.
BspBaseInit ==
  /\ Goto(Bsp, "bspbase", "init")
  /\ i' = 1
  /\ timer' = [timer EXCEPT ![Bsp] = None]
  /\ UNCHANGED <<tables, icr, lowCode, timerInitial, stack, msr, initCpusUp, identity>>

\* Mutant of CpuSendIpi: the previous message may be overwritten.
CpuSendIpiNoWait(kind, a) == icr' = [kind |-> kind, dest |-> a]

\* CpuSendIpi waits until the previous message has been delivered.
CpuSendIpi(kind, a) ==
  /\ icr = None
  /\ icr' = [kind |-> kind, dest |-> a]

\* The loops of CpuInitAll over CpuList[1..CpuCount - 1].
SendToNext(place, kind) ==
  /\ pc[Bsp] = place /\ i < CpuCount
  /\ CpuSendIpi(kind, CpuList[i + 1].apicId)
  /\ i' = i + 1
  /\ UNCHANGED <<tables, pc, lowCode, timerInitial, initCpusUp, identity, perCpu>>

SendInit == SendToNext("init", "INIT")
SendSipi == SendToNext("sipi", "SIPI")

\* ApicCalibrateTimer lets the timer run from its maximum for 10ms of the PIT.
StartCalibration ==
  /\ i >= CpuCount
  /\ Goto(Bsp, "init", "pit")
  /\ timer' = [timer EXCEPT ![Bsp] = "calibrating"]
  /\ UNCHANGED <<tables, stack, msr, initCpusUp, identity, bspVars>>

\* Mutant of FinishCalibration: the rate is not stored.
FinishCalibrationForgets ==
  /\ icr = None /\ \A a \in Apics : pc[a] # "reset"
  /\ Goto(Bsp, "pit", "copy")
  /\ timer' = [timer EXCEPT ![Bsp] = None]
  /\ UNCHANGED <<tables, stack, msr, initCpusUp, identity, bspVars>>

\* Ten milliseconds is what a processor is given to finish an INIT: when the PIT
\* has counted them, every message is delivered and no processor is in reset.
FinishCalibration ==
  /\ icr = None /\ \A a \in Apics : pc[a] # "reset"
  /\ Goto(Bsp, "pit", "copy")
  /\ timerInitial' = Rate
  /\ timer' = [timer EXCEPT ![Bsp] = None]
  /\ UNCHANGED <<tables, i, icr, lowCode, stack, msr, initCpusUp, identity>>

\* Mutant of CopyLowCode: one other processor is not enough to copy.
CopyLowCodeOffByOne ==
  /\ Goto(Bsp, "copy", "sipi")
  /\ lowCode' = (lowCode \/ CpuCount > 2)
  /\ i' = 1
  /\ UNCHANGED <<tables, icr, timerInitial, initCpusUp, identity, perCpu>>

CopyLowCode ==
  /\ Goto(Bsp, "copy", "sipi")
  /\ lowCode' = (lowCode \/ CpuCount > 1)
  /\ i' = 1
  /\ UNCHANGED <<tables, icr, timerInitial, initCpusUp, identity, perCpu>>

BspLateInit ==
  /\ i >= CpuCount
  /\ Goto(Bsp, "sipi", "asm")
  /\ UNCHANGED <<tables, initCpusUp, identity, perCpu, bspVars>>

\* Mutant of PassBarrier: it waits for the other processors only in number.
PassBarrierEarly ==
  /\ initCpusUp + 1 >= CpuCount
  /\ Goto(Bsp, "wait", "unmap")
  /\ UNCHANGED <<tables, initCpusUp, identity, perCpu, bspVars>>

PassBarrier ==
  /\ initCpusUp >= CpuCount
  /\ Goto(Bsp, "wait", "unmap")
  /\ UNCHANGED <<tables, initCpusUp, identity, perCpu, bspVars>>

\* MemEnableGlobalPages clears the first entry of the PML4; BootMain then panics.
MemEnableGlobalPages ==
  /\ Goto(Bsp, "unmap", "panic")
  /\ identity' = FALSE
  /\ UNCHANGED <<tables, initCpusUp, perCpu, bspVars>>

----------------------------------------------------------------------------
(* Hardware.                                                               *)

\* INIT resets a processor wherever it is; SIPI starts one that waits for it and
\* is ignored by any other.
DeliverIpi ==
  /\ icr # None
  /\ pc' = [pc EXCEPT ![icr.dest] =
              IF icr.kind = "INIT" THEN "reset"
              ELSE IF @ = "waitsipi" THEN "low" ELSE @]
  /\ icr' = None
  /\ UNCHANGED <<tables, i, lowCode, timerInitial, initCpusUp, identity, perCpu>>

FinishReset(a) ==
  /\ Goto(a, "reset", "waitsipi")
  /\ UNCHANGED <<tables, initCpusUp, identity, perCpu, bspVars>>

----------------------------------------------------------------------------
(* The application processors, and CpuLateInit on every processor.         *)

\* CpuLowerInit, executed where the boot processor copied it, to CpuInit32.
RunLowCode(a) ==
  /\ Goto(a, "low", IF lowCode THEN "paging" ELSE Crashed)
  /\ UNCHANGED <<tables, initCpusUp, identity, perCpu, bspVars>>

\* CpuInit32 turns paging on while it runs at a low address and jumps to
\* Boot64Start, which looks up its Cpu structure and takes its end as stack.
EnterKernel(a) ==
  /\ Goto(a, "paging", IF identity THEN "apicbase" ELSE Crashed)
  /\ stack' = [stack EXCEPT ![a] = CpuList[apicToCpu[a] + 1].page]
  /\ UNCHANGED <<tables, timer, msr, initCpusUp, identity, bspVars>>

ApBaseInit(a) ==
  /\ Goto(a, "apicbase", "asm")
  /\ timer' = [timer EXCEPT ![a] = None]
  /\ UNCHANGED <<tables, stack, msr, initCpusUp, identity, bspVars>>

\* The three wrmsr of CpuLateInitAsm: the register and what is written to it.
\* The third one is written to register 0xC0000082 again.
SyscallWrites == <<<<"STAR", "segments">>, <<"LSTAR", "EntrySyscall">>,
                   <<"LSTAR", "flags">>>>

AfterWrites(regs) ==
  [m \in Msrs |->
     LET writes == {k \in DOMAIN SyscallWrites : SyscallWrites[k][1] = m}
     IN  IF writes = {} THEN regs[m]
         ELSE SyscallWrites[CHOOSE k \in writes : \A j \in writes : j <= k][2]]

CpuLateInitAsm(a) ==
  /\ Goto(a, "asm", "timer")
  /\ msr' = [msr EXCEPT ![a] = AfterWrites(@)]
  /\ UNCHANGED <<tables, timer, stack, initCpusUp, identity, bspVars>>

ApicTimerInit(a) ==
  /\ Goto(a, "timer", "mark")
  /\ timer' = [timer EXCEPT ![a] = timerInitial]
  /\ UNCHANGED <<tables, stack, msr, initCpusUp, identity, bspVars>>

\* AtomicAdd(&initCpusUp, 1); then CpuApEntry halts and CpuInitAll waits.
MarkUp(a) ==
  /\ Goto(a, "mark", IF a = Bsp THEN "wait" ELSE "hlt")
  /\ initCpusUp' = initCpusUp + 1
  /\ UNCHANGED <<tables, identity, perCpu, bspVars>>

----------------------------------------------------------------------------
BspStep == \/ ParseEntry \/ ParseDone \/ BspBaseInit \/ SendInit \/ StartCalibration
           \/ FinishCalibration \/ CopyLowCode \/ SendSipi \/ BspLateInit
           \/ PassBarrier \/ MemEnableGlobalPages

CpuStep(a) == \/ FinishReset(a) \/ RunLowCode(a) \/ EnterKernel(a) \/ ApBaseInit(a)
              \/ CpuLateInitAsm(a) \/ ApicTimerInit(a) \/ MarkUp(a)

Next == BspStep \/ DeliverIpi \/ \E a \in Apics : CpuStep(a)

Spec == Init /\ [][Next]_vars

\* Every processor executes its next instruction and the local APIC delivers.
FairSpec ==
  Spec /\ WF_vars(BspStep) /\ WF_vars(DeliverIpi) /\ \A a \in Apics : WF_vars(CpuStep(a))

----------------------------------------------------------------------------
(* Properties.                                                             *)

\* Where a processor is once it has counted itself in initCpusUp.
IsUp(a) == pc[a] \in {"hlt", "wait", "unmap", "panic"}

\* No SIPI is lost: it is sent once and never repeated, so it must find its
\* processor reset by the INIT sent before and waiting.
SipiFindsProcessorWaiting ==
  icr # None /\ icr.kind = "SIPI" => pc[icr.dest] = "waitsipi"

\* No processor executes start-up code that is not there, or loses the mapping it
\* is executing from: the code is copied before the first SIPI and the identity
\* mapping goes only after the last processor has left it.
NoProcessorCrashes == \A a \in Apics : pc[a] # Crashed

\* BootMain unmaps low memory only when every processor it listed is up; one that
\* it did not list was never started.
UnmapAfterAllUp ==
  ~identity => /\ \A a \in ListedApics : IsUp(a)
               /\ \A a \in Apics \ ListedApics : pc[a] = "firmware"

\* initCpusUp counts what it is compared with: distinct listed processors.
BarrierCountsListed ==
  /\ initCpusUp = Cardinality({a \in ListedApics : IsUp(a)})
  /\ CpuCount = Cardinality(ListedApics)

\* No two processors run on the same page, and each runs on that of its own Cpu
\* structure: the tables the boot processor fills are read on another processor.
OwnStack ==
  \A a \in Apics : stack[a] # None =>
    /\ \E k \in 1..CpuCount : CpuList[k] = [apicId |-> a, page |-> stack[a]]
    /\ \A b \in Apics : stack[b] = stack[a] => a = b

\* A processor that is up has its timer running at the calibrated rate, though the
\* rate is measured by another one while it was still in reset.
TimersCalibrated == \A a \in Apics : IsUp(a) => timer[a] = Rate

\* The processors brought up are the boot processor and, up to the limit of
\* CpuList, the enabled ones of the table; a CPU that is disabled stays as it is.
OnlyEnabledStarted ==
  \A a \in Apics \ {Bsp} :
    pc[a] # "firmware" => \E k \in 1..Len(madt) : madt[k] = [apicId |-> a, enabled |-> TRUE]

\* CpuInitAll returns: the wait for the other processors has no time-out.
BootCompletes == <>(pc[Bsp] = "panic")

\* cpu_init_asm.s:178: "Clear DF, TF, IF on SYSCALL" of a processor that is up.
SyscallMasksFlags ==
  \A a \in Apics : IsUp(a) => /\ msr[a]["FMASK"] = "flags"
                              /\ msr[a]["LSTAR"] = "EntrySyscall"
=============================================================================
