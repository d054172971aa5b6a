--------------------------- MODULE CpuBoot_proofs ---------------------------
(***************************************************************************)
(* Proofs about CpuBoot, for any number of processors, any limit of        *)
(* CpuList and every table that Tables allows.                             *)
(***************************************************************************)
EXTENDS CpuBoot, FiniteSetTheorems, TLAPS

USE BspAssumption, ApicsAssumption, NoneAssumption, MaxCpusAssumption
    DEF BspAssumption, ApicsAssumption, NoneAssumption, MaxCpusAssumption

\* Where the boot processor is before it sends anything, and after its last SIPI; where
\* another one is once its SIPI was delivered.
BspEarly == {"parse", "bspbase"}
BspLate == {"asm", "timer", "mark", "wait", "unmap", "panic"}
Running == {"low", "paging", "apicbase"} \cup LatePlaces

\* The table has the boot processor first and each processor once.
MadtInv ==
  /\ Len(madt) > 0 => madt[1] = [apicId |-> Bsp, enabled |-> TRUE]
  /\ \A j, k \in 1..Len(madt) : madt[j].apicId = madt[k].apicId => j = k

EnabledIn(a, n) == \E j \in 1..Len(madt) : j < n /\ madt[j] = [apicId |-> a, enabled |-> TRUE]

\* The list and the map of ids agree; the entries come from the part of the table that
\* has been read, and there is room for one more while there is more to read.
ListInv ==
  /\ \A k \in 1..CpuCount : apicToCpu[CpuList[k].apicId] = k - 1
  /\ CpuCount > 0 => CpuList[1].apicId = Bsp
  /\ pc[Bsp] = "parse" =>
       /\ i >= 1 /\ (i > 1 => CpuCount > 0)
       /\ i <= Len(madt) => CpuCount < MaxCpus
       /\ \A k \in 1..CpuCount : EnabledIn(CpuList[k].apicId, i)
  /\ pc[Bsp] # "parse" => i >= 1 /\ CpuCount > 0
  /\ \A a \in ListedApics \ {Bsp} : EnabledIn(a, Len(madt) + 1)

PageInv ==
  /\ \A k \in 1..CpuCount : CpuList[k].page \notin pool
  /\ \A j, k \in 1..CpuCount : CpuList[j].page = CpuList[k].page => j = k

\* The message in the command register, and the processor it goes to.
Sent(kind, a) == icr = [kind |-> kind, dest |-> a]
IcrInv ==
  icr # None =>
    /\ icr.dest \in ListedApics \ {Bsp} /\ apicToCpu[icr.dest] < i
    /\ \/ pc[Bsp] \in {"init", "pit"} /\ icr.kind = "INIT"
       \/ pc[Bsp] \in {"sipi"} \cup BspLate /\ icr.kind = "SIPI" /\ pc[icr.dest] = "waitsipi"

\* Where the others are, by the place of the boot processor and how far its loop is.
Reset(a) == pc[a] \in {"reset", "waitsipi"} \/ (pc[a] = "firmware" /\ Sent("INIT", a))
Woken(a) == pc[a] \in Running \/ (pc[a] = "waitsipi" /\ Sent("SIPI", a))
PlaceOf(a) ==
  /\ pc[Bsp] \in BspEarly => pc[a] = "firmware"
  /\ pc[Bsp] = "init" => IF apicToCpu[a] < i THEN Reset(a) ELSE pc[a] = "firmware"
  /\ pc[Bsp] = "pit"  => Reset(a)
  /\ pc[Bsp] = "copy" => pc[a] = "waitsipi"
  /\ pc[Bsp] = "sipi" => IF apicToCpu[a] < i THEN Woken(a) ELSE pc[a] = "waitsipi"
  /\ pc[Bsp] \in BspLate => Woken(a)
PlaceInv ==
  /\ pc[Bsp] \in BspPlaces \cup {"asm", "timer", "mark"}
  /\ \A a \in ListedApics \ {Bsp} : PlaceOf(a)
  /\ \A a \in Apics \ (ListedApics \cup {Bsp}) : pc[a] = "firmware"

\* What is ready when.
ReadyInv ==
  /\ pc[Bsp] \in {"sipi"} \cup BspLate /\ CpuCount > 1 => lowCode
  /\ pc[Bsp] \in {"copy", "sipi"} \cup BspLate => timerInitial = Rate
  /\ \A a \in Apics : pc[a] = "mark" \/ IsUp(a) => timer[a] = Rate
  /\ ~identity => pc[Bsp] = "panic"
  /\ pc[Bsp] \in {"unmap", "panic"} => \A a \in ListedApics : IsUp(a)

StackInv ==
  \A a \in Apics : stack[a] # None =>
    /\ a \in ListedApics /\ stack[a] = CpuList[apicToCpu[a] + 1].page
    /\ pc[Bsp] \notin BspEarly

\* The inductive invariant.
IInv == /\ TypeOK /\ MadtInv /\ ListInv /\ PageInv /\ IcrInv /\ PlaceInv /\ ReadyInv
        /\ StackInv /\ BarrierCountsListed

----------------------------------------------------------------------------
(* The list of processors.                                                 *)

\* A listed processor is found in CpuList at its number, and no two have one number.
LEMMA Listing ==
  ASSUME TypeOK, ListInv
  PROVE  /\ CpuCount \in Nat /\ ListedApics \subseteq Apics
         /\ \A k \in 1..CpuCount : /\ CpuList[k].apicId \in ListedApics
                                   /\ CpuList[k].page \in Pages
         /\ \A a \in ListedApics :
              /\ apicToCpu[a] \in 0..(CpuCount - 1)
              /\ CpuList[apicToCpu[a] + 1].apicId = a
              /\ a # Bsp => apicToCpu[a] >= 1 /\ CpuCount > 1
         /\ CpuCount > 0 => Bsp \in ListedApics
<1>1. CpuCount \in Nat /\ \A k \in 1..CpuCount : CpuList[k] \in Cpu
  BY DEF TypeOK, CpuCount
<1>2. \A k \in 1..CpuCount : CpuList[k].apicId \in Apics /\ CpuList[k].page \in Pages
  BY <1>1 DEF Cpu
<1>3. \A k \in 1..CpuCount : CpuList[k].apicId \in ListedApics
  BY DEF ListedApics, CpuCount
<1>4. ASSUME NEW a \in ListedApics
      PROVE  /\ apicToCpu[a] \in 0..(CpuCount - 1) /\ CpuList[apicToCpu[a] + 1].apicId = a
             /\ a # Bsp => apicToCpu[a] >= 1 /\ CpuCount > 1
  <2>1. PICK k \in 1..CpuCount : a = CpuList[k].apicId  BY DEF ListedApics, CpuCount
  <2>2. apicToCpu[a] = k - 1 /\ (k = 1 => a = Bsp)  BY <1>1, <2>1 DEF ListInv
  <2> QED  BY <1>1, <2>1, <2>2
<1>5. ListedApics \subseteq Apics  BY <1>2 DEF ListedApics, CpuCount
<1>6. CpuCount > 0 => Bsp \in ListedApics  BY <1>1, <1>3 DEF ListInv
<1> QED  BY <1>1, <1>2, <1>3, <1>4, <1>5, <1>6

\* The list with one processor more.
LEMMA ListingNext ==
  ASSUME TypeOK, NEW a \in Apics, AddNewCpu(a)
  PROVE  /\ CpuCount' = CpuCount + 1
         /\ \A k \in 1..CpuCount : CpuList'[k] = CpuList[k]
         /\ CpuList'[CpuCount + 1].apicId = a
         /\ CpuList'[CpuCount + 1].page \in pool
         /\ pool' = pool \ {CpuList'[CpuCount + 1].page}
         /\ ListedApics' = ListedApics \cup {a}
<1>1. PICK p \in pool : /\ pool' = pool \ {p}
                        /\ CpuList' = Append(CpuList, [apicId |-> a, page |-> p])
  BY DEF AddNewCpu
<1>2. CpuList \in Seq(Cpu) /\ CpuCount \in Nat /\ [apicId |-> a, page |-> p] \in Cpu
  BY <1>1 DEF TypeOK, CpuCount, Cpu
<1>3. /\ CpuCount' = CpuCount + 1 /\ CpuList'[CpuCount + 1] = [apicId |-> a, page |-> p]
      /\ \A k \in 1..CpuCount : CpuList'[k] = CpuList[k]
  BY <1>1, <1>2 DEF CpuCount
<1>4. ListedApics' = {CpuList'[k].apicId : k \in 1..CpuCount'}  BY DEF ListedApics, CpuCount
<1>5. ListedApics = {CpuList[k].apicId : k \in 1..CpuCount}  BY DEF ListedApics, CpuCount
<1>6. 1..CpuCount' = (1..CpuCount) \cup {CpuCount + 1}  BY <1>2, <1>3
<1>7. ListedApics' = ListedApics \cup {a}  BY <1>3, <1>4, <1>5, <1>6
<1>8. CpuList'[CpuCount + 1].apicId = a /\ CpuList'[CpuCount + 1].page = p  BY <1>3
<1> QED  BY ONLY <1>1, <1>3, <1>7, <1>8

\* What the table must say of the processor that is listed next, and that it is a new one.
LEMMA NextListed ==
  ASSUME IInv, ParseEntry, madt[i].enabled
  PROVE  /\ i \in 1..Len(madt) /\ madt[i].apicId \in Apics \ ListedApics
         /\ AddNewCpu(madt[i].apicId) /\ CpuCount < MaxCpus
         /\ madt[i] = [apicId |-> madt[i].apicId, enabled |-> TRUE]
         /\ i = 1 => madt[i].apicId = Bsp
<1>1. i \in 1..Len(madt) /\ pc[Bsp] = "parse" /\ CpuCount < MaxCpus
  BY DEF IInv, TypeOK, ListInv, ParseEntry
<1>2. madt \in Seq([apicId : Apics, enabled : BOOLEAN])  BY DEF IInv, TypeOK
<1>3. madt[i] \in [apicId : Apics, enabled : BOOLEAN]
  <2>1. ASSUME NEW S, NEW t \in Seq(S), NEW n \in 1..Len(t) PROVE t[n] \in S  OBVIOUS
  <2> QED  BY <1>1, <1>2, <2>1, Zenon
<1>4. madt[i] = [apicId |-> madt[i].apicId, enabled |-> TRUE]  BY <1>3
<1>5. ASSUME madt[i].apicId \in ListedApics PROVE FALSE
  <2>1. PICK k \in 1..CpuCount : CpuList[k].apicId = madt[i].apicId
    BY <1>5 DEF ListedApics, CpuCount
  <2>2. EnabledIn(madt[i].apicId, i)  BY <1>1, <2>1 DEF IInv, ListInv
  <2>3. PICK j \in 1..Len(madt) : j < i /\ madt[j].apicId = madt[i].apicId
    BY <2>2 DEF EnabledIn
  <2> QED  BY <1>1, <2>3 DEF IInv, MadtInv
<1>6. i = 1 => madt[i].apicId = Bsp  BY <1>1, <1>2 DEF IInv, MadtInv
<1>7. AddNewCpu(madt[i].apicId)  BY DEF ParseEntry
<1> QED  BY <1>1, <1>3, <1>4, <1>5, <1>6, <1>7

----------------------------------------------------------------------------
(* What the steps do.                                                      *)

\* An application processor goes on; the boot processor is at the end of its start-up.
Moves == {<<"reset", "waitsipi">>, <<"low", "paging">>, <<"low", Crashed>>,
          <<"paging", "apicbase">>, <<"paging", Crashed>>, <<"apicbase", "asm">>,
          <<"asm", "timer">>, <<"timer", "mark">>, <<"mark", "wait">>, <<"mark", "hlt">>}
LEMMA CpuMoves ==
  ASSUME TypeOK, NEW a \in Apics, CpuStep(a)
  PROVE  /\ UNCHANGED <<madt, i, CpuList, apicToCpu, pool, icr, lowCode, timerInitial, identity>>
         /\ <<pc[a], pc'[a]>> \in Moves
         /\ pc' = [pc EXCEPT ![a] = pc'[a]]
         /\ \A b \in Apics \ {a} : pc'[b] = pc[b]
         /\ pc[a] = "low" => pc'[a] = IF lowCode THEN "paging" ELSE Crashed
         /\ pc[a] = "paging" => pc'[a] = IF identity THEN "apicbase" ELSE Crashed
         /\ pc[a] = "mark" => pc'[a] = IF a = Bsp THEN "wait" ELSE "hlt"
<1> USE DEF tables, bspVars, perCpu, Goto, Moves, Crashed
<1>0. pc \in [Apics -> ApPlaces \cup BspPlaces \cup LatePlaces \cup {Crashed}]  BY DEF TypeOK
<1>1. CASE FinishReset(a)  BY <1>0, <1>1 DEF FinishReset
<1>2. CASE RunLowCode(a)  BY <1>0, <1>2 DEF RunLowCode
<1>3. CASE EnterKernel(a)  BY <1>0, <1>3 DEF EnterKernel
<1>4. CASE ApBaseInit(a)  BY <1>0, <1>4 DEF ApBaseInit
<1>5. CASE CpuLateInitAsm(a)  BY <1>0, <1>5 DEF CpuLateInitAsm
<1>6. CASE ApicTimerInit(a)  BY <1>0, <1>6 DEF ApicTimerInit
<1>7. CASE MarkUp(a)  BY <1>0, <1>7 DEF MarkUp
<1> QED  BY <1>1, <1>2, <1>3, <1>4, <1>5, <1>6, <1>7 DEF CpuStep

\* What the three writes leave in the registers.
LEMMA WritesTyped ==
  ASSUME NEW regs \in [Msrs -> {None, "segments", "EntrySyscall", "flags"}]
  PROVE  AfterWrites(regs) \in [Msrs -> {None, "segments", "EntrySyscall", "flags"}]
<1> DEFINE W(m) == {k \in DOMAIN SyscallWrites : SyscallWrites[k][1] = m}
           Last(m) == CHOOSE k \in W(m) : \A j \in W(m) : j <= k
           After(m) == IF W(m) = {} THEN regs[m] ELSE SyscallWrites[Last(m)][2]
<1>1. DOMAIN SyscallWrites = 1..3  BY DEF SyscallWrites
<1>2. \A k \in 1..3 : SyscallWrites[k][2] \in {"segments", "EntrySyscall", "flags"}
  BY DEF SyscallWrites
<1>3. ASSUME NEW m \in Msrs, W(m) # {} PROVE Last(m) \in W(m)
  <2>1. W(m) \subseteq 1..3  BY <1>1
  <2>2. \E k \in W(m) : \A j \in W(m) : j <= k  BY <1>3, <2>1
  <2> QED  BY <2>2
<1>4. ASSUME NEW m \in Msrs PROVE After(m) \in {None, "segments", "EntrySyscall", "flags"}
  <2>1. CASE W(m) = {}  BY <2>1
  <2>2. CASE W(m) # {}  BY <1>1, <1>2, <1>3, <2>2
  <2> QED  BY <2>1, <2>2
<1>5. AfterWrites(regs) = [m \in Msrs |-> After(m)]  BY DEF AfterWrites
<1> QED  BY <1>4, <1>5

\* Types are kept: the list gets a processor only while there is room.
LEMMA TypeStep == IInv /\ [Next]_vars => TypeOK'
<1> SUFFICES ASSUME IInv, [Next]_vars PROVE TypeOK'  OBVIOUS
<1> USE DEF tables, bspVars, perCpu, Goto, Crashed, ApPlaces, BspPlaces, LatePlaces
<1>0. TypeOK /\ ListInv  BY DEF IInv
<1>1. CASE ParseEntry
  <2>1. CASE madt[i].enabled
    <3>1. /\ AddNewCpu(madt[i].apicId) /\ madt[i].apicId \in Apics /\ CpuCount < MaxCpus
          /\ i \in 1..Len(madt)
      BY <1>1, <2>1, NextListed
    <3>2. PICK p \in pool : /\ pool' = pool \ {p}
                            /\ CpuList' = Append(CpuList, [apicId |-> madt[i].apicId, page |-> p])
      BY <3>1 DEF AddNewCpu
    <3>3. CpuList' \in Seq(Cpu) /\ Len(CpuList') <= MaxCpus
      BY <1>0, <3>1, <3>2 DEF TypeOK, Cpu, CpuCount
    <3>4. apicToCpu' \in [Apics -> Nat] /\ i' \in Nat /\ pool' \in SUBSET Pages
      BY <1>0, <1>1, <2>1, <3>1, <3>2 DEF TypeOK, AddNewCpu, CpuCount, ParseEntry
    <3> QED  BY <1>0, <1>1, <3>3, <3>4 DEF TypeOK, ParseEntry
  <2>2. CASE ~madt[i].enabled  BY <1>0, <1>1, <2>2 DEF TypeOK, ParseEntry
  <2> QED  BY <2>1, <2>2
<1>2. CASE ParseDone
  <2>1. CASE CpuCount = 0
    <3>1. PICK p \in pool : /\ pool' = pool \ {p}
                            /\ CpuList' = Append(CpuList, [apicId |-> Bsp, page |-> p])
      BY <1>2, <2>1 DEF ParseDone, AddNewCpu
    <3>2. CpuList' \in Seq(Cpu) /\ Len(CpuList') <= MaxCpus
      BY <1>0, <2>1, <3>1 DEF TypeOK, Cpu, CpuCount
    <3>3. apicToCpu' \in [Apics -> Nat] /\ pool' \in SUBSET Pages
      BY <1>0, <1>2, <2>1, <3>1 DEF TypeOK, AddNewCpu, CpuCount, ParseDone
    <3> QED  BY <1>0, <1>2, <3>2, <3>3 DEF TypeOK, ParseDone
  <2>2. CASE CpuCount # 0  BY <1>0, <1>2, <2>2 DEF TypeOK, ParseDone
  <2> QED  BY <2>1, <2>2
<1>3. CASE BspBaseInit  BY <1>0, <1>3 DEF TypeOK, BspBaseInit
<1>4. ASSUME NEW kind \in {"INIT", "SIPI"}, NEW place, SendToNext(place, kind) PROVE TypeOK'
  <2>1. i + 1 \in 1..CpuCount  BY <1>0, <1>4 DEF TypeOK, SendToNext, CpuCount
  <2>2. CpuList[i + 1].apicId \in Apics  BY <1>0, <2>1, Listing
  <2>3. icr' \in Ipi  BY <1>4, <2>2 DEF SendToNext, CpuSendIpi, Ipi
  <2> QED  BY <1>0, <1>4, <2>3 DEF TypeOK, SendToNext
<1>5. CASE StartCalibration  BY <1>0, <1>5 DEF TypeOK, StartCalibration
<1>6. CASE FinishCalibration  BY <1>0, <1>6 DEF TypeOK, FinishCalibration
<1>7. CASE CopyLowCode  BY <1>0, <1>7 DEF TypeOK, CopyLowCode
<1>8. CASE BspLateInit  BY <1>0, <1>8 DEF TypeOK, BspLateInit
<1>9. CASE PassBarrier  BY <1>0, <1>9 DEF TypeOK, PassBarrier
<1>10. CASE MemEnableGlobalPages  BY <1>0, <1>10 DEF TypeOK, MemEnableGlobalPages
<1>11. CASE DeliverIpi  BY <1>0, <1>11 DEF TypeOK, DeliverIpi, Ipi
<1>12. ASSUME NEW a \in Apics, FinishReset(a) PROVE TypeOK'
  BY <1>0, <1>12 DEF TypeOK, FinishReset
<1>13. ASSUME NEW a \in Apics, RunLowCode(a) PROVE TypeOK'
  BY <1>0, <1>13 DEF TypeOK, RunLowCode
<1>14. ASSUME NEW a \in Apics, EnterKernel(a) PROVE TypeOK'
  <2>1. a \in ListedApics
    BY <1>0, <1>14, Listing DEF IInv, PlaceInv, ListInv, EnterKernel
  <2>2. CpuList[apicToCpu[a] + 1].page \in Pages  BY <1>0, <2>1, Listing
  <2> QED  BY <1>0, <1>14, <2>2 DEF TypeOK, EnterKernel
<1>15. ASSUME NEW a \in Apics, ApBaseInit(a) PROVE TypeOK'
  BY <1>0, <1>15 DEF TypeOK, ApBaseInit
<1>16. ASSUME NEW a \in Apics, CpuLateInitAsm(a) PROVE TypeOK'
  <2>1. AfterWrites(msr[a]) \in [Msrs -> {None, "segments", "EntrySyscall", "flags"}]
    BY <1>0, WritesTyped DEF TypeOK
  <2> QED  BY <1>0, <1>16, <2>1 DEF TypeOK, CpuLateInitAsm
<1>17. ASSUME NEW a \in Apics, ApicTimerInit(a) PROVE TypeOK'
  BY <1>0, <1>17 DEF TypeOK, ApicTimerInit
<1>18. ASSUME NEW a \in Apics, MarkUp(a) PROVE TypeOK'
  BY <1>0, <1>18 DEF TypeOK, MarkUp
<1>19. CASE UNCHANGED vars  BY <1>0, <1>19 DEF TypeOK, vars
<1> QED
  BY <1>1, <1>2, <1>3, <1>4, <1>5, <1>6, <1>7, <1>8, <1>9, <1>10, <1>11, <1>12, <1>13, <1>14,
     <1>15, <1>16, <1>17, <1>18, <1>19 DEF Next, BspStep, CpuStep, SendInit, SendSipi

\* Once the table is read, the list and what belongs to it stay as they are.
ListKept ==
  /\ UNCHANGED <<madt, CpuList, apicToCpu, pool>>
  /\ IF pc[Bsp] = "parse" THEN i' = i /\ pc'[Bsp] = "parse" ELSE i' >= 1 /\ pc'[Bsp] # "parse"

\* A step reads an entry of the table, ends the reading, or keeps the list.
LEMMA OtherSteps ==
  ASSUME IInv, [Next]_vars
  PROVE  ParseEntry \/ ParseDone \/ ListKept
<1> USE DEF ListKept, tables, bspVars, perCpu, Goto
<1>0. /\ TypeOK /\ ListInv /\ i \in Nat
      /\ pc \in [Apics -> ApPlaces \cup BspPlaces \cup LatePlaces \cup {Crashed}]
  BY DEF IInv, TypeOK
<1>1. CASE BspBaseInit  BY <1>0, <1>1 DEF BspBaseInit
<1>2. ASSUME NEW kind, NEW place \in {"init", "sipi"}, SendToNext(place, kind) PROVE ListKept
  BY <1>0, <1>2 DEF SendToNext, ListInv
<1>3. CASE StartCalibration  BY <1>0, <1>3 DEF StartCalibration, ListInv
<1>4. CASE FinishCalibration  BY <1>0, <1>4 DEF FinishCalibration, ListInv
<1>5. CASE CopyLowCode  BY <1>0, <1>5 DEF CopyLowCode
<1>6. CASE BspLateInit  BY <1>0, <1>6 DEF BspLateInit, ListInv
<1>7. CASE PassBarrier  BY <1>0, <1>7 DEF PassBarrier, ListInv
<1>8. CASE MemEnableGlobalPages  BY <1>0, <1>8 DEF MemEnableGlobalPages, ListInv
<1>9. CASE DeliverIpi
  <2>1. icr.dest # Bsp /\ pc[Bsp] # "parse"
    BY <1>9 DEF IInv, IcrInv, DeliverIpi, BspLate
  <2> QED  BY <1>0, <1>9, <2>1 DEF DeliverIpi, ListInv
<1>10. ASSUME NEW a \in Apics, CpuStep(a) PROVE ListKept
  <2>1. <<pc[a], pc'[a]>> \in Moves => pc[a] # "parse" /\ pc'[a] # "parse"
    BY DEF Moves, Crashed
  <2> QED  BY <1>0, <1>10, <2>1, CpuMoves DEF ListInv
<1>11. CASE UNCHANGED vars  BY <1>0, <1>11 DEF vars, ListInv
<1> QED
  BY <1>1, <1>2, <1>3, <1>4, <1>5, <1>6, <1>7, <1>8, <1>9, <1>10, <1>11
     DEF Next, BspStep, SendInit, SendSipi

\* The ACPI table is only read.
LEMMA MadtStep == IInv /\ [Next]_vars => MadtInv'
<1>1. IInv /\ [Next]_vars => madt' = madt
  BY OtherSteps DEF ListKept, ParseEntry, ParseDone, tables
<1> QED  BY <1>1 DEF IInv, MadtInv

----------------------------------------------------------------------------
(* The list stays in order.                                                *)

\* An entry goes to the end of the list and its number into the map.
LEMMA ListStep == IInv /\ [Next]_vars => ListInv'
<1> SUFFICES ASSUME IInv, [Next]_vars PROVE ListInv'  OBVIOUS
<1>0. /\ TypeOK /\ ListInv /\ i \in Nat /\ CpuCount \in Nat /\ Len(madt) \in Nat
      /\ apicToCpu \in [Apics -> Nat] /\ MaxCpus \in Nat
  BY DEF IInv, TypeOK, CpuCount
<1>1. CASE ParseEntry /\ madt[i].enabled
  <2> DEFINE a == madt[i].apicId
  <2>1. /\ i \in 1..Len(madt) /\ a \in Apics \ ListedApics /\ AddNewCpu(a)
        /\ madt[i] = [apicId |-> a, enabled |-> TRUE]
        /\ i = 1 => a = Bsp
    BY <1>1, NextListed
  <2>2. /\ CpuCount' = CpuCount + 1 /\ \A k \in 1..CpuCount : CpuList'[k] = CpuList[k]
        /\ CpuList'[CpuCount + 1].apicId = a /\ ListedApics' = ListedApics \cup {a}
    BY <1>0, <2>1, ListingNext
  <2>3. /\ apicToCpu' = [apicToCpu EXCEPT ![a] = CpuCount] /\ madt' = madt
        /\ pc[Bsp] = "parse" /\ pc' = pc
        /\ i' = IF CpuCount + 1 >= MaxCpus THEN Len(madt) + 1 ELSE i + 1
    BY <1>1 DEF AddNewCpu, ParseEntry
  <2> HIDE DEF a
  <2>4. \A k \in 1..CpuCount : CpuList[k].apicId \in Apics \ {a}
    BY <1>0, <2>1, Listing
  <2>5. ASSUME NEW k \in 1..CpuCount' PROVE apicToCpu'[CpuList'[k].apicId] = k - 1
    <3>1. CASE k = CpuCount + 1
      <4>1. CpuList'[k].apicId = a /\ a \in Apics  BY <2>1, <2>2, <3>1
      <4>2. apicToCpu'[a] = CpuCount  BY <1>0, <2>3, <4>1
      <4> QED  BY <1>0, <3>1, <4>1, <4>2
    <3>2. CASE k # CpuCount + 1
      <4>1. k \in 1..CpuCount  BY <1>0, <2>2, <3>2
      <4>2. CpuList'[k].apicId = CpuList[k].apicId  BY <2>2, <4>1
      <4>3. apicToCpu[CpuList[k].apicId] = k - 1  BY <1>0, <4>1 DEF ListInv
      <4>4. CpuList[k].apicId \in Apics /\ CpuList[k].apicId # a  BY <2>4, <4>1
      <4> QED  BY <1>0, <2>3, <4>2, <4>3, <4>4
    <3> QED  BY <3>1, <3>2
  <2>6. CpuList'[1].apicId = Bsp
    BY <1>0, <2>1, <2>2, <2>3 DEF ListInv
  <2>7. i' > i /\ (i' <= Len(madt) => CpuCount + 1 < MaxCpus) /\ i' <= Len(madt) + 1
    BY <1>0, <2>1, <2>3
  <2>8. i < i' /\ i < Len(madt) + 1  BY <1>0, <2>1, <2>7
  <2>9. EnabledIn(a, i') /\ EnabledIn(a, Len(madt) + 1)
    BY <2>1, <2>8, Zenon DEF EnabledIn
  <2>10. \A b : EnabledIn(b, i) => EnabledIn(b, i')
    BY <1>0, <2>3, <2>7 DEF EnabledIn
  <2>11. ASSUME NEW k \in 1..CpuCount' PROVE EnabledIn(CpuList'[k].apicId, i')
    <3>1. CASE k = CpuCount + 1  BY <2>2, <2>9, <3>1
    <3>2. CASE k # CpuCount + 1
      <4>1. k \in 1..CpuCount  BY <1>0, <2>2, <3>2
      <4>2. EnabledIn(CpuList[k].apicId, i)  BY <1>0, <2>3, <4>1 DEF ListInv
      <4> QED  BY <2>2, <2>10, <4>1, <4>2
    <3> QED  BY <3>1, <3>2
  <2>12. \A b \in ListedApics' \ {Bsp} : EnabledIn(b, Len(madt) + 1)
    BY <1>0, <2>2, <2>9 DEF ListInv
  <2>13. pc'[Bsp] = "parse" /\ i' >= 1 /\ (i' <= Len(madt') => CpuCount' < MaxCpus)
    BY <1>0, <2>1, <2>2, <2>3, <2>7
  <2>14. \A k \in 1..CpuCount' : EnabledIn(CpuList[k].apicId, i)'
    BY <2>3, <2>11 DEF EnabledIn
  <2>15. \A b \in ListedApics' \ {Bsp} : EnabledIn(b, Len(madt) + 1)'
    BY <2>3, <2>12 DEF EnabledIn
  <2> QED  BY <1>0, <2>2, <2>5, <2>6, <2>13, <2>14, <2>15 DEF ListInv
<1>2. CASE ParseEntry /\ ~madt[i].enabled
  <2>1. /\ UNCHANGED <<madt, CpuList, apicToCpu, pc>> /\ i' = i + 1 /\ i <= Len(madt)
        /\ pc[Bsp] = "parse"
    BY <1>2 DEF ParseEntry
  <2>2. CpuCount > 0
    BY <1>0, <1>2, <2>1 DEF ListInv, IInv, MadtInv
  <2>3. \A b : EnabledIn(b, i) => EnabledIn(b, i')
    BY <1>0, <2>1 DEF EnabledIn
  <2>4. \A b, n : EnabledIn(b, n) <=> EnabledIn(b, n)'  BY <2>1 DEF EnabledIn
  <2>5. CpuCount' = CpuCount /\ ListedApics' = ListedApics
    BY <2>1 DEF CpuCount, ListedApics
  <2> QED  BY <1>0, <2>1, <2>2, <2>3, <2>4, <2>5 DEF ListInv
<1>3. CASE ParseDone /\ CpuCount = 0
  <2>1. /\ CpuCount' = 1 /\ CpuList'[1].apicId = Bsp /\ ListedApics' = {Bsp}
        /\ apicToCpu' = [apicToCpu EXCEPT ![Bsp] = 0] /\ i' = i /\ madt' = madt
        /\ pc' = [pc EXCEPT ![Bsp] = "bspbase"] /\ pc[Bsp] = "parse"
    <3>1. ListedApics = {}  BY <1>3 DEF ListedApics, CpuCount
    <3>2. AddNewCpu(Bsp)  BY <1>3 DEF ParseDone
    <3>3. /\ CpuCount' = 1 /\ CpuList'[1].apicId = Bsp /\ ListedApics' = {Bsp}
      <4>1. /\ CpuCount' = CpuCount + 1 /\ CpuList'[CpuCount + 1].apicId = Bsp
            /\ ListedApics' = ListedApics \cup {Bsp}
        BY <1>0, <3>2, ListingNext
      <4> QED  BY <1>0, <1>3, <3>1, <4>1
    <3> QED  BY <1>0, <1>3, <3>2, <3>3 DEF ParseDone, AddNewCpu, bspVars, tables, Goto
  <2>2. pc'[Bsp] = "bspbase"  BY <2>1, <1>0 DEF TypeOK
  <2> QED  BY <1>0, <2>1, <2>2 DEF ListInv
<1>4. CASE ParseDone /\ CpuCount # 0
  <2>1. /\ UNCHANGED <<madt, CpuList, apicToCpu, i>> /\ pc[Bsp] = "parse"
        /\ pc' = [pc EXCEPT ![Bsp] = "bspbase"]
    BY <1>4 DEF ParseDone, bspVars, Goto
  <2>2. pc'[Bsp] = "bspbase"  BY <2>1, <1>0 DEF TypeOK
  <2>3. CpuCount' = CpuCount /\ ListedApics' = ListedApics
    BY <2>1 DEF CpuCount, ListedApics
  <2> QED  BY <1>0, <1>4, <2>1, <2>2, <2>3 DEF ListInv, EnabledIn
<1>5. CASE ListKept
  <2>1. \A b, n : EnabledIn(b, n) <=> EnabledIn(b, n)'  BY <1>5 DEF EnabledIn, ListKept
  <2>2. CpuCount' = CpuCount /\ ListedApics' = ListedApics
    BY <1>5 DEF CpuCount, ListedApics, ListKept
  <2> QED  BY <1>0, <1>5, <2>1, <2>2 DEF ListInv, ListKept
<1> QED  BY <1>1, <1>2, <1>3, <1>4, <1>5, OtherSteps

\* A page leaves the pool when it goes into the list, and none comes back.
LEMMA PageStep == IInv /\ [Next]_vars => PageInv'
<1> SUFFICES ASSUME IInv, [Next]_vars PROVE PageInv'  OBVIOUS
<1>0. TypeOK /\ ListInv /\ PageInv /\ CpuCount \in Nat  BY DEF IInv, TypeOK, CpuCount
<1>1. ASSUME NEW a \in Apics, AddNewCpu(a) PROVE PageInv'
  <2>1. /\ CpuCount' = CpuCount + 1 /\ \A k \in 1..CpuCount : CpuList'[k] = CpuList[k]
        /\ CpuList'[CpuCount + 1].page \in pool
        /\ pool' = pool \ {CpuList'[CpuCount + 1].page}
    BY <1>0, <1>1, ListingNext
  <2>2. \A k \in 1..CpuCount : CpuList[k].page # CpuList'[CpuCount + 1].page
    BY <1>0, <2>1 DEF PageInv
  <2> QED  BY <1>0, <2>1, <2>2 DEF PageInv
<1>2. CASE UNCHANGED <<CpuList, pool>>  BY <1>0, <1>2 DEF PageInv, CpuCount
<1>3. CASE ParseEntry  BY <1>1, <1>2, <1>3, NextListed DEF ParseEntry
<1>4. CASE ParseDone  BY <1>1, <1>2, <1>4 DEF ParseDone
<1>5. CASE ListKept  BY <1>2, <1>5 DEF ListKept
<1> QED  BY <1>3, <1>4, <1>5, OtherSteps

----------------------------------------------------------------------------
(* Messages and places.                                                    *)

\* Before the list is complete no message is sent and no other processor runs.
LEMMA Early ==
  ASSUME IInv, pc[Bsp] \in BspEarly
  PROVE  /\ icr = None
         /\ \A a \in Apics \ {Bsp} : pc[a] = "firmware"
         /\ \A a \in Apics : stack[a] = None
  BY DEF IInv, IcrInv, PlaceInv, PlaceOf, StackInv, BspEarly, BspLate

\* The types and facts that the next lemmas share.
LEMMA Facts ==
  ASSUME IInv
  PROVE  /\ pc \in [Apics -> ApPlaces \cup BspPlaces \cup LatePlaces \cup {Crashed}]
         /\ timer \in [Apics -> {None, "calibrating", 0, Rate}]
         /\ stack \in [Apics -> Pages \cup {None}]
         /\ i \in Nat /\ CpuCount \in Nat /\ initCpusUp \in Nat
         /\ apicToCpu \in [Apics -> Nat] /\ ListedApics \subseteq Apics
         /\ IsFiniteSet(ListedApics) /\ None \notin Ipi
         /\ pc[Bsp] # "parse" => Bsp \in ListedApics /\ i >= 1
         /\ \A a \in ListedApics \ {Bsp} : apicToCpu[a] \in 1..(CpuCount - 1)
<1>1. TypeOK /\ ListInv  BY DEF IInv
<1>2. IsFiniteSet(ListedApics)  BY <1>1, Listing, FS_Subset
<1>3. \A a \in ListedApics \ {Bsp} : apicToCpu[a] \in 1..(CpuCount - 1)  BY <1>1, Listing
<1>4. pc[Bsp] # "parse" => Bsp \in ListedApics /\ i >= 1  BY <1>1, Listing DEF ListInv
<1> QED  BY <1>1, <1>2, <1>3, <1>4, Listing DEF TypeOK, Ipi

\* An empty command register holds no message to anyone.
LEMMA NoneSent ==
  ASSUME icr = None, NEW a \in Apics, NEW kind \in {"INIT", "SIPI"}
  PROVE  ~Sent(kind, a)
<1>1. [kind |-> kind, dest |-> a] \in Ipi  BY DEF Ipi
<1> QED  BY <1>1 DEF Sent, Ipi

\* The processor that the loops of CpuInitAll come to next.
LEMMA NextSent ==
  ASSUME IInv, i < CpuCount, pc[Bsp] # "parse"
  PROVE  /\ CpuList[i + 1].apicId \in ListedApics \ {Bsp}
         /\ apicToCpu[CpuList[i + 1].apicId] = i
         /\ \A a \in ListedApics : apicToCpu[a] = i => a = CpuList[i + 1].apicId
<1>1. TypeOK /\ ListInv  BY DEF IInv
<1>2. i + 1 \in 1..CpuCount /\ 1 \in 1..CpuCount /\ i # 0  BY <1>1, Facts
<1>3. apicToCpu[CpuList[i + 1].apicId] = i /\ apicToCpu[Bsp] = 0
  BY <1>1, <1>2, Facts DEF ListInv
<1> QED  BY <1>1, <1>2, <1>3, Listing

\* The same list has the same processors.
LEMMA KeptListed == ListKept => CpuCount' = CpuCount /\ ListedApics' = ListedApics
  BY DEF ListKept, CpuCount, ListedApics

\* Only the boot processor sends, to the processor its loop is at, and not before the
\* message before was delivered; the receiver of a SIPI does nothing until it comes.
LEMMA IcrStep == IInv /\ [Next]_vars => IcrInv'
<1> SUFFICES ASSUME IInv, [Next]_vars PROVE IcrInv'  OBVIOUS
<1> USE DEF tables, bspVars, perCpu, Goto, BspLate
<1>0. IcrInv /\ PlaceInv  BY DEF IInv
<1>1. CASE icr' = None  BY <1>1 DEF IcrInv
<1>2. CASE ParseEntry \/ ParseDone
  <2>1. icr = None  BY <1>2, Early DEF ParseEntry, ParseDone, BspEarly
  <2> QED  BY <1>1, <1>2, <2>1 DEF ParseEntry, ParseDone
<1>3. CASE BspBaseInit \/ CopyLowCode \/ FinishCalibration
  BY <1>0, <1>1, <1>3 DEF BspBaseInit, CopyLowCode, FinishCalibration, IcrInv
<1>4. CASE SendInit
  <2> DEFINE a == CpuList[i + 1].apicId
  <2>1. pc[Bsp] = "init" /\ i < CpuCount  BY <1>4 DEF SendInit, SendToNext
  <2>2. a \in ListedApics \ {Bsp} /\ apicToCpu[a] = i  BY <2>1, NextSent
  <2>3. /\ icr' = [kind |-> "INIT", dest |-> a] /\ i' = i + 1 /\ pc' = pc
        /\ UNCHANGED <<CpuList, apicToCpu>> /\ ListedApics' = ListedApics
    BY <1>4 DEF SendInit, SendToNext, CpuSendIpi, ListedApics
  <2> HIDE DEF a
  <2> QED  BY <2>1, <2>2, <2>3, Facts DEF IcrInv
<1>5. CASE SendSipi
  <2> DEFINE a == CpuList[i + 1].apicId
  <2>1. pc[Bsp] = "sipi" /\ i < CpuCount  BY <1>5 DEF SendSipi, SendToNext
  <2>2. a \in ListedApics \ {Bsp} /\ apicToCpu[a] = i  BY <2>1, NextSent
  <2>3. /\ icr' = [kind |-> "SIPI", dest |-> a] /\ i' = i + 1 /\ pc' = pc
        /\ UNCHANGED <<CpuList, apicToCpu>> /\ ListedApics' = ListedApics
    BY <1>5 DEF SendSipi, SendToNext, CpuSendIpi, ListedApics
  <2> HIDE DEF a
  <2>4. pc[a] = "waitsipi"  BY <1>0, <2>1, <2>2, Facts DEF PlaceInv, PlaceOf
  <2> QED  BY <2>1, <2>2, <2>3, <2>4, Facts DEF IcrInv
<1>6. ASSUME icr' = icr, icr # None, i' = i, ListKept,
             \/ pc'[Bsp] = pc[Bsp]
             \/ pc'[Bsp] \in {"pit"} /\ pc[Bsp] = "init"
             \/ pc'[Bsp] \in BspLate /\ pc[Bsp] \in {"sipi"} \cup BspLate,
             pc[icr.dest] = "waitsipi" => pc'[icr.dest] = "waitsipi"
      PROVE  IcrInv'
  BY <1>0, <1>6, KeptListed DEF IcrInv, ListKept
<1>7. CASE StartCalibration \/ BspLateInit \/ PassBarrier \/ MemEnableGlobalPages
  <2>1. ListKept
    BY <1>7, OtherSteps, Facts DEF StartCalibration, BspLateInit, PassBarrier,
       MemEnableGlobalPages, ParseEntry, ParseDone
  <2> QED
    BY <1>0, <1>1, <1>6, <1>7, <2>1, Facts DEF StartCalibration, BspLateInit, PassBarrier,
       MemEnableGlobalPages, IcrInv
<1>8. CASE DeliverIpi  BY <1>1, <1>8 DEF DeliverIpi
<1>9. ASSUME NEW a \in Apics, CpuStep(a) PROVE IcrInv'
  <2>1. /\ UNCHANGED <<madt, i, CpuList, apicToCpu, pool, icr>>
        /\ <<pc[a], pc'[a]>> \in Moves /\ \A b \in Apics \ {a} : pc'[b] = pc[b]
        /\ pc[a] = "mark" => pc'[a] = IF a = Bsp THEN "wait" ELSE "hlt"
    BY <1>9, CpuMoves DEF IInv
  <2>2. CpuCount' = CpuCount /\ ListedApics' = ListedApics
    BY <2>1 DEF CpuCount, ListedApics
  <2>3. pc[a] # "waitsipi"  BY <2>1 DEF Moves, Crashed
  <2>4. a = Bsp => pc[a] \in BspLate /\ pc'[a] \in BspLate
    BY <1>0, <2>1 DEF Moves, Crashed, PlaceInv, BspPlaces
  <2>5. icr # None => icr.dest \in Apics /\ icr.dest # Bsp /\ icr.dest \in ListedApics
    BY <1>0, Facts DEF IcrInv
  <2>6. pc'[Bsp] = pc[Bsp] \/ (pc[Bsp] \in BspLate /\ pc'[Bsp] \in BspLate)
    BY <2>1, <2>4
  <2>7. icr # None /\ pc[icr.dest] = "waitsipi" => pc'[icr.dest] = "waitsipi"
    BY <2>1, <2>3, <2>5
  <2> QED  BY <1>0, <2>1, <2>2, <2>5, <2>6, <2>7 DEF IcrInv
<1>10. CASE UNCHANGED vars
  <2>1. CpuCount' = CpuCount /\ ListedApics' = ListedApics
    BY <1>10 DEF CpuCount, ListedApics, vars
  <2> QED  BY <1>0, <1>10, <2>1 DEF IcrInv, vars
<1> QED
  BY <1>2, <1>3, <1>4, <1>5, <1>7, <1>8, <1>9, <1>10 DEF Next, BspStep

\* Where a processor is depends on the places of the boot processor alone, on the loop
\* counter and on the message under way.
LEMMA PlaceStep == IInv /\ [Next]_vars => PlaceInv'
<1> SUFFICES ASSUME IInv, [Next]_vars PROVE PlaceInv'  OBVIOUS
<1> USE DEF tables, bspVars, perCpu, Goto, BspLate, BspEarly, BspPlaces
<1>0. PlaceInv /\ IcrInv  BY DEF IInv
<1>1. CASE ParseEntry \/ ParseDone
  <2>1. /\ pc[Bsp] = "parse" /\ pc'[Bsp] \in BspEarly
        /\ \A a \in Apics \ {Bsp} : pc'[a] = pc[a]
    BY <1>1, Facts DEF ParseEntry, ParseDone
  <2>2. \A a \in Apics \ {Bsp} : pc'[a] = "firmware"  BY <2>1, Early
  <2>3. ListedApics' \subseteq Apics
    <3>1. CpuList' \in Seq(Cpu)  BY TypeStep DEF TypeOK
    <3>2. \A k \in 1..Len(CpuList') : CpuList'[k] \in Cpu  BY <3>1
    <3>3. \A k \in 1..Len(CpuList') : CpuList'[k].apicId \in Apics  BY <3>2 DEF Cpu
    <3> QED  BY <3>3 DEF ListedApics
  <2> QED  BY <2>1, <2>2, <2>3 DEF PlaceInv, PlaceOf
<1>2. ASSUME ListKept, pc'[Bsp] \in BspPlaces \cup {"asm", "timer", "mark"},
             \A a \in Apics \ (ListedApics \cup {Bsp}) : pc'[a] = pc[a],
             \A a \in ListedApics \ {Bsp} : PlaceOf(a)'
      PROVE  PlaceInv'
  BY <1>0, <1>2, KeptListed DEF PlaceInv
<1>3. CASE BspBaseInit
  <2>1. ListKept /\ icr = None
    BY <1>3, OtherSteps, Early DEF BspBaseInit, ParseEntry, ParseDone
  <2>2. \A a \in Apics \ {Bsp} : pc'[a] = "firmware"  BY <1>3, Early, Facts DEF BspBaseInit
  <2>3. \A a \in ListedApics \ {Bsp} : apicToCpu'[a] >= 1
    BY <2>1, Facts DEF ListKept
  <2>4. pc'[Bsp] = "init" /\ i' = 1  BY <1>3, Facts DEF BspBaseInit
  <2>5. ASSUME NEW a \in ListedApics \ {Bsp} PROVE PlaceOf(a)'
    <3>1. pc'[a] = "firmware" /\ ~(apicToCpu'[a] < i')
      BY <2>1, <2>2, <2>3, <2>4, <2>5, Facts DEF ListKept
    <3> QED  BY <2>4, <3>1 DEF PlaceOf
  <2>6. \A a \in Apics \ (ListedApics \cup {Bsp}) : pc'[a] = pc[a]
    BY <1>3, Facts DEF BspBaseInit
  <2> QED  BY <1>2, <2>1, <2>4, <2>5, <2>6
<1>4. CASE SendInit
  <2>1. /\ pc[Bsp] = "init" /\ i < CpuCount /\ i' = i + 1 /\ pc' = pc /\ icr = None
        /\ icr' = [kind |-> "INIT", dest |-> CpuList[i + 1].apicId]
    BY <1>4 DEF SendInit, SendToNext, CpuSendIpi
  <2>2. ListKept  BY <1>4, OtherSteps DEF SendInit, SendToNext, ParseEntry, ParseDone
  <2>3. \A a \in ListedApics : apicToCpu[a] = i => a = CpuList[i + 1].apicId
    BY <2>1, NextSent
  <2>4. ASSUME NEW a \in ListedApics \ {Bsp} PROVE PlaceOf(a)'
    <3>1. pc[a] \in {"reset", "waitsipi"} \/ (pc[a] = "firmware" /\ ~(apicToCpu[a] < i))
      BY <1>0, <2>1, NoneSent, Facts DEF PlaceInv, PlaceOf, Reset
    <3>2. apicToCpu[a] < i + 1 => apicToCpu[a] < i \/ apicToCpu[a] = i  BY Facts
    <3>3. apicToCpu[a] < i => apicToCpu[a] < i + 1  BY Facts
    <3>4. apicToCpu[a] < i + 1 => Reset(a)'
      BY <1>0, <2>1, <2>3, <3>1, <3>2 DEF PlaceInv, PlaceOf, Reset, Sent
    <3>5. ~(apicToCpu[a] < i + 1) => pc[a] = "firmware"
      BY <1>0, <2>1, <3>3 DEF PlaceInv, PlaceOf
    <3> QED  BY <2>1, <2>2, <3>4, <3>5 DEF PlaceOf, ListKept
  <2> QED  BY <1>0, <1>2, <2>1, <2>2, <2>4 DEF PlaceInv
<1>5. CASE SendSipi
  <2>1. /\ pc[Bsp] = "sipi" /\ i < CpuCount /\ i' = i + 1 /\ pc' = pc /\ icr = None
        /\ icr' = [kind |-> "SIPI", dest |-> CpuList[i + 1].apicId]
    BY <1>5 DEF SendSipi, SendToNext, CpuSendIpi
  <2>2. ListKept  BY <1>5, OtherSteps DEF SendSipi, SendToNext, ParseEntry, ParseDone
  <2>3. \A a \in ListedApics : apicToCpu[a] = i => a = CpuList[i + 1].apicId
    BY <2>1, NextSent
  <2>4. ASSUME NEW a \in ListedApics \ {Bsp} PROVE PlaceOf(a)'
    <3>1. pc[a] \in Running \/ (pc[a] = "waitsipi" /\ ~(apicToCpu[a] < i))
      BY <1>0, <2>1, NoneSent, Facts DEF PlaceInv, PlaceOf, Woken
    <3>2. apicToCpu[a] < i + 1 => apicToCpu[a] < i \/ apicToCpu[a] = i  BY Facts
    <3>3. apicToCpu[a] < i => apicToCpu[a] < i + 1  BY Facts
    <3>4. apicToCpu[a] < i + 1 => Woken(a)'
      BY <1>0, <2>1, <2>3, <3>1, <3>2 DEF PlaceInv, PlaceOf, Woken, Sent
    <3>5. ~(apicToCpu[a] < i + 1) => pc[a] = "waitsipi"
      BY <1>0, <2>1, <3>3 DEF PlaceInv, PlaceOf
    <3> QED  BY <2>1, <2>2, <3>4, <3>5 DEF PlaceOf, ListKept
  <2> QED  BY <1>0, <1>2, <2>1, <2>2, <2>4 DEF PlaceInv
<1>6. CASE StartCalibration
  <2>1. /\ pc[Bsp] = "init" /\ i >= CpuCount /\ pc'[Bsp] = "pit" /\ UNCHANGED <<icr, i>>
        /\ \A a \in Apics \ {Bsp} : pc'[a] = pc[a]
    BY <1>6, Facts DEF StartCalibration
  <2>2. ListKept  BY <1>6, <2>1, OtherSteps DEF ParseEntry, ParseDone
  <2>3. ASSUME NEW a \in ListedApics \ {Bsp} PROVE PlaceOf(a)'
    <3>1. apicToCpu[a] < i  BY <2>1, Facts
    <3>2. Reset(a)  BY <1>0, <2>1, <3>1 DEF PlaceInv, PlaceOf
    <3>3. Reset(a)'  BY <2>1, <3>2, Facts DEF Reset, Sent
    <3> QED  BY <2>1, <3>3 DEF PlaceOf
  <2> QED  BY <1>0, <1>2, <2>1, <2>2, <2>3, Facts
<1>7. CASE FinishCalibration
  <2>1. /\ pc[Bsp] = "pit" /\ icr = None /\ pc'[Bsp] = "copy"
        /\ \A a \in Apics \ {Bsp} : pc'[a] = pc[a] /\ pc[a] # "reset"
    BY <1>7, Facts DEF FinishCalibration
  <2>2. ListKept  BY <1>7, <2>1, OtherSteps DEF ParseEntry, ParseDone
  <2>3. ASSUME NEW a \in ListedApics \ {Bsp} PROVE PlaceOf(a)'
    <3>1. pc[a] = "waitsipi"
      BY <1>0, <2>1, NoneSent, Facts DEF PlaceInv, PlaceOf, Reset
    <3> QED  BY <2>1, <3>1, Facts DEF PlaceOf
  <2> QED  BY <1>2, <2>1, <2>2, <2>3, Facts
<1>8. CASE CopyLowCode
  <2>1. /\ pc[Bsp] = "copy" /\ i' = 1 /\ pc'[Bsp] = "sipi"
        /\ \A a \in Apics \ {Bsp} : pc'[a] = pc[a]
    BY <1>8, Facts DEF CopyLowCode
  <2>2. ListKept  BY <1>8, <2>1, OtherSteps DEF ParseEntry, ParseDone
  <2>3. ASSUME NEW a \in ListedApics \ {Bsp} PROVE PlaceOf(a)'
    <3>1. pc[a] = "waitsipi"  BY <1>0, <2>1 DEF PlaceInv, PlaceOf
    <3>2. ~(apicToCpu'[a] < i')  BY <2>1, <2>2, Facts DEF ListKept
    <3> QED  BY <2>1, <3>1, <3>2, Facts DEF PlaceOf
  <2> QED  BY <1>2, <2>1, <2>2, <2>3, Facts
<1>9. CASE BspLateInit
  <2>1. /\ pc[Bsp] = "sipi" /\ i >= CpuCount /\ pc'[Bsp] = "asm" /\ icr' = icr
        /\ \A a \in Apics \ {Bsp} : pc'[a] = pc[a]
    BY <1>9, Facts DEF BspLateInit
  <2>2. ListKept  BY <1>9, <2>1, OtherSteps DEF ParseEntry, ParseDone
  <2>3. ASSUME NEW a \in ListedApics \ {Bsp} PROVE PlaceOf(a)'
    <3>1. apicToCpu[a] < i  BY <2>1, Facts
    <3>2. Woken(a)  BY <1>0, <2>1, <3>1 DEF PlaceInv, PlaceOf
    <3>3. Woken(a)'  BY <2>1, <3>2, Facts DEF Woken, Sent
    <3> QED  BY <2>1, <3>3 DEF PlaceOf
  <2> QED  BY <1>2, <2>1, <2>2, <2>3, Facts
<1>10. CASE PassBarrier \/ MemEnableGlobalPages
  <2>1. /\ pc[Bsp] \in BspLate /\ pc'[Bsp] \in {"unmap", "panic"} /\ icr' = icr
        /\ \A a \in Apics \ {Bsp} : pc'[a] = pc[a]
    BY <1>10, Facts DEF PassBarrier, MemEnableGlobalPages
  <2>2. ListKept  BY <1>10, <2>1, OtherSteps DEF ParseEntry, ParseDone
  <2>3. ASSUME NEW a \in ListedApics \ {Bsp} PROVE PlaceOf(a)'
    <3>1. Woken(a)  BY <1>0, <2>1 DEF PlaceInv, PlaceOf
    <3>2. Woken(a)'  BY <2>1, <3>1, Facts DEF Woken, Sent
    <3> QED  BY <2>1, <3>2 DEF PlaceOf
  <2> QED  BY <1>2, <2>1, <2>2, <2>3, Facts
<1>11. CASE DeliverIpi
  <2>0. PICK d \in ListedApics \ {Bsp} : d = icr.dest
    BY <1>0, <1>11 DEF IcrInv, DeliverIpi
  <2>1. /\ d \in ListedApics \ {Bsp} /\ apicToCpu[d] < i /\ pc[Bsp] # "parse"
        /\ \/ pc[Bsp] \in {"init", "pit"} /\ icr.kind = "INIT"
           \/ pc[Bsp] \in {"sipi"} \cup BspLate /\ icr.kind = "SIPI" /\ pc[d] = "waitsipi"
    BY <1>0, <1>11, <2>0 DEF IcrInv, DeliverIpi
  <2>2. /\ pc'[d] = IF icr.kind = "INIT" THEN "reset" ELSE IF pc[d] = "waitsipi" THEN "low" ELSE pc[d]
        /\ \A a \in Apics \ {d} : pc'[a] = pc[a]
        /\ i' = i
    BY <1>11, <2>0, <2>1, Facts DEF DeliverIpi
  <2>3. ListKept  BY <1>11, <2>1, OtherSteps DEF ParseEntry, ParseDone
  <2>4. \A a, k : Sent(k, a) => a = d  BY <2>0 DEF Sent
  <2>5. pc'[Bsp] = pc[Bsp]  BY <2>1, <2>2
  <2>6. PlaceOf(d)'
    BY <2>1, <2>2, <2>3, <2>5 DEF PlaceOf, Reset, Woken, ListKept, Running
  <2>7. ASSUME NEW a \in ListedApics \ {Bsp, d} PROVE PlaceOf(a)'
    <3>1. pc'[a] = pc[a]  BY <2>2, Facts
    <3>2. Reset(a) => Reset(a)'  BY <2>4, <3>1 DEF Reset
    <3>3. Woken(a) => Woken(a)'  BY <2>4, <3>1 DEF Woken
    <3>4. PlaceOf(a)  BY <1>0 DEF PlaceInv
    <3> QED  BY <2>2, <2>3, <2>5, <3>1, <3>2, <3>3, <3>4 DEF PlaceOf, ListKept
  <2>8. \A a \in ListedApics \ {Bsp} : PlaceOf(a)'
    <3> SUFFICES ASSUME NEW a \in ListedApics \ {Bsp} PROVE PlaceOf(a)'  OBVIOUS
    <3>1. CASE a = d  BY <2>6, <3>1
    <3>2. CASE a # d  BY <2>7, <3>2
    <3> QED  BY <3>1, <3>2
  <2>9. \A a \in Apics \ (ListedApics \cup {Bsp}) : pc'[a] = pc[a]
    BY <2>1, <2>2
  <2> QED  BY <1>0, <1>2, <2>3, <2>5, <2>8, <2>9 DEF PlaceInv
<1>12. ASSUME NEW b \in Apics, CpuStep(b) PROVE PlaceInv'
  <2>1. /\ UNCHANGED <<madt, i, CpuList, apicToCpu, pool, icr, lowCode, identity>>
        /\ <<pc[b], pc'[b]>> \in Moves
        /\ \A a \in Apics \ {b} : pc'[a] = pc[a]
        /\ pc[b] = "low" => pc'[b] = IF lowCode THEN "paging" ELSE Crashed
        /\ pc[b] = "paging" => pc'[b] = IF identity THEN "apicbase" ELSE Crashed
        /\ pc[b] = "mark" => pc'[b] = IF b = Bsp THEN "wait" ELSE "hlt"
    BY <1>12, CpuMoves DEF IInv
  <2>2. ListKept
    BY <2>1, Facts DEF ListKept, Moves, Crashed
  <2>3. CASE b = Bsp
    <3>1. pc[Bsp] \in BspLate /\ pc'[Bsp] \in {"timer", "mark", "wait"}
      BY <1>0, <2>1, <2>3 DEF Moves, Crashed, PlaceInv
    <3>2. ASSUME NEW a \in ListedApics \ {Bsp} PROVE PlaceOf(a)'
      <4>1. Woken(a) /\ pc'[a] = pc[a]  BY <1>0, <2>1, <2>3, <3>1, Facts DEF PlaceInv, PlaceOf
      <4>2. Woken(a)'  BY <2>1, <4>1 DEF Woken, Sent
      <4> QED  BY <3>1, <4>2 DEF PlaceOf
    <3> QED  BY <1>2, <2>1, <2>2, <2>3, <3>1, <3>2
  <2>4. CASE b # Bsp
    <3>1. b \in ListedApics
      BY <1>0, <2>1, <2>4 DEF PlaceInv, Moves, Crashed
    <3>2. pc'[Bsp] = pc[Bsp]  BY <2>1, <2>4
    <3>3. PlaceOf(b)  BY <1>0, <2>4, <3>1 DEF PlaceInv
    <3>4. ASSUME pc[b] = "reset" PROVE PlaceOf(b)'
      <4>1. pc'[b] = "waitsipi"  BY <2>1, <3>4 DEF Moves, Crashed
      <4> QED  BY <2>1, <3>2, <3>3, <3>4, <4>1 DEF PlaceOf, Reset, Woken, Running, LatePlaces
    <3>5. ASSUME pc[b] # "reset" PROVE PlaceOf(b)'
      <4>1. pc[b] \in Running /\ pc[Bsp] \in {"sipi"} \cup BspLate
        BY <1>0, <2>1, <3>3, <3>5
        DEF PlaceInv, PlaceOf, Reset, Woken, Moves, Crashed, Running, LatePlaces
      <4>2. CpuCount > 1  BY <2>4, <3>1, Facts
      <4>3. lowCode  BY <4>1, <4>2 DEF IInv, ReadyInv
      <4>4. pc[b] = "paging" => identity
        BY <3>1, <4>1 DEF IInv, ReadyInv, IsUp
      <4>5. pc'[b] \in Running  BY <2>1, <2>4, <4>1, <4>3, <4>4
        DEF Moves, Running, LatePlaces, Crashed
      <4>6. pc[Bsp] = "sipi" => apicToCpu[b] < i
        BY <3>3, <4>1 DEF PlaceOf, Running, LatePlaces
      <4> QED  BY <2>1, <3>2, <4>1, <4>5, <4>6 DEF PlaceOf, Woken
    <3>6. PlaceOf(b)'  BY <3>4, <3>5
    <3>7. ASSUME NEW a \in ListedApics \ {Bsp, b} PROVE PlaceOf(a)'
      <4>1. PlaceOf(a) /\ pc'[a] = pc[a]  BY <1>0, <2>1, Facts DEF PlaceInv
      <4> QED  BY <2>1, <3>2, <4>1 DEF PlaceOf, Reset, Woken, Sent
    <3>8. \A a \in ListedApics \ {Bsp} : PlaceOf(a)'
      <4> SUFFICES ASSUME NEW a \in ListedApics \ {Bsp} PROVE PlaceOf(a)'  OBVIOUS
      <4>1. CASE a = b  BY <3>6, <4>1
      <4>2. CASE a # b  BY <3>7, <4>2
      <4> QED  BY <4>1, <4>2
    <3> QED  BY <1>0, <1>2, <2>1, <2>2, <3>1, <3>2, <3>8 DEF PlaceInv
  <2> QED  BY <2>3, <2>4
<1>13. CASE UNCHANGED vars
  <2>1. CpuCount' = CpuCount /\ ListedApics' = ListedApics
    BY <1>13 DEF CpuCount, ListedApics, vars
  <2> QED  BY <1>0, <1>13, <2>1 DEF PlaceInv, PlaceOf, Reset, Woken, Sent, vars
<1> QED
  BY <1>1, <1>3, <1>4, <1>5, <1>6, <1>7, <1>8, <1>9, <1>10, <1>11, <1>12, <1>13
     DEF Next, BspStep

----------------------------------------------------------------------------
(* Code, rate, mapping, stacks and the barrier.                            *)

\* Who is up stays up; who gets up is the processor that counts itself.
LEMMA UpKept ==
  ASSUME IInv, [Next]_vars, \A a \in Apics : ~MarkUp(a)
  PROVE  \A a \in Apics : IsUp(a)' <=> IsUp(a)
<1> USE DEF tables, bspVars, perCpu, Goto, BspLate
<1>1. ASSUME NEW a \in Apics, CpuStep(a) PROVE \A b \in Apics : IsUp(b)' <=> IsUp(b)
  <2>1. /\ <<pc[a], pc'[a]>> \in Moves
        /\ \A b \in Apics \ {a} : pc'[b] = pc[b]
    BY <1>1, CpuMoves DEF IInv
  <2>2. pc[a] # "mark"
    BY <1>1 DEF CpuStep, FinishReset, RunLowCode, EnterKernel, ApBaseInit, CpuLateInitAsm,
       ApicTimerInit
  <2>3. ~IsUp(a) /\ ~IsUp(a)'  BY <2>1, <2>2 DEF Moves, Crashed, IsUp
  <2>4. ASSUME NEW b \in Apics \ {a} PROVE IsUp(b)' <=> IsUp(b)  BY <2>1 DEF IsUp
  <2> QED  BY <2>3, <2>4
<1>2. CASE DeliverIpi
  <2>0. PICK d \in Apics : d = icr.dest  BY <1>2, Facts DEF IInv, IcrInv, DeliverIpi
  <2>1. ~IsUp(d)
    BY <1>2, <2>0, Facts DEF IInv, IcrInv, PlaceInv, PlaceOf, DeliverIpi, Reset, IsUp
  <2>2. pc' = [pc EXCEPT ![d] = IF icr.kind = "INIT" THEN "reset"
                                ELSE IF @ = "waitsipi" THEN "low" ELSE @]
    BY <1>2, <2>0 DEF DeliverIpi
  <2>3. ~IsUp(d)'  BY <2>1, <2>2, Facts DEF IsUp
  <2>4. ASSUME NEW b \in Apics \ {d} PROVE IsUp(b)' <=> IsUp(b)  BY <2>2, Facts DEF IsUp
  <2> QED  BY <2>1, <2>3, <2>4
<1>3. ASSUME pc' = pc PROVE \A a \in Apics : IsUp(a)' <=> IsUp(a)  BY <1>3 DEF IsUp
<1>4. CASE ParseEntry  BY <1>3, <1>4 DEF ParseEntry
<1>5. CASE SendInit \/ SendSipi  BY <1>3, <1>5 DEF SendInit, SendSipi, SendToNext
<1>6. CASE UNCHANGED vars  BY <1>3, <1>6 DEF vars
<1>7. CASE ParseDone  BY <1>7, Facts DEF ParseDone, IsUp
<1>8. CASE BspBaseInit  BY <1>8, Facts DEF BspBaseInit, IsUp
<1>9. CASE StartCalibration  BY <1>9, Facts DEF StartCalibration, IsUp
<1>10. CASE FinishCalibration  BY <1>10, Facts DEF FinishCalibration, IsUp
<1>11. CASE CopyLowCode  BY <1>11, Facts DEF CopyLowCode, IsUp
<1>12. CASE BspLateInit  BY <1>12, Facts DEF BspLateInit, IsUp
<1>13. CASE PassBarrier  BY <1>13, Facts DEF PassBarrier, IsUp
<1>14. CASE MemEnableGlobalPages  BY <1>14, Facts DEF MemEnableGlobalPages, IsUp
<1> QED
  BY <1>1, <1>2, <1>4, <1>5, <1>6, <1>7, <1>8, <1>9, <1>10, <1>11, <1>12, <1>13, <1>14
     DEF Next, BspStep

\* Who counts itself in initCpusUp is listed and was not counted before.
LEMMA UpOnMark ==
  ASSUME IInv, NEW a \in Apics, MarkUp(a)
  PROVE  /\ a \in ListedApics /\ ~IsUp(a) /\ IsUp(a)'
         /\ \A b \in Apics \ {a} : IsUp(b)' <=> IsUp(b)
         /\ pc[Bsp] \in {"sipi"} \cup BspLate
<1>1. pc[a] = "mark" /\ pc' = [pc EXCEPT ![a] = IF a = Bsp THEN "wait" ELSE "hlt"]
  BY DEF MarkUp, Goto
<1>2. a \in ListedApics /\ pc[Bsp] \in {"sipi"} \cup BspLate
  <2>1. CASE a = Bsp  BY <1>1, <2>1, Facts DEF BspLate
  <2>2. CASE a # Bsp
    <3>1. a \in ListedApics  BY <1>1, <2>2 DEF IInv, PlaceInv
    <3> QED
      BY <1>1, <2>2, <3>1
      DEF IInv, PlaceInv, PlaceOf, BspPlaces, BspEarly, BspLate, Reset
  <2> QED  BY <2>1, <2>2
<1>3. ~IsUp(a) /\ IsUp(a)'  BY <1>1, Facts DEF IsUp
<1>4. ASSUME NEW b \in Apics \ {a} PROVE IsUp(b)' <=> IsUp(b)  BY <1>1, Facts DEF IsUp
<1> QED  BY <1>2, <1>3, <1>4

\* The set of processors that are up grows by one with each that counts itself.
LEMMA BarrierStep == IInv /\ [Next]_vars => BarrierCountsListed'
<1> SUFFICES ASSUME IInv, [Next]_vars PROVE BarrierCountsListed'  OBVIOUS
<1> DEFINE Up == {a \in ListedApics : IsUp(a)}
<1>0. /\ initCpusUp = Cardinality(Up) /\ CpuCount = Cardinality(ListedApics)
      /\ IsFiniteSet(Up)
  BY Facts, FS_Subset DEF IInv, BarrierCountsListed
<1>1. ASSUME initCpusUp' = Cardinality(Up'), CpuCount' = Cardinality(ListedApics')
      PROVE  BarrierCountsListed'
  BY <1>1 DEF BarrierCountsListed
<1> HIDE DEF Up
<1>2. ASSUME NEW a \in Apics, MarkUp(a) PROVE BarrierCountsListed'
  <2>1. ListedApics' = ListedApics /\ CpuCount' = CpuCount /\ initCpusUp' = initCpusUp + 1
    BY <1>2 DEF MarkUp, tables, ListedApics, CpuCount
  <2>2. Up' = Up \cup {a} /\ a \notin Up  BY <1>2, <2>1, UpOnMark, Facts DEF Up
  <2>3. Cardinality(Up') = Cardinality(Up) + 1  BY <1>0, <2>2, FS_AddElement
  <2> QED  BY <1>0, <1>1, <2>1, <2>3
<1>3. CASE \A a \in Apics : ~MarkUp(a)
  <2>1. \A a \in Apics : IsUp(a)' <=> IsUp(a)  BY <1>3, UpKept
  <2>2. initCpusUp' = initCpusUp
    BY <1>3 DEF Next, BspStep, CpuStep, ParseEntry, ParseDone, BspBaseInit, SendInit, SendSipi,
       SendToNext, StartCalibration, FinishCalibration, CopyLowCode, BspLateInit, PassBarrier,
       MemEnableGlobalPages, DeliverIpi, FinishReset, RunLowCode, EnterKernel, ApBaseInit,
       CpuLateInitAsm, ApicTimerInit, vars
  <2>3. ASSUME NEW a \in Apics \ ListedApics, AddNewCpu(a), ~IsUp(a) PROVE BarrierCountsListed'
    <3>1. ListedApics' = ListedApics \cup {a} /\ CpuCount' = CpuCount + 1
      BY <2>3, ListingNext DEF IInv
    <3>2. Cardinality(ListedApics') = Cardinality(ListedApics) + 1
      BY <2>3, <3>1, Facts, FS_AddElement
    <3>3. Up' = Up  BY <2>1, <2>3, <3>1, Facts DEF Up
    <3> QED  BY <1>0, <1>1, <2>2, <3>1, <3>2, <3>3
  <2>4. ASSUME UNCHANGED CpuList PROVE BarrierCountsListed'
    <3>1. ListedApics' = ListedApics /\ CpuCount' = CpuCount
      BY <2>4 DEF ListedApics, CpuCount
    <3>2. Up' = Up  BY <2>1, <3>1, Facts DEF Up
    <3> QED  BY <1>0, <1>1, <2>2, <3>1, <3>2
  <2>5. CASE ParseEntry /\ madt[i].enabled
    <3>1. PICK a \in Apics \ ListedApics : AddNewCpu(a)  BY <2>5, NextListed
    <3>2. ~IsUp(a)
      BY <2>5, Early DEF ParseEntry, IsUp, BspEarly
    <3> QED  BY <2>3, <3>1, <3>2
  <2>6. CASE ParseDone /\ CpuCount = 0
    <3>1. Bsp \notin ListedApics  BY <2>6 DEF ListedApics, CpuCount
    <3>2. AddNewCpu(Bsp) /\ ~IsUp(Bsp)  BY <2>6 DEF ParseDone, Goto, IsUp
    <3> QED  BY <2>3, <3>1, <3>2
  <2>7. CASE ParseEntry /\ ~madt[i].enabled  BY <2>4, <2>7 DEF ParseEntry
  <2>8. CASE ParseDone /\ CpuCount # 0  BY <2>4, <2>8 DEF ParseDone
  <2>9. CASE ListKept  BY <2>4, <2>9 DEF ListKept
  <2> QED  BY <2>5, <2>6, <2>7, <2>8, <2>9, OtherSteps
<1> QED  BY <1>2, <1>3

\* What a processor needs is there before it can get to where it needs it.
LEMMA ReadyStep == IInv /\ [Next]_vars => ReadyInv'
<1> SUFFICES ASSUME IInv, [Next]_vars PROVE ReadyInv'  OBVIOUS
<1> USE DEF tables, bspVars, perCpu, Goto, BspLate
<1>0. ReadyInv /\ PlaceInv  BY DEF IInv
\* The code...
<1>1. pc'[Bsp] \in {"sipi"} \cup BspLate /\ CpuCount' > 1 => lowCode'
  <2>1. ASSUME UNCHANGED <<CpuList, lowCode>>,
               pc'[Bsp] \in {"sipi"} \cup BspLate => pc[Bsp] \in {"sipi"} \cup BspLate
        PROVE  pc'[Bsp] \in {"sipi"} \cup BspLate /\ CpuCount' > 1 => lowCode'
    BY <1>0, <2>1 DEF ReadyInv, CpuCount
  <2>2. CASE ParseEntry \/ ParseDone
    BY <2>2, Facts DEF ParseEntry, ParseDone
  <2>3. CASE CopyLowCode  BY <2>3, Facts DEF CopyLowCode, CpuCount
  <2>4. CASE BspBaseInit \/ StartCalibration \/ FinishCalibration
    BY <2>4, Facts DEF BspBaseInit, StartCalibration, FinishCalibration
  <2>5. CASE SendInit \/ SendSipi \/ BspLateInit \/ PassBarrier \/ MemEnableGlobalPages
    BY <2>1, <2>5, Facts DEF SendInit, SendSipi, SendToNext, BspLateInit, PassBarrier,
       MemEnableGlobalPages
  <2>6. CASE DeliverIpi
    <3>1. icr.dest # Bsp  BY <2>6 DEF IInv, IcrInv, DeliverIpi
    <3> QED  BY <2>1, <2>6, <3>1, Facts DEF DeliverIpi
  <2>7. ASSUME NEW a \in Apics, CpuStep(a)
        PROVE  pc'[Bsp] \in {"sipi"} \cup BspLate /\ CpuCount' > 1 => lowCode'
    <3>1. /\ UNCHANGED <<CpuList, lowCode>> /\ <<pc[a], pc'[a]>> \in Moves
          /\ \A b \in Apics \ {a} : pc'[b] = pc[b]
      BY <2>7, CpuMoves DEF IInv
    <3>2. a = Bsp => pc[Bsp] \in BspLate
      BY <1>0, <3>1 DEF Moves, Crashed, PlaceInv, BspPlaces
    <3> QED  BY <2>1, <3>1, <3>2
  <2>8. CASE UNCHANGED vars  BY <2>1, <2>8 DEF vars
  <2> QED  BY <2>2, <2>3, <2>4, <2>5, <2>6, <2>7, <2>8 DEF Next, BspStep
<1>2. pc'[Bsp] \in {"copy", "sipi"} \cup BspLate => timerInitial' = Rate
  <2>1. ASSUME timerInitial' = timerInitial,
               pc'[Bsp] \in {"copy", "sipi"} \cup BspLate
                 => pc[Bsp] \in {"copy", "sipi"} \cup BspLate
        PROVE  pc'[Bsp] \in {"copy", "sipi"} \cup BspLate => timerInitial' = Rate
    BY <1>0, <2>1 DEF ReadyInv
  <2>2. CASE ParseEntry \/ ParseDone
    BY <2>2, Facts DEF ParseEntry, ParseDone
  <2>3. CASE FinishCalibration  BY <2>3 DEF FinishCalibration
  <2>4. CASE BspBaseInit \/ StartCalibration
    BY <2>4, Facts DEF BspBaseInit, StartCalibration
  <2>5. CASE CopyLowCode \/ SendInit \/ SendSipi \/ BspLateInit \/ PassBarrier
             \/ MemEnableGlobalPages
    BY <2>1, <2>5, Facts DEF CopyLowCode, SendInit, SendSipi, SendToNext, BspLateInit,
       PassBarrier, MemEnableGlobalPages
  <2>6. CASE DeliverIpi
    <3>1. icr.dest # Bsp  BY <2>6 DEF IInv, IcrInv, DeliverIpi
    <3> QED  BY <2>1, <2>6, <3>1, Facts DEF DeliverIpi
  <2>7. ASSUME NEW a \in Apics, CpuStep(a)
        PROVE  pc'[Bsp] \in {"copy", "sipi"} \cup BspLate => timerInitial' = Rate
    <3>1. /\ timerInitial' = timerInitial /\ <<pc[a], pc'[a]>> \in Moves
          /\ \A b \in Apics \ {a} : pc'[b] = pc[b]
      BY <2>7, CpuMoves DEF IInv
    <3>2. a = Bsp => pc[Bsp] \in BspLate
      BY <1>0, <3>1 DEF Moves, Crashed, PlaceInv, BspPlaces
    <3> QED  BY <2>1, <3>1, <3>2
  <2>8. CASE UNCHANGED vars  BY <2>1, <2>8 DEF vars
  <2> QED  BY <2>2, <2>3, <2>4, <2>5, <2>6, <2>7, <2>8 DEF Next, BspStep
\* ... the timers ...
<1>3. \A a \in Apics : pc'[a] = "mark" \/ IsUp(a)' => timer'[a] = Rate
  <2> DEFINE Set(a) == pc[a] = "mark" \/ IsUp(a) => timer[a] = Rate
  <2>0. \A a \in Apics : Set(a)  BY <1>0 DEF ReadyInv
  <2>1. ASSUME UNCHANGED <<pc, timer>> PROVE \A a \in Apics : Set(a)'
    BY <2>0, <2>1 DEF IsUp
  <2>2. CASE ParseEntry \/ SendInit \/ SendSipi \/ UNCHANGED vars
    BY <2>1, <2>2 DEF ParseEntry, SendInit, SendSipi, SendToNext, vars
  <2>3. CASE ParseDone \/ CopyLowCode \/ BspLateInit \/ PassBarrier \/ MemEnableGlobalPages
    BY <2>0, <2>3, Facts DEF ParseDone, CopyLowCode, BspLateInit, PassBarrier,
       MemEnableGlobalPages, IsUp
  <2>4. CASE BspBaseInit \/ StartCalibration \/ FinishCalibration
    BY <2>0, <2>4, Facts DEF BspBaseInit, StartCalibration, FinishCalibration, IsUp
  <2>5. CASE DeliverIpi
    <3>1. PICK d \in Apics : d = icr.dest
      BY <2>5, Facts DEF IInv, IcrInv, DeliverIpi
    <3>2. /\ timer' = timer /\ \A a \in Apics \ {d} : pc'[a] = pc[a]
          /\ pc'[d] \in {"reset", "low"} \/ pc'[d] = pc[d]
      BY <2>5, <3>1, Facts DEF DeliverIpi
    <3> QED  BY <2>0, <3>2 DEF IsUp
  <2>6. ASSUME NEW a \in Apics, ApicTimerInit(a) PROVE \A b \in Apics : Set(b)'
    <3>1. pc[a] = "timer"  BY <2>6 DEF ApicTimerInit
    <3>2. timerInitial = Rate
      <4>1. CASE a = Bsp  BY <1>0, <3>1, <4>1 DEF ReadyInv
      <4>2. CASE a # Bsp
        <5>1. a \in ListedApics  BY <1>0, <3>1, <4>2 DEF PlaceInv
        <5>2. pc[Bsp] \in {"sipi"} \cup BspLate
          BY <1>0, <3>1, <4>2, <5>1 DEF PlaceInv, PlaceOf, BspPlaces, BspEarly, Reset
        <5> QED  BY <1>0, <5>2 DEF ReadyInv
      <4> QED  BY <4>1, <4>2
    <3> QED  BY <2>0, <2>6, <3>2, Facts DEF ApicTimerInit, IsUp
  <2>7. ASSUME NEW a \in Apics, ApBaseInit(a) PROVE \A b \in Apics : Set(b)'
    BY <2>0, <2>7, Facts DEF ApBaseInit, IsUp
  <2>8. ASSUME NEW a \in Apics,
               \/ FinishReset(a) \/ RunLowCode(a) \/ EnterKernel(a) \/ CpuLateInitAsm(a)
               \/ MarkUp(a)
        PROVE  \A b \in Apics : Set(b)'
    <3>1. timer' = timer /\ pc'[a] # "mark" /\ (IsUp(a)' => pc[a] = "mark")
      BY <2>8, Facts DEF FinishReset, RunLowCode, EnterKernel, CpuLateInitAsm, MarkUp, IsUp,
         Crashed
    <3>2. \A b \in Apics \ {a} : pc'[b] = pc[b]
      BY <2>8, Facts DEF FinishReset, RunLowCode, EnterKernel, CpuLateInitAsm, MarkUp
    <3> QED  BY <2>0, <3>1, <3>2 DEF IsUp
  <2> QED  BY <2>2, <2>3, <2>4, <2>5, <2>6, <2>7, <2>8 DEF Next, BspStep, CpuStep
\* ... the mapping ...
<1>4. ASSUME ~identity' PROVE pc'[Bsp] = "panic"
  <2>1. CASE MemEnableGlobalPages  BY <2>1, Facts DEF MemEnableGlobalPages
  <2>2. CASE ~MemEnableGlobalPages
    <3>1. identity' = identity
      BY <2>2 DEF Next, BspStep, CpuStep, ParseEntry, ParseDone, BspBaseInit, SendInit,
         SendSipi, SendToNext, StartCalibration, FinishCalibration, CopyLowCode, BspLateInit,
         PassBarrier, DeliverIpi, FinishReset, RunLowCode, EnterKernel, ApBaseInit,
         CpuLateInitAsm, ApicTimerInit, MarkUp, vars
    <3>2. pc[Bsp] = "panic"  BY <1>0, <1>4, <3>1 DEF ReadyInv
    <3>3. CASE \E a \in Apics : CpuStep(a)
      <4>1. PICK a \in Apics : CpuStep(a)  BY <3>3
      <4>2. /\ <<pc[a], pc'[a]>> \in Moves /\ \A b \in Apics \ {a} : pc'[b] = pc[b]
        BY <4>1, CpuMoves DEF IInv
      <4>3. a # Bsp  BY <3>2, <4>2 DEF Moves, Crashed
      <4> QED  BY <3>2, <4>2, <4>3
    <3>4. CASE DeliverIpi
      BY <3>2, <3>4, Facts DEF IInv, IcrInv, DeliverIpi
    <3>5. CASE BspStep
      BY <2>2, <3>2, <3>5 DEF BspStep, ParseEntry, ParseDone, BspBaseInit, SendInit, SendSipi,
         SendToNext, StartCalibration, FinishCalibration, CopyLowCode, BspLateInit, PassBarrier
    <3>6. CASE UNCHANGED vars  BY <3>2, <3>6 DEF vars
    <3> QED  BY <3>3, <3>4, <3>5, <3>6 DEF Next
  <2> QED  BY <2>1, <2>2
\* ... and the barrier.
<1>5. ASSUME pc'[Bsp] \in {"unmap", "panic"} PROVE \A a \in ListedApics' : IsUp(a)'
  <2>1. CASE \E a \in Apics : MarkUp(a)
    <3>1. PICK a \in Apics : MarkUp(a)  BY <2>1
    <3>2. pc'[Bsp] = pc[Bsp] \/ pc'[Bsp] = "wait"  BY <3>1, Facts DEF MarkUp
    <3>3. \A b \in ListedApics : IsUp(b)  BY <1>0, <1>5, <3>2 DEF ReadyInv
    <3>4. a \in ListedApics /\ ~IsUp(a)  BY <3>1, UpOnMark
    <3> QED  BY <3>3, <3>4
  <2>2. CASE \A a \in Apics : ~MarkUp(a)
    <3>1. ListedApics' = ListedApics
      BY <1>5, OtherSteps, KeptListed, Facts DEF ParseEntry, ParseDone
    <3>2. \A a \in ListedApics : IsUp(a)
      <4>1. CASE pc[Bsp] \in {"unmap", "panic"}  BY <1>0, <4>1 DEF ReadyInv
      <4>2. CASE PassBarrier
        <5>1. initCpusUp >= Cardinality(ListedApics)
              /\ initCpusUp = Cardinality({a \in ListedApics : IsUp(a)})
          BY <4>2 DEF PassBarrier, IInv, BarrierCountsListed
        <5>2. /\ Cardinality({a \in ListedApics : IsUp(a)}) <= Cardinality(ListedApics)
              /\ Cardinality(ListedApics) = Cardinality({a \in ListedApics : IsUp(a)})
                   => ListedApics = {a \in ListedApics : IsUp(a)}
              /\ Cardinality(ListedApics) \in Nat
          BY Facts, FS_Subset, FS_CardinalityType
        <5> QED  BY <5>1, <5>2, Facts
      <4>3. CASE pc[Bsp] \notin {"unmap", "panic"} /\ ~PassBarrier
        <5>1. pc'[Bsp] # pc[Bsp]  BY <1>5, <4>3
        <5>2. CASE BspStep
          BY <1>5, <4>3, <5>2, Facts DEF BspStep, ParseEntry, ParseDone, BspBaseInit, SendInit,
             SendSipi, SendToNext, StartCalibration, FinishCalibration, CopyLowCode,
             BspLateInit, MemEnableGlobalPages
        <5>3. CASE DeliverIpi
          BY <5>1, <5>3, Facts DEF IInv, IcrInv, DeliverIpi
        <5>4. ASSUME NEW a \in Apics, CpuStep(a) PROVE FALSE
          <6>1. /\ <<pc[a], pc'[a]>> \in Moves /\ \A b \in Apics \ {a} : pc'[b] = pc[b]
            BY <5>4, CpuMoves DEF IInv
          <6> QED  BY <1>5, <5>1, <6>1 DEF Moves, Crashed
        <5>5. ~UNCHANGED vars  BY <5>1 DEF vars
        <5> QED  BY <5>2, <5>3, <5>4, <5>5 DEF Next
      <4> QED  BY <4>1, <4>2, <4>3
    <3> QED  BY <2>2, <3>1, <3>2, UpKept, Facts
  <2> QED  BY <2>1, <2>2
<1> QED  BY <1>1, <1>2, <1>3, <1>4, <1>5 DEF ReadyInv

\* The stack is looked up in a list that no longer changes.
LEMMA StackStep == IInv /\ [Next]_vars => StackInv'
<1> SUFFICES ASSUME IInv, [Next]_vars PROVE StackInv'  OBVIOUS
<1> USE DEF tables, bspVars, perCpu, Goto
<1>0. StackInv /\ PlaceInv  BY DEF IInv
<1>1. CASE ParseEntry \/ ParseDone
  <2>1. \A a \in Apics : stack[a] = None
    BY <1>1, Early DEF ParseEntry, ParseDone, BspEarly
  <2> QED  BY <1>1, <2>1 DEF StackInv, ParseEntry, ParseDone
<1>2. CASE ListKept
  <2>1. /\ ListedApics' = ListedApics /\ UNCHANGED <<CpuList, apicToCpu>>
        /\ pc[Bsp] \notin BspEarly => pc'[Bsp] \notin BspEarly
    <3>1. pc[Bsp] \notin BspEarly => pc'[Bsp] # "bspbase"
      <4>1. CASE DeliverIpi
        BY <4>1, Facts DEF IInv, IcrInv, DeliverIpi, BspEarly, BspLate
      <4>2. ASSUME NEW a \in Apics, CpuStep(a), pc[Bsp] \notin BspEarly
            PROVE  pc'[Bsp] # "bspbase"
        <5>1. /\ <<pc[a], pc'[a]>> \in Moves /\ \A b \in Apics \ {a} : pc'[b] = pc[b]
          BY <4>2, CpuMoves DEF IInv
        <5> QED  BY <4>2, <5>1 DEF Moves, Crashed, BspEarly
      <4>3. CASE BspStep
        BY <4>3, Facts DEF BspStep, ParseEntry, ParseDone, BspBaseInit, SendInit, SendSipi,
           SendToNext, StartCalibration, FinishCalibration, CopyLowCode, BspLateInit,
           PassBarrier, MemEnableGlobalPages, BspEarly
      <4>4. CASE UNCHANGED vars  BY <4>4 DEF vars, BspEarly
      <4> QED  BY <4>1, <4>2, <4>3, <4>4 DEF Next
    <3> QED  BY <1>2, <3>1, KeptListed DEF ListKept, BspEarly
  <2>2. CASE \E a \in Apics : EnterKernel(a)
    <3>1. PICK a \in Apics : EnterKernel(a)  BY <2>2
    <3>2. /\ pc[a] = "paging"
          /\ stack' = [stack EXCEPT ![a] = CpuList[apicToCpu[a] + 1].page]
      BY <3>1 DEF EnterKernel
    <3>3. a # Bsp /\ a \in ListedApics
      BY <1>0, <3>2 DEF PlaceInv, BspPlaces
    <3>4. pc[Bsp] \notin BspEarly
      BY <1>0, <3>2, <3>3 DEF PlaceInv, PlaceOf
    <3> QED  BY <1>0, <2>1, <3>2, <3>3, <3>4, Facts DEF StackInv
  <2>3. CASE \A a \in Apics : ~EnterKernel(a)
    <3>1. stack' = stack
      BY <2>3 DEF Next, BspStep, CpuStep, ParseEntry, ParseDone, BspBaseInit, SendInit,
         SendSipi, SendToNext, StartCalibration, FinishCalibration, CopyLowCode, BspLateInit,
         PassBarrier, MemEnableGlobalPages, DeliverIpi, FinishReset, RunLowCode, ApBaseInit,
         CpuLateInitAsm, ApicTimerInit, MarkUp, vars
    <3> QED  BY <1>0, <2>1, <3>1 DEF StackInv
  <2> QED  BY <2>2, <2>3
<1> QED  BY <1>1, <1>2, OtherSteps

----------------------------------------------------------------------------
(* The theorems.                                                           *)

\* Initially nothing is listed and all others are in firmware.
LEMMA InitInv == Init => IInv
<1> SUFFICES ASSUME Init PROVE IInv  OBVIOUS
<1> USE DEF Init
<1>1. madt \in Seq([apicId : Apics, enabled : BOOLEAN]) /\ MadtInv
  <2>1. CASE madt = <<>>  BY <2>1 DEF MadtInv
  <2>2. CASE madt # <<>>
    <3>1. Cardinality(Apics) \in Nat  BY FS_CardinalityType
    <3>2. /\ madt \in [1..Cardinality(Apics) -> [apicId : Apics, enabled : BOOLEAN]]
          /\ madt[1] = [apicId |-> Bsp, enabled |-> TRUE]
          /\ \A j, k \in DOMAIN madt : madt[j].apicId = madt[k].apicId => j = k
      BY <2>2 DEF Tables
    <3>3. ASSUME NEW n \in Nat, NEW S, NEW t \in [1..n -> S]
          PROVE  t \in Seq(S) /\ DOMAIN t = 1..Len(t)
      OBVIOUS
    <3>4. /\ madt \in Seq([apicId : Apics, enabled : BOOLEAN])
          /\ DOMAIN madt = 1..Len(madt)
      BY ONLY <3>1, <3>2, <3>3, Zenon
    <3> QED  BY <3>2, <3>4 DEF MadtInv
  <2> QED  BY <2>1, <2>2
<1>2. /\ CpuList = <<>> /\ CpuCount = 0 /\ ListedApics = {}
      /\ pc[Bsp] = "parse" /\ \A a \in Apics \ {Bsp} : pc[a] = "firmware"
  BY DEF CpuCount, ListedApics
<1>3. TypeOK
  <2>1. pc \in [Apics -> ApPlaces \cup BspPlaces \cup LatePlaces \cup {Crashed}]
    BY DEF ApPlaces, BspPlaces
  <2>2. CpuList \in Seq(Cpu) /\ Len(CpuList) <= MaxCpus  BY <1>2
  <2>3. msr \in [Apics -> [Msrs -> {None, "segments", "EntrySyscall", "flags"}]]  OBVIOUS
  <2> QED  BY ONLY Init, <1>1, <2>1, <2>2, <2>3 DEF Init, TypeOK
<1>4. ListInv /\ PageInv /\ IcrInv
  BY <1>2 DEF ListInv, PageInv, IcrInv
<1>5. PlaceInv  BY <1>2 DEF PlaceInv, BspPlaces
<1>6. ReadyInv /\ StackInv
  BY <1>2 DEF ReadyInv, StackInv, BspLate, IsUp
<1>7. BarrierCountsListed
  <2>1. {a \in ListedApics : IsUp(a)} = {} /\ Cardinality({}) = 0  BY <1>2, FS_EmptySet
  <2> QED  BY <1>2, <2>1 DEF BarrierCountsListed
<1> QED  BY <1>1, <1>3, <1>4, <1>5, <1>6, <1>7 DEF IInv

\* The inductive invariant holds.
THEOREM Inductive == Spec => []IInv
<1>1. Init => IInv  BY InitInv
<1>2. IInv /\ [Next]_vars => IInv'
  BY TypeStep, MadtStep, ListStep, PageStep, IcrStep, PlaceStep, ReadyStep, StackStep,
     BarrierStep DEF IInv
<1> QED  BY <1>1, <1>2, PTL DEF Spec

\* CpuList never gets more processors than it has room for, and every register and
\* variable keeps its type, however many processors the machine has.
THEOREM TypeCorrect == Spec => []TypeOK
BY Inductive, PTL DEF IInv

\* The SIPI of every processor finds it reset by the INIT before (CpuInitAll sends each
\* once, with the calibration of the timer between).
THEOREM SipiNotLost == Spec => []SipiFindsProcessorWaiting
<1>1. IInv => SipiFindsProcessorWaiting
  BY DEF IInv, IcrInv, SipiFindsProcessorWaiting
<1> QED  BY <1>1, Inductive, PTL

\* No processor runs start-up code that is not there or loses its identity mapping.
THEOREM NoCrash == Spec => []NoProcessorCrashes
<1>1. IInv => NoProcessorCrashes
  <2> SUFFICES ASSUME IInv, NEW a \in Apics, pc[a] = Crashed PROVE FALSE
    BY DEF NoProcessorCrashes
  <2>1. a # Bsp /\ a \in ListedApics  BY DEF IInv, PlaceInv, BspPlaces, Crashed
  <2> QED
    BY <2>1 DEF IInv, PlaceInv, PlaceOf, Crashed, BspPlaces, BspEarly, BspLate, Reset, Woken,
       Running, LatePlaces
<1> QED  BY <1>1, Inductive, PTL

\* Low memory is unmapped only when every listed processor has left it.
THEOREM UnmapSafe == Spec => []UnmapAfterAllUp
<1>1. IInv => UnmapAfterAllUp
  <2> SUFFICES ASSUME IInv, ~identity
               PROVE  /\ \A a \in ListedApics : IsUp(a)
                      /\ \A a \in Apics \ ListedApics : pc[a] = "firmware"
    BY DEF UnmapAfterAllUp
  <2>1. pc[Bsp] = "panic"  BY DEF IInv, ReadyInv
  <2> QED  BY <2>1, Facts DEF IInv, ReadyInv, PlaceInv
<1> QED  BY <1>1, Inductive, PTL

\* initCpusUp is the number of listed processors that are up, and CpuCount that of the
\* listed ones, so that the barrier compares numbers of the same processors.
THEOREM BarrierCounts == Spec => []BarrierCountsListed
BY Inductive, PTL DEF IInv

\* Every processor has the stack of its own Cpu structure and shares it with none.
THEOREM StacksApart == Spec => []OwnStack
<1>1. IInv => OwnStack
  <2> SUFFICES ASSUME IInv, NEW a \in Apics, stack[a] # None
               PROVE  /\ \E k \in 1..CpuCount : CpuList[k] = [apicId |-> a, page |-> stack[a]]
                      /\ \A b \in Apics : stack[b] = stack[a] => a = b
    BY DEF OwnStack
  <2>0. TypeOK /\ ListInv /\ StackInv /\ PageInv  BY DEF IInv
  <2>1. \A b \in Apics : stack[b] # None =>
          /\ apicToCpu[b] + 1 \in 1..CpuCount /\ CpuList[apicToCpu[b] + 1].apicId = b
          /\ stack[b] = CpuList[apicToCpu[b] + 1].page
    BY <2>0, Listing DEF StackInv
  <2>2. CpuList[apicToCpu[a] + 1] \in Cpu  BY <2>0, <2>1 DEF TypeOK, CpuCount
  <2>3. CpuList[apicToCpu[a] + 1] = [apicId |-> a, page |-> stack[a]]
    BY <2>1, <2>2 DEF Cpu
  <2>4. ASSUME NEW b \in Apics, stack[b] = stack[a] PROVE a = b
    <3>1. apicToCpu[b] + 1 = apicToCpu[a] + 1  BY <2>0, <2>1, <2>4 DEF PageInv
    <3> QED  BY <2>1, <2>4, <3>1
  <2> QED  BY <2>1, <2>3, <2>4
<1> QED  BY <1>1, Inductive, PTL

\* A processor that is up has its timer at the rate the boot processor measured.
THEOREM TimersSet == Spec => []TimersCalibrated
<1>1. IInv => TimersCalibrated  BY DEF IInv, ReadyInv, TimersCalibrated
<1> QED  BY <1>1, Inductive, PTL

\* Only processors that the table calls enabled are started, apart from the one that boots.
THEOREM EnabledStarted == Spec => []OnlyEnabledStarted
<1>1. IInv => OnlyEnabledStarted
  <2> SUFFICES ASSUME IInv, NEW a \in Apics \ {Bsp}, pc[a] # "firmware"
               PROVE  \E k \in 1..Len(madt) : madt[k] = [apicId |-> a, enabled |-> TRUE]
    BY DEF OnlyEnabledStarted
  <2>1. a \in ListedApics  BY DEF IInv, PlaceInv
  <2> QED  BY <2>1 DEF IInv, ListInv, EnabledIn
<1> QED  BY <1>1, Inductive, PTL
=============================================================================
