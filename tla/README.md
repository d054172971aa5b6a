# CowL4 in TLA+

CowL4 is a small AMD64 microkernel (`src/kernel`) with a host tool, `fatcli`, that
builds FAT disk images for it (`src/fatcli`, on top of the FatFs library `ff.c`).
This directory holds TLA+ models of the parts of both whose correctness depends on
the order of events, TLC configurations that check them on small instances, and
TLAPS proofs of what matters most for instances of any size.

## Inventory

| Component | State | Operations | What is hard | What makes it correct |
|---|---|---|---|---|
| Page allocator, `kmemory.c` | `KMemStackRoot`, `KMemStackLock`, links in the free pages | `KMemInit`, `KMemAllocate`, `KMemZAllocate`, `KMemFree` | several processors; the list lives in the pages it lists; clearing without the lock | no page lost or owned twice, the list exact, NULL only when empty |
| Spinlock, atomics, `atomic.h` | one word | `AtomicLock`, `AtomicUnlock`, `AtomicAdd` | test-and-set races | mutual exclusion, the lock handed on |
| Processor start-up, `boot/cpu_init.c`, `boot/cpu_init_asm.s`, `cpu.c`, `memory.c`, `boot/main.c` | `CpuList`, `CpuApicToCpuId`, `initCpusUp`, `apicTimerInitial`, local APIC registers, page tables | `CpuInitAll`, `CpuSendIpi`, `CpuApEntry`, `CpuLateInit`, `MemEnableGlobalPages` | one processor prepares what others use, woken by unacknowledged messages | no SIPI lost, nothing used before it is ready or after it is gone, own stacks, the barrier is passed, and not early |
| ACPI tables and IO APICs, `boot/cpu_init.c`, `intr.c` | `IntrIoApicData`, redirection entries | `ParseAcpiTables`, `IntrInitIoApic`, `IntrInitSetOverride` | order of table entries, index arithmetic | each interrupt has one entry with its vector |
| Interrupts, `intr.c`, `intr_asm.s`, `cpu.c` | IDT, local APIC in-service bits | `IntrInitIdt`, `IntrHandler`, `CpuGetHardwareIntr`, `CpuSendEoi` | nesting, missing acknowledgements | every interrupt acknowledged once, never another one |
| Time periods, `time.c` | none | `TimeMakePeriod`, `TimeExpandPeriod` | carries, widths | an expanded period is close to what was encoded |
| Lists, `list.h` | two links in each node | `ListInit`, `ListAddBefore`, `ListAddAfter`, `ListDelete`, ... | four link writes in the right order | forward and backward links agree (not modelled: see below) |
| Memory functions, `util.s` | none | `memcpy`, `memset`, `memcmp` | lengths around the word size | exactly the given bytes are written |
| Info page, `infopage.c` | the page shared with user space | `InfoPageInit` | layout | (layout only; never called) |
| Panic, `panic.c`; boot entry, `boot/start.s` | console | `Panic`, `PanicAssert` | none: one processor, straight-line | (not modelled) |
| FAT volume, `ff.c` | sector window, FAT, free-cluster count and hint, FSInfo | `move_window`, `sync_fs`, `get_fat`, `put_fat`, `create_chain`, `remove_chain` | one dirty sector in memory, a crash or disk error between two sector writes, a full disk | no cluster in two chains, chains end, free count exact |
| FAT directories, `ff.c` | 32-byte entries, long names over several | `dir_next`, `dir_find`, `dir_register`, `dir_remove`, `follow_path` | names over several entries and sectors | an entry and its long name belong together |
| FAT files, `ff.c` | `FIL`: pointer, cluster, sector buffer, flags | `f_open`, `f_read`, `f_write`, `f_lseek`, `f_truncate`, `f_sync`, `f_close`, `f_unlink`, `f_rename`, `f_mkdir`, ... | what a file object remembers from call to call; the order in which directory and FAT reach the disk | a position is where its file says; after a crash no entry leads to clusters of another file |
| FAT formatting and mounting, `ff.c` | boot sector | `f_mkfs`, `chk_mounted` | boundaries of FAT12/16/32 | a volume formatted is mounted as what it was formatted |
| Command line, `fatcli/src/main.c` | image file, exit code | `runCommand`, `disk_*` | results ignored, one step of several failing | the exit code tells the truth |

How they interact: `BootMain` calls `KMemInit`, `IntrInitIdt`, `CpuInitAll` and
`MemEnableGlobalPages` in this order. `CpuInitAll` allocates one page per processor
from the page allocator (its `Cpu` structure and, at its end, its stack), tells the
IO APIC code what the table says, wakes the other processors by messages through the
local APIC, and meets them again at the counter `initCpusUp`. Interrupts stay
disabled during all of this; what `IntrHandler` does with them later is prepared but not
used yet. `fatcli` is one process: `runCommand` calls the `f_`
functions, which work on one sector window in memory and reach the image through
the `disk_` functions of `main.c`.

## Modules

- `KMemory` – the page allocator. One variable per shared word: `root` is
  `KMemStackRoot`, `lock` is `KMemStackLock.data`, `word[p]` is the first word of page
  `p` (its link while it is free, whatever its owner wrote afterwards) and `clear[p]`
  says if the rest of it is zero. `pc`, `op` and `reg` are a processor's place, the
  function it executes and the local `newPage` or `page`. Every read and write of
  shared memory is one action, so an interleaving of the actions is an interleaving of
  the program. On x86 a locked exchange is a full barrier and stores become visible in
  order, so sequential consistency loses nothing here. Outside the allocator a processor
  calls it or writes to a page in `held`; `UsePage` also writes values that are page
  addresses, so that stale links are possible. `KMemFree(NULL)` changes nothing and is
  no step. `KMemInit` runs before any other processor and is the initial state.
- `PagePool` – what `kmemory.h` promises, as an abstract specification: pages are free
  or held, a request takes effect at one moment. `KMemory` implements it
  (`ImplementsPool`): an allocation takes effect when it pops the page, or when it
  reads a root that is NULL; a free takes effect when it writes the root.
- `KMemory_proofs` – the TLAPS proofs about `KMemory`.
- `CpuBoot` – processor start-up. The boot processor goes through the places of
  `CpuInitAll` in order; an application processor goes from firmware through INIT and
  SIPI to the low code, the identity mapped code that turns paging on, and the kernel.
  `CpuLateInit` is the same three actions on every processor. Hardware is three
  actions: `DeliverIpi`, `FinishReset` and the guard of `FinishCalibration`, which
  states what the 10ms of the PIT are for. A crash of a processor (executing memory
  that is not there) is a place, so that reaching it is a counterexample.
- `CpuBoot_proofs` – the TLAPS proofs about `CpuBoot`.
- `FatVolume` – the lowest layer of `ff.c`. The library is sequential, so a function is
  not split into actions: it is an operator from a volume (a record of the disk and of
  the fields of `FATFS` that change) to the volume afterwards with a result code or a
  value. What happens between two of its steps is a disk error or the end of the
  program, and that is a field of the volume, `fault`: after so many accesses a read or
  a write fails, or nothing more reaches the disk. `Then(r, Rest)` is the code's
  `if (res == FR_OK)`. A sector of the FAT is a function from its entries to numbers;
  `LastLink` and `Max32` stand for `0x0FFFFFFF` and `0xFFFFFFFF`, and are beyond every
  cluster as they are in the code. A loop is `Iterate`: a round, a start, and a bound on the
  number of rounds that no loop reaches on a volume (the entries of a table, the numbers of a
  name, the units to write). A round after the loop has ended changes nothing.
- `FatFs_proofs` – lemmas about the operators of `FatVolume`, each for any volume and any
  fault, and about those of `FatFiles` and `FatDirs` while nothing fails: chains, what a walk
  through a table finds, what a call leaves of the chain of a file.
- `FatChains` – the FAT in use. An action is one call by a file or directory function,
  with any one fault ahead of it: `Create` and `Stretch` (`create_chain` in `f_write`,
  `f_lseek`, `f_mkdir`, `dir_next`), `Remove` and `Overwrite` (`remove_chain` in
  `f_unlink` and `f_open`), `Truncate` (`f_truncate`), `Sync` (`sync_fs`), `Count`
  (`f_getfree`). `Crash` is the program stopped between two calls; a fault of kind
  "crash" stops it inside one. Either way the volume is mounted again from the disk.
  `chains` and `synced` are history: which chains their owners know, and which of them
  (or which beginnings of them) were on the disk at the last `Sync` and have not been
  given up since.
- `ClusterPool` – what the FAT promises, as an abstract specification with no sectors,
  window or order of writes: chains share no cluster, new clusters were free, failures
  lose clusters but never give one to two owners, and a crash leaves what was
  synchronized. `FatChains` implements it (`ImplementsClusterPool`), and takes its
  `NoSharing` from it. Like `FileTree` and `OpenFiles` it translates no lines of the program
  and is checked through the module that implements it.
- `ClusterPool_proofs` – the TLAPS proofs about `ClusterPool`.
- `FatChains_proofs`, on `FatFs_proofs` – the TLAPS proofs about `FatChains`.
- `FatDirs`, on `FatVolume` – directories. A sector of a table is a sequence of
  entries, seen through the window as in the code: `dj->dir` is the slot of
  `dj->index` in whatever sector is there. Names are `<<text, number>>`; a member of
  `LongNames` has `Parts` entries of its own and an 8.3 form, `Base`, that needs a
  number (`NS_LOSS`). The five loops through a table (`dir_alloc`, both of `dir_find` and
  `dir_read`, those of `dir_register` and `dir_remove`) are one, `Scan`, which differs in the
  look it takes at an entry (`AllocLook` to `DeleteLook`) and in whether it stretches. The checksum of a part is the 8.3 name it belongs to: two names
  with the same 8-bit sum are not modelled.
- `FatFiles`, on `FatDirs` – the calls with a path or a file object. Sizes are counted
  in units, two to a sector, so that a write can end inside a sector and use the buffer
  or fill one and pass it by; the contents are a value for each unit. A cluster is one
  sector.
- `FatCalls`, on `FatFiles` – the calls that fatcli does not make: `f_lseek`,
  `f_truncate`, `f_rename`, `f_utime`, `f_stat`, `f_getlabel`, `f_setlabel`.
- `FatImage`, on `FatFiles` – what an image says to somebody who trusts its entries
  (chains, bodies of files, the tree), and the images there are at the start. It is used
  for `tree` below, for first images and in properties.
- `FatCli`, on `FatImage` – the program: `Run(c)` is one run of fatcli with the
  command `c`, from mounting the image to the end of `main`, with what `runCommand`
  checks and what it does not. What is only in memory at the end is lost. `disk` is the
  image; `tree` is what one sees who reads it from the root directory (`TreeOf`, two
  levels deep); `cmd`, `exit` and `out` are the last command, its exit code and what it
  read or listed. A fault ahead of a command fails one disk access (`"read"`, `"write"`)
  or stops the program there (`"crash"`).
- `FileTree` – what the user of the commands may expect, as an abstract specification
  with no sectors: a map from paths to files and directories, and for each command what
  it does when it succeeds, when it refuses, and (once something was hurt) what it may
  leave. `FatCli` implements it (`ImplementsFileTree`).
- `FatSession`, on `FatImage` and `FatCalls` – a program that keeps a volume mounted and
  files open. An action is one call (`Call(c)`), with a stop of the machine or one failed
  disk access in it. `vol` is the volume with its window, `fil` the file objects with
  buffer, `clust` and `dsect`: what one call leaves in memory is what the next one starts
  from, which no command of fatcli shows, since each command mounts anew. `tree`, `label`
  and `open` are what the calls show, with what is still in memory laid over the image.
  `kept` is history: what the program knows to be on the disk. After damage only
  `f_close` is called, for that is what a program does then. `Possible` says which calls
  the program makes; its part `Free`, that none is about a file that is open, is a rule for the
  program and no code of the library, which would check it only with `_FS_LOCK`.
- `FatSession_proofs`, on `FatFs_proofs` – the TLAPS proofs about `FatSession`.
- `OpenFiles` – what the calls promise, as an abstract specification: a file is a sequence
  of units, an open file a position in it. `FatSession` implements it
  (`ImplementsOpenFiles`). A write may store less than was asked, an extension may end
  early (`ShortOnlyWhenFull` says when), a refused call changes nothing, and a call that
  is hurt leaves alone the files that are not open and not its own.
- `Interrupts` – the entry code of `intr_asm.s`, `IntrHandler` and the local APIC's
  request and in-service registers. `stack` holds what the processor and the stubs push,
  word by word, and IRETQ takes what it finds there; `frames` is history, what each
  interrupt interrupted, to compare. Hardware is external: requests, NMIs, spurious
  interrupts and exceptions come wherever the processor lets them. Nothing in the
  repository enables interrupts yet; the program interrupted is the user program that
  the IDT and the segments are prepared for.
- `Interrupts_proofs` – the TLAPS proofs about `Interrupts`.
- `TimePeriod` – `time.c`, with the widths as constants. `MemFunctions` – `memcpy`,
  `memset` and `memcmp` of `util.s`, words and rest apart. `Fat12` – the two bytes of a
  FAT12 entry in `get_fat` and `put_fat`. `FatFormat` – `f_mkfs` as fatcli calls it, and
  what `chk_mounted` makes of the result. `IoApic` – `ParseAcpiTables`, `IntrInitIoApic`
  and `IntrInitSetOverride` over a table as a sequence of entries. These only compute;
  they have no variables.
- `Algorithms` – calls each of these functions once, with every input of the constants:
  `call` says which and with what, `ret` is what it returned. Its properties state what the
  functions are for, without their steps.
- `Algorithms_proofs` – the TLAPS proofs about `TimePeriod`, `Fat12`, `MemFunctions`,
  `FatFormat` and `IoApic` as `Algorithms` calls them.
- `MCKMemory`, `MCCpuBoot`, `MCFatChains`, `MCFatCli`, `MCFatSession`, `MCInterrupts`,
  `MCAlgorithms` – instances for TLC: sets of processors, commands, calls and first images,
  vectors, and inputs.

Definitions whose comment begins with `Mutant of` are plausible errors in the code
they stand next to. They are used by nothing; putting one in the place of the
original makes a property fail, which shows that the property can fail.

## Runs

| Run | Bounds | Shows |
|---|---|---|
| `kmemory` | 2 processors, 2 pages | `StackIsFreePages`, `ZeroedOnReturn`, `OwnedPagesUntouched`, the refinement `ImplementsPool`, and `LockHandedOn` under fairness |
| `cpuboot` | 4 processors, `CpuList` of 3, every table | `TypeOK`, `SipiFindsProcessorWaiting`, `NoProcessorCrashes`, `UnmapAfterAllUp`, `OwnStack`, `TimersCalibrated`, and `BootCompletes` under fairness |
| `cpuboot_syscall_msrs` | 3 processors | a violation: see Findings |
| `fatchains` | FAT32, the root directory and 2 clusters, 2 entries to a sector, 2 FATs, FSInfo with or without a count, two faults (failed reads, failed writes, crashes) | `ChainsIntact`, `NoSharing`, `EveryClusterCounted`, `NoSpaceOnlyWhenFull`, `CopiesAgree`, and the refinement `ImplementsClusterPool` |
| `fatchains_follow` | the same with one FAT, one failed read | a violation: see Findings |
| `fatcli_exact` | FAT32, 4 clusters for files and directories, 3 entries to a sector, 2 FATs, 17 commands of which 5 are run, no faults | `NamesWhole`, `LostOnlyWhenRefused`, and the refinement `ImplementsFileTree` |
| `fatcli_faults` | FAT16, 4 clusters, a root directory of 2 sectors, 14 commands of which 4 are run, one failed access or stop | `NoCrossLink`, `ImplementsFileTree` |
| `fatcli_mkdir` | as `fatcli_exact` | a violation: see Findings |
| `fatsession` | FAT16, 4 clusters, a root directory of 1 sector, 2 file objects, 28 calls of which 5 are made, one failed access or stop | `PositionCached`, `ChainFitsSize`, `NothingLost`, `ShortOnlyWhenFull`, `StopKeepsSynced`, and the refinement `ImplementsOpenFiles` |
| `fatsession_cut` | the same, 7 calls, no faults | a violation: see Findings |
| `interrupts` | 3 devices, the timer, 4 exceptions, 5 events | `OwnIrqFound`, `EndsOwn`, `ReturnsExactly`, and `Served` under fairness |
| `algorithms` | scaled widths and limits, real image sizes | `MadeIsClose`, `AbsoluteReplaces`, `BytesExact`, `EntriesApart`, `MountsAsFormatted`, `PinsAsListed` |

Some invariants are stated and proved but are in no run, because the proof covers the
instance as well: in `KMemory` `TypeOK`, `LockGuardsSection`, `OneOwner` and
`PopReadsPage`, in `ClusterPool` `NoneFreeInUse`, `NoSharing` (as `FatChains` names it, it is
in `fatchains`) and `SyncedInUse`, in `CpuBoot` `BarrierCountsListed` and
`OnlyEnabledStarted`.

Two processors are enough for the lock to be held and waited for, and for a root to
change between any two steps of the other one; two pages are enough for a stack to be
empty, to have one element and to have a link, and for all pages to be in use while
somebody allocates. More processors are left to the proofs, which are for any number. In
`CpuBoot` three listed processors give a loop over `CpuList` with more than one turn, and
the fourth is one that does not fit or is disabled.

In `fatchains` the clusters lie in two sectors of the FAT, so that a chain crosses sectors,
two clusters of different chains share one, a cluster is freed by one file and taken by
another, and the disk fills. A fault after at most two accesses (`MaxAccess`) hits every
access of these calls: a larger bound reaches no further state. Two faults (`MaxFaults`)
are followed by any number of calls without one, which is where the damage of a first and
of a repeated failure would show.

For fatcli four clusters and files of up to two sectors fill the disk in every command
that takes a cluster. Three entries to a sector make names cross sectors: the dot
entries leave one for files, so that the second file in a directory stretches it, and a
name of two parts does not fit behind two other entries. Five commands (`MaxCommands`)
make a directory, fill and stretch it, and remove what is in it. Two long names have
the same 8.3 form. First images are a formatted one and one with a read-only file. In
`fatcli_faults` no command makes more than 12 accesses that matter (`MaxAccess`; with
24 no state is added). Its commands stretch no directory: see Findings.

In `fatsession` a file of three units lies in two clusters with a directory's cluster
between them, so that a position in its second cluster can only be found by its chain.
Two units make a sector: positions at the start, in the middle and at the end of one, and
beyond the end of the file, are all reached. Every behaviour begins by opening that file
(`FirstCalls`), because calls on paths alone are what `fatcli_exact` has; the four calls
after it are any calls, among them those of a second object, which takes the clusters the
first one gives up. A call makes at most 8 accesses before the one that fails
(`MaxAccess`); a stop is tried after every sector written.

In `interrupts` two devices share a priority class and one has another in-service
register; the exceptions are one that panics always, one that does so in the kernel and
has an error code (13), and two that return (7, and 14 with an error code). Five events
(`MaxEvents`) nest an NMI in a handler and an exception in that, with requests waiting
behind them.

In `algorithms` the widths of periods (mantissa 3, exponent 3, mask 8 and clock 13 bits for
10, 5, 32 and 64) are scaled so that all periods and every rounding and carry can be
tried. Memory is 26 bytes, for lengths around 0, 8 and 16. FAT12 entries are those of a
table of sectors of 4 bytes, so that some lie in two. Images are every size up to 12000
sectors, and those around each size at which `f_mkfs` changes the cluster size or the FAT
type, 16-bit sizes, and the largest. ACPI tables have up to 4 entries in any order: two kinds
of processors, IO APICs with the interrupts 0-2 and 3-6 and one that does not work, two
overrides of interrupt 3 in its place that disagree, and two that redirect 0 and 4. Two
processors and two IO APICs are the limits, so that each is reached and passed.

Deadlock is checked for `KMemory`, where a processor can always take a step, and for
the FAT, where every function can always be called. In `CpuBoot` it is not, for the kernel
ends in `Panic` and halted processors; nor in `FatCli`, `FatSession` and `Interrupts`,
whose behaviours end after `MaxCommands` commands, `MaxCalls` calls or in `Panic`, nor in
`Algorithms`, which ends with the result.

Fairness. A processor runs with interrupts disabled and nothing can take it away from
its code, so weak fairness of each processor's own steps is what the machine gives.
Nothing gives a spinning processor the lock: `LockHandedOn` promises that somebody
gets through the section, not who. In `CpuBoot` delivery by the local APIC is fair too. In
`Interrupts` the code is fair, and so is `Accept`, the processor's taking of a request it
may take; nothing says that a request, an NMI or an exception ever comes.

## Proofs

`KMemory_proofs` proves, for any set of processors and any number of pages, from the
assumptions that there is a page and that `Junk` is not a pointer, every safety
property: `TypeCorrect`, `MutualExclusion`, `StackCorrect`,
`SingleOwner`, `NoNullPop`, `ZeroCorrect`, `OwnedUntouched` and `Refinement`.

The properties are not inductive alone. That the list holds exactly the free pages
survives a pop only if the root has not moved since it was read; that in turn needs
mutual exclusion; that a push is right needs the link written before it. `IInv`
is the conjunction of the type, mutual exclusion, `PlaceInv` (what the place of a
processor says about its registers, the root and the page it pushes), `OneOwner`,
`StackInv` (some finite sequence of distinct pages is the list) and `ZeroInv`. The
witness for `StackInv` is the sequence without its last element after a pop and with
the page appended after a push (`PopStack`, `PushStack`); every other action leaves
root, free pages and their links alone (`StackFrame`). That the list is no longer than
the region follows afterwards by counting (`BoundedStack`). The refinement is proved
step by step with `EmptyStack`: a NULL root means that no page is free.

`ClusterPool_proofs` proves, for any set of clusters and any root directory in it
(`Roots ⊆ Clusters` is a hypothesis of its theorems), that no cluster is ever in two
chains or twice in one (`OneOwnerPerCluster`), that none of a chain is free
(`FreeIsUnused`) and that what a crash must leave is the beginning of a chain in use
(`SyncedIsKept`). The inductive invariant is the conjunction of the three: the first
needs the second when a cluster is taken, and the third needs the first, because a chain
is known by its first cluster. The main lemma is `KeepStep`, about the chain that is
left of a cut one.

`CpuBoot_proofs` proves, for any finite set of processors, any `MaxCpus` of at least 1 and
every table that lists each processor once, the boot processor first, or no table: `TypeCorrect`,
`SipiNotLost`, `NoCrash`, `UnmapSafe`, `StacksApart`, `TimersSet`, `BarrierCounts` and
`EnabledStarted`. The assumptions are `BspAssumption`, `ApicsAssumption` (the set is
finite, or there is nothing to count), `NoneAssumption` (an empty command register is not
a message), `MaxCpusAssumption` and `PagesAssumption` (there is a page for each processor).

None of these is inductive alone: that a SIPI finds its processor waiting depends on
where the boot processor is in its loops, which entries of the list it has passed, and
which message is under way. `IInv` is the conjunction of the type, `MadtInv` (the part of
the table that has been read), `ListInv` (the list and the map from APIC ids agree and
come from that part), `PageInv` (which entries have a page of their own), `IcrInv` (the
message under way and its receiver), `PlaceInv` (where each processor is, by the place of
the boot processor, its loop counter and that message), `ReadyInv` (what is set up by
then), `StackInv`, and `BarrierCountsListed`. `PlaceStep` is the longest lemma: one step for
each action, since every action moves a processor or the message. `BarrierStep` is the
counting: `initCpusUp` is the number of the processors that are up, `MarkUp` adds one to
both, and as the listed processors are a finite set the count is that of the list only when
all of them are up. `UnmapSafe` and `NoCrash` follow: the identity mapping goes when nobody
is left in the code that needs it.

`FatFs_proofs` and `FatChains_proofs` prove every property of `FatChains`, for any
number of clusters and entries to a sector, one or two FATs, FAT16 and FAT32, any number of
chains and faults, and faults after any number of accesses: `ChainsStayIntact`,
`NoClusterShared`, `ClustersStayCounted`, `FullMeansFull`, `FatsStayEqual` and
`FatImplementsPool`. The
assumptions are `GeometryAssumption` (there is a cluster and the last link is none),
`Fat32Assumption`, `NoSectorAssumption` and `BoundsAssumption`.

The program sees the FAT as the disk with the window laid over it (`Fat`), a crash leaves
the disk alone (`DiskFat`). What must survive is said of both: `Sound(v, G)` says that the
two are in the set `G`, that the image at which the machine stopped is too, and that the
window belongs to its sector; a window to be written back has one. Every operator of
`FatVolume` has a lemma for any such set: what it does to `Fat`, in which order the
entries change, and that `G` holds between any two of them, wherever an access fails. So
`ChainRemoved` says that what is left is `Zeroed` for a beginning of the chain, `FreeFound`
that the search returns a free entry or that there is none, `ClusterTaken` that the new
entry ends a chain before anything leads to it, and `FreeCounted` that the count is that of
the free entries. `G` is then `Keeps(synced)`: the FATs in which every chain that was
synchronized, or a longer one, is found. In such a FAT `DiskHolds` finds the chain
(`ChainFound`), so that a crash anywhere is a step of `ClusterPool` (`CrashRefined`).
`IInv` (`VolumeStaysSound`) is the conjunction of `VolumeInv` (that, for `synced`),
`ChainInv` (the FAT that the program sees leads through `chains`, which are apart and begin
with what was synchronized), `FullInv` and `CountInv`. None of the five is inductive without
it: that a chain is intact after a call needs the free entry to be of no chain, and that it
is found after a crash needs the order in which the sectors of the FAT were written. There
is one lemma for each action (`CreateStep` to `CrashStep`), which proves the invariant and
the step of `ClusterPool` together.

`FatSession_proofs` proves, for a mounted volume of any size with any number of directories,
files, names and file objects, and for every sequence of the fourteen calls (`open`, `lseek`,
`write`, `read`, `truncate`, `sync`, `close`, `rename`, `unlink`, `mkdir`, `stat`, `utime`,
`setlabel`, `getlabel`) with any arguments, `PositionsCached`, `ChainsFitSizes` and
`ShortWhenFull`. The assumptions are those of the constants: the first images are volumes as
they should be (`WellFormed`), a path has no segment `.` or `..` and `f_unlink` is not given
the empty one (`CallAssumption`), what an object of the session may be (`NotOpenAssumption`),
and those of `FatVolume` and `FatDirs`. The properties speak of a session as long as no call
was hurt and `f_truncate` left no old sector in a buffer (`Sound`), and so do the proofs:
every step of it has no fault.

Neither property is inductive, nor are both together. That `clust` is in the chain of the
file after a write depends on the free cluster that was taken being in no chain, of a file or
of a table; that a chain is as long as the size in an entry depends on no other entry having
it, on that entry still being where the file object says (`dirSect`, `slot`), and on a table
that is stretched being clear. The invariant is `SessionSound` (`SessionIsSound`): there is a
*picture* of the volume (`AtRest`, `Whole`), which is

- chains (`Family`): each ends, and no two share a cluster (`Path` says the same of one);
- those of them that are tables, which hold entries only (`HoldEntries`);
- for each object in a table the chain it owns or none (`Owner`), a chain to one object, a
  directory a table, a file none, and its chain as long as its size needs, unless the file is
  open, when the entry may be behind;
- and each open file at a cluster of the chain that its entry owns (`ObjectFits`, `FileFits`),
  no two with one entry;

and the disk with the window laid over it shows that picture (`Shows`, `Drawn`). TLC has no
way to find a picture; it checks the two properties that follow from it, on which the proof
was tried first.

Each function has a contract about pictures, one lemma, from the bottom up: `create_chain`
(`ChainBegun`, `ChainFollowed`), `remove_chain` (`ChainTaken`), the loops through a table
(`DirGoesOn`, `ScanIsDone`, `DirScanned`, `StoreScanned`, `DeleteScanned`), `follow_path`
(`PathFollowed`: it ends in a table of the picture, at an object of it or at none), `dir_register` and
`dir_remove` (`DirRegisters`, `DirRemoved`), then the calls (`OpenCall`, `UnlinkCall`,
`MkdirCall`, `RenameCall`, `FileMoves`, ...). What they leave is said by few predicates:
`Later` (no object lost, tables longer or new), `Remain` (nothing but the places named is
gone), `FilesStay` (files at other places are what they were), `VolumeMade`. Where a call has
two entries for one chain for a while (`f_rename`, between the new entry and the removal of
the old one), or a new table without an entry (`f_mkdir`), the places of these entries own
nothing for that time: they are the second argument of `Picture`. `f_rename` looks for
the old entry where it was before the new one was registered (`StandsStill`), and moves the
dot entry of a directory (`DotsMoved`); `f_mkdir` writes a table before anything leads to it,
and the search for room that follows does not depend on what lies in the window then
(`ScanAgain`). `SessionStep` puts the calls together; the first image has a picture because
it is `WellFormed` (`FirstPictured`).

`Interrupts_proofs` proves, for any devices and exceptions in the ranges the IDT has for
them (`IrqAssumption`, `ExceptionAssumption`) and any number of events, `OwnIrqAlwaysFound`,
`EndOfInterruptIsOwn` and `IretReturnsExactly`. The inductive invariant (`FramesServed`)
says of every frame, not only of the last, how far its code has got and what lies on the
stack for it (`ServedInv`), that the frames lie there in order (`OrderInv`), and that only
the first of them can have a vector in service, the others being NMIs and exceptions
(`IsrInv`): interrupts stay disabled in a handler. After a panic only the types are left.

`Algorithms_proofs` proves `FatEntriesApart` for every table, entry and value of 12 bits,
`BytesAreExact` for every memory of bytes, address and length (what `memset` writes, except
for nonzero values and 8 to 15 bytes, and that it never writes other bytes), and `EverySizeMounts` for
every image size there is, from what the constants of `Algorithms` are by their names
(`MemoryAssumption`, `TableAssumption`, `ImageAssumption`). `PeriodsAreClose` and
`AbsolutesReplace` are about all lengths of time, periods and clocks, in any widths in which
the longest period is not longer than a clock (`WidthAssumption`, `TimeAssumption`), as are
the code's 10, 5, 32 and 64; powers of 2 are a recursive function for them (`Pow2`), with the
laws that the proofs need (`Powers`, `PowerOfSum`, `PowerOrder`). `TablesSetUpAsListed` is about
ACPI tables of any length with their entries in any order, and any number of processors and
IO APICs there is room for: the pins that are set up have what intr.h promises, as far as
`PinsAsListed` claims it (see Findings for the rest). It assumes of a table
(`MadtAssumption`) what the code takes for granted: that its IO APICs have different
addresses, no interrupt in common, their last pins included, and vectors for the interrupts
they have. What is known after the first entries is `RoundInv`: each IO APIC
found so far is in the list and has its pins set by the overrides between it and there, the
others are as the reset left them, and `CpuList` has the processors enabled so far; each kind
of entry keeps it (`IoApicSetUp`, `OverrideSetUp`, `RoundKeeps`), and a table set up so is
set up as listed (`DescribedAsListed`). Each theorem follows from what the functions return
(`MadeOfAll`, `AllReplaced`, `CopiesAll`, `FillsAll`, `OrdersAll`, `ParsesAll`, ...); the lemma
`ReturnsOnce` only joins that to the one step of `Algorithms`.

Loops. The prover cannot instantiate the induction theorems of its library, but a set of
numbers that has 0 and with every number the next is all of them, and that can be proved
from the least number that is missing (`Least`, `Inductive` in `FatFs_proofs` and
`Algorithms_proofs`). The rounds of the loops in `FatVolume` and of `Parsed` in `IoApic` are
followed that way (`RoundRemoves`, `FreeFound`, `FreeCounted`, `ParsedInv`). For the loops
above them the rounds are first a function of their number (`RoundsExist`, `ScanLoop`,
`WriteLoop`, ...), and each loop has a lemma that one round keeps what is known of it
(`ScanGoesOn`, `WritingGoesOn`, `MovingGoesOn`, `WalkGoesOn`, ...).

Model-checked only. In a session: `NothingLost` (a call that succeeds leaves no cluster
without an owner), for which the chains of a picture would have to be all there are, and
calls that are refused half-way leave others; what a stop leaves (`StopKeepsSynced`), which
is about the disk at every access; and the contents of files (`ImplementsOpenFiles`). About
fatcli: `NamesWhole`, `LostOnlyWhenRefused`, `ImplementsFileTree`, all of them about the
tree as it is read back with a recursive operator, which the prover cannot expand; and
`NoCrossLink`, which is about commands with faults and is not true in general: a crash
between the link and the clearing of a cluster that stretches a table leaves entries nobody
wrote (see Findings), so that no invariant over all commands would have it.
The properties of the runs that expect a violation, which are false: `SyscallMasksFlags`,
`FollowedIsFollowed`, `NeverLost`, `OthersKept`. Liveness
(`LockHandedOn`, `BootCompletes`, `Served`) is beyond the prover.

## Findings

- `cpuboot_syscall_msrs`: `CpuLateInitAsm` means to store the SYSCALL entry point in
  LSTAR and the flag mask in FMASK, but writes both to register `0xC0000082`. The entry
  point is replaced by `0x700` and FMASK is never set (`cpu_init_asm.s:171-180`).
- `fatchains_follow`: `create_chain` takes the error value of `get_fat`
  (`0xFFFFFFFF`) for the end of a chain (`ff.c:1015-1018`). When the read of that entry
  fails and the following ones succeed, a file written in the middle gets a new cluster
  there and loses the rest of its chain, and no error is reported.
- `fatsession_cut`: `f_truncate` frees the clusters behind the file pointer (`ff.c:3243-3256`)
  but leaves the sector buffer dirty, also when its sector is one of those. A later
  `f_sync`, `f_close` or move writes it to that sector (`dsect`, which `ff.h:123` calls
  "Current data sector of fpter"); when another file has taken the cluster, its data is
  overwritten and both calls return `FR_OK`. The history variable `loose` marks such a file;
  the properties of `fatsession` are stated for the behaviours without one.
- `fatcli_mkdir`: `f_mkdir` takes a cluster and writes the FAT before it registers the
  directory. When there is no room for the entry it frees the cluster again (`ff.c:3391`),
  but only in the window, which nobody writes any more: the image loses a cluster each time
  (`NeverLost`). `LostOnlyWhenRefused`, of `fatcli_exact`, shows that without faults no other
  command loses one.

More were seen with these models and have no run of their own. In the FAT library and
fatcli:

- `f_rename` moves a directory below itself: both are unreachable then, and their clusters
  lost (`OpenFiles` says so in `Rename`, `NothingLost` excepts it).
- A read or write error in `create_chain` makes `f_write` keep `0xFFFFFFFF`
  as the start of the file (`ff.c:2573`), against `ff.h:121`, and `f_close` stores it in the
  entry. The file can then neither be overwritten nor removed. `NoCrossLink` is about
  clusters there are, and does not see it.
- `write` ignores the result of `f_close`, which does most of the writing of a small
  file (`main.c:274`): exit code 0 for a file that is not there. `ls` ends with exit code
  0 when `f_readdir` fails (`main.c:129`). `FileTree` allows both after a fault.
- `write` empties the file in the image before it looks for the one outside
  (`main.c:233-245`).
- A directory is stretched by a cluster that is linked, on the disk, before it is
  cleared (`ff.c:1166-1176`): stopped in between, old data of files is taken for
  entries, and `NoCrossLink` and `ImplementsFileTree` fail. Therefore the commands of
  `fatcli_faults` stretch no directory.
- `f_unlink` with an empty path reads an entry through a null pointer (`ff.c:3300`).
- `fflush` is not looked at (`main.c:404`), so `sync_fs` reports success for data that did
  not reach the image.
- `f_mkfs` refuses images of fewer than 128 sectors, and of 4193664 to 4194207 sectors, where
  the clusters it counts before it takes the tables off are those of FAT32 and after it
  those of FAT16 (`MountsAsFormatted`).
- `f_getfree` keeps the count it had reached when a read failed, and later calls return it
  with `FR_OK` (`ff.c:3209`).
- `move_window` leaves `winsect` alone when a read fails after part of `win[]` has been filled
  (`ff.c:769`, `main.c:354`); in the model a failed read reads nothing.

In the kernel:

- `ListAddBefore` and `ListAddAfter` assign the wrong variable (`list.h:60`, `list.h:69`).
- `memset` with a value other than zero leaves out the last eight bytes of
  an array of 8 to 15 (`util.s:67`): it jumps past its words below 16 bytes, not below 8.
  `BytesExact` claims of these only that nothing else is written.
- `TimeExpandPeriodBase` compares the truth value of the
  carry with the bit `0x400` (`time.c:63`), and masks a 64-bit clock with 32 bits
  (`time.c:60`); `time.c:53` says that the lower bits are replaced. `AbsoluteReplaces` is about
  the other combinations.
- `IntrInitSetOverride` gives a pin a vector without the offset of 32
  (`intr.c:223`). Without any IO APIC in the table, pin 0 gets vector 2, that of the NMI.
- An override that the table lists before the IO APIC of its interrupt is
  dropped (`intr.c:198`).
- `IntrInitIoApic` takes the number of the last pin for the number of pins
  (`intr.c:161`), so the last is never set up. `PinsAsListed` is about the other pins, about
  the vectors of those that no override in the table names, and about polarity and trigger
  by the overrides listed after the IO APIC.
- When `CpuList` is full the rest of the table is left out, IO APICs and overrides too
  (`cpu_init.c:163`). `CpuList[0]` is taken for the running processor (`cpu_init.c:321`).
- The handler of the timer sends no end of interrupt (`intr.c:310`); after it fires nothing
  else is delivered, which `Served` excepts. The handler of page faults returns to the fault.
- `IntrIsr8` and `IntrIsr10` push a zero though the processor pushes an error code; both
  panic, so the shifted frame is never used. Vectors 21-31 and 241-254 have no gate.

## Plan

Modelled first is what is shared: the allocator, then the start-up that uses it, then the
FAT under everything `fatcli` does, on it directories, files, commands and sessions of
calls, then interrupts and the functions that only compute. Proved are the allocator, the
start-up, the FAT and its abstract specification, the sessions of calls while nothing fails,
interrupts, and the functions that only compute. What is left, in this order:

1. Proofs of `FatSession` for `NothingLost` (a picture with all chains but those that were
   lost) and with faults for `StopKeepsSynced`, on `Sound(v, G)` of `FatFs_proofs`.
2. Proofs of `FileTree` and `OpenFiles` (parents exist, what is not named does not change),
   and of `ImplementsOpenFiles` on the pictures of `FatSession_proofs`.
3. FAT12 in `FatVolume`, with the window between the two bytes of an entry.
4. A processor that does not start after its SIPI in `CpuBoot`.
5. The search for the ACPI table and its checksums in `IoApic`.

## Not modelled

- `panic.c`, the console and `boot/start.s`: straight-line code of one processor.
- `infopage.c`: layout only, and never called. `multiboot.h`, `ioports.h`, `config.h`:
  declarations.
- `list.h`: nothing calls it, and with what `list.h:60` and `list.h:69` assign no list of
  more than one element can be built; there is no behaviour to keep.
- The search for the ACPI table and its checksums; `AtomicTryLock`, `AtomicLockInit` and
  `AtomicCompareSwap`, which nobody calls.
- A processor the table calls enabled but that never starts: `CpuInitAll` then waits for ever
  (`cpu_init.c:339`), and nothing promises otherwise.
- Characters of names (`create_name`, code pages), dates, and attributes but read-only and
  the volume label. Directories are one level deep in the commands and calls of the runs.
  Clusters are one sector.
- Read errors in `chk_mounted`, disk errors while formatting, and `fflush` that fails: the
  volume is mounted, and what `disk_write` has written is in the image. Partition tables and
  volumes that other programs have formatted.
- Files outside the image, but for one that is missing; the arguments of `fatcli`.
- Two faults in one behaviour of `fatcli` or of a session, and calls other than `f_close`
  after a disk error in a session.
- Opening, renaming or removing a file that is open: `_FS_LOCK` is 0, so the library leaves
  this to its caller, and `Possible` in `FatSession` excludes it.
- Options of `ff.c` that `ffconf.h` turns off (`_FS_TINY`, `_FS_REENTRANT`, `_FS_LOCK`,
  `_FS_RPATH`, `_USE_ERASE`, `_USE_FORWARD`), and the link map of `_USE_FASTSEEK`, which
  is on but which `fatcli` never gives a file.
