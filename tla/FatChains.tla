----------------------------- MODULE FatChains -----------------------------
(***************************************************************************)
(* The FAT of a volume in use: files and directories create, stretch, cut  *)
(* and remove chains of clusters with create_chain and remove_chain of     *)
(* fatcli/src/ff.c, while disk accesses fail and the program is stopped.   *)
(* The callers stand for the FAT part of f_write, f_lseek and dir_next     *)
(* (Stretch), f_write and f_mkdir (Create), f_truncate (Truncate), f_unlink*)
(* (Remove), f_open of a file to overwrite (Overwrite) and f_sync (Sync).  *)
(* Which chain belongs to which file is theirs to know: chains.            *)
(***************************************************************************)
EXTENDS FatVolume

CONSTANTS
  MaxChains,   \* bound: files and directories at a time
  MaxFaults,   \* bound: disk errors and crashes in a behaviour
  MaxAccess,   \* bound: accesses of a call before the one that fails
  InfoKnown,   \* can FSInfo have the count of free clusters, or not: a set of Booleans
  FaultKinds   \* of "read", "write", "crash"

ASSUME BoundsAssumption ==
  {MaxChains, MaxFaults, MaxAccess} \subseteq Nat /\ InfoKnown \subseteq BOOLEAN
  /\ FaultKinds \subseteq {"read", "write", "crash"}

VARIABLES
  vol,      \* the volume (FatVolume)
  chains,   \* the chains their owners know
  synced,   \* the chains that a crash must leave: synchronized and not cut since
  full,     \* has the last call been create_chain and reported a full disk?
  faults    \* how many accesses have failed, crashes included

vars == <<vol, chains, synced, full, faults>>

RootChains == IF Fat32 THEN {2} ELSE {}

FreeSeen(v) == {c \in Clusters : FatEntry(v, c) = 0}

Pool == INSTANCE ClusterPool WITH
          Roots <- RootChains, free <- FreeSeen(vol), chains <- chains, synced <- synced

----------------------------------------------------------------------------
\* A call can be made with any fault ahead of it that hits one of its accesses.
FaultsAhead ==
  {NoFault} \cup (IF faults < MaxFaults
                  THEN {Fault(k, n) : k \in FaultKinds, n \in 0..MaxAccess} ELSE {})
Ahead(f) == [vol EXCEPT !.fault = f]
Hit(f, v) == f # NoFault /\ v.fault.kind # f.kind

\* The chain from c as the sectors of a disk show it.
OnDisk(disk, c) ==
  LET at[n \in 1..NFatEnt] ==
        IF n = 1 THEN c
        ELSE IF at[n - 1] \in Clusters THEN disk[FatSector(0, at[n - 1])][at[n - 1]] ELSE 0
  IN  [n \in {m \in 1..NFatEnt : \A k \in 1..m : at[k] \in Clusters} |-> at[n]]

\* After a crash the volume is mounted again; chains that nothing was to survive
\* of are lost.
Restart(disk, kept) ==
  /\ vol' = Mounted(disk)
  /\ chains' = {OnDisk(disk, s[1]) : s \in kept}
  /\ synced' = chains'
  /\ full' = FALSE

\* A call that left the volume v. kept is what must survive of the chains if the
\* program was stopped in it, noSpace what the call reported.
Finish(f, v, kept, owned, noSpace) ==
  /\ f = NoFault \/ Hit(f, v)
  /\ faults' = IF f = NoFault THEN faults ELSE faults + 1
  /\ IF Stopped(v) THEN Restart(Image(v), kept)
     ELSE /\ vol' = [v EXCEPT !.fault = NoFault]
          /\ chains' = owned
          /\ synced' = kept
          /\ full' = noSpace

----------------------------------------------------------------------------
Create ==
  /\ Cardinality(chains) < MaxChains
  /\ \E f \in FaultsAhead :
       LET r == CreateChain(Ahead(f), 0)
           owned == IF r.val \in Clusters THEN chains \cup {<<r.val>>} ELSE chains
       IN  Finish(f, r.v, synced, owned, r.val = 0)

\* From cluster i of a chain to the next one: the caller does not know if there is one.
\* Should the next one not be the one there was, the rest of the chain is lost.
Stretch(ch, i) ==
  \E f \in FaultsAhead :
    LET r == CreateChain(Ahead(f), ch[i])
        next == IF i < Len(ch) THEN ch[i + 1] ELSE 0
        lost == ~Stopped(r.v) /\ next # 0 /\ FatEntry(r.v, ch[i]) # next
    IN  IF lost THEN Finish(f, r.v, Pool!ShortenTo(ch, 0), chains \ {ch}, r.val = 0)
        ELSE Finish(f, r.v, synced,
                    IF next = 0 /\ r.val \in Clusters
                    THEN (chains \ {ch}) \cup {Append(ch, r.val)} ELSE chains,
                    r.val = 0)

Remove(ch) ==
  \E f \in FaultsAhead :
    LET r == RemoveChain(Ahead(f), ch[1])
    IN  Finish(f, r.v, Pool!ShortenTo(ch, 0), chains \ {ch}, FALSE)

\* f_open reuses the hole of the chain it removes.
Overwrite(ch) ==
  \E f \in FaultsAhead :
    LET r == RemoveChain(Ahead(f), ch[1])
        v == IF r.res = "FR_OK" THEN [r.v EXCEPT !.last = ch[1] - 1] ELSE r.v
    IN  Finish(f, v, Pool!ShortenTo(ch, 0), chains \ {ch}, FALSE)

\* The clusters behind c, whose entry is g: the end of the chain is marked first.
CutFrom(g, c) ==
  IF g.val \in {1, Max32} \/ g.val >= NFatEnt THEN g
  ELSE Then(PutFat(g.v, c, LastLink), LAMBDA p : RemoveChain(p, g.val))
CutBehind(v, c) == CutFrom(GetFat(v, c), c).v

Truncate(ch, i) ==
  \E f \in FaultsAhead :
    LET v == CutBehind(Ahead(f), ch[i])
        cut == Stopped(v) \/ FatEntry(v, ch[i]) = LastLink
    IN  IF cut THEN Finish(f, v, Pool!ShortenTo(ch, i),
                           (chains \ {ch}) \cup {SubSeq(ch, 1, i)}, FALSE)
        ELSE Finish(f, v, synced, chains, FALSE)

Sync ==
  \E f \in FaultsAhead :
    LET r == SyncFs(Ahead(f))
    IN  Finish(f, r.v, IF r.res = "FR_OK" /\ ~Stopped(r.v) THEN chains ELSE synced,
               chains, FALSE)

Count ==
  \E f \in FaultsAhead :
    Finish(f, GetFree(Ahead(f)).v, synced, chains, FALSE)

\* The program is stopped between two calls.
Crash ==
  /\ "crash" \in FaultKinds /\ faults < MaxFaults
  /\ faults' = faults + 1
  /\ Restart(vol.disk, synced)

\* What f_mkfs leaves and chk_mounted finds. Other programs that make volumes may
\* leave out the count.
FormattedDisk(known) ==
  [s \in FatSectors \cup {FsInfo} |->
     IF s = FsInfo
     THEN [free |-> IF known THEN NFatEnt - 2 - Cardinality(RootChains) ELSE Max32, last |-> 2]
     ELSE [c \in EntriesOf(s[3]) |-> IF c < 2 \/ c \in RootChains THEN LastLink ELSE 0]]

Init == /\ \E known \in InfoKnown : vol = Mounted(FormattedDisk(known))
        /\ chains = {<<c>> : c \in RootChains}
        /\ synced = chains
        /\ full = FALSE
        /\ faults = 0

\* The root directory is only stretched.
Files == {ch \in chains : ch[1] \notin RootChains}

Next == \/ Create
        \/ \E ch \in chains : \E i \in 1..Len(ch) : Stretch(ch, i)
        \/ \E ch \in Files : Remove(ch) \/ Overwrite(ch)
        \/ \E ch \in Files : \E i \in 1..(Len(ch) - 1) : Truncate(ch, i)
        \/ Sync
        \/ Count
        \/ Crash

Spec == Init /\ [][Next]_vars

----------------------------------------------------------------------------
(* Properties.                                                             *)

\* Whatever fails, the FAT leads from the first cluster of every chain in use
\* through exactly its clusters to an end (create_chain and remove_chain change
\* no entry of another chain, and create_chain only the last entry of its own).
ChainsIntact ==
  \A ch \in chains : \A i \in 1..Len(ch) :
    FatEntry(vol, ch[i]) = IF i < Len(ch) THEN ch[i + 1] ELSE LastLink

\* No cluster is in two chains, or twice in one, whatever has failed and wherever the program
\* was stopped: create_chain takes only clusters whose entry is 0, and remove_chain frees
\* only those of its chain.
NoSharing == Pool!NoSharing

\* Without errors no cluster is lost: what is not in a chain is free, and
\* free_clust, when it is known, is the number of free clusters (CountFreed and
\* CountTaken in remove_chain and create_chain). So is FSInfo on the disk after a
\* synchronization, and mounting again starts from the right count (sync_fs).
CountsFree(n) == n \in {Max32, Cardinality(FreeSeen(vol))}
EveryClusterCounted ==
  faults = 0 => /\ FreeSeen(vol) = Pool!Unused(chains)
                /\ CountsFree(vol.free)
                /\ Fat32 /\ ~vol.dirty /\ ~vol.info => CountsFree(vol.disk[FsInfo].free)

\* create_chain reports a full disk (0) only when no entry of the FAT is 0: its
\* search from the hint wraps round to everything, also after errors and crashes.
NoSpaceOnlyWhenFull == full => FreeSeen(vol) = {}

\* Without errors the copies of the FAT on the disk are the same (sync_window).
CopiesAgree ==
  faults = 0 => \A s \in FatSectors : vol.disk[s] = vol.disk[<<"fat", 0, s[3]>>]

\* Creating, stretching, cutting and removing chains, failing and crashing
\* implement ClusterPool: in particular a chain that was synchronized is found
\* again after a crash, and no cluster gets two owners.
ImplementsClusterPool == Pool!Spec

\* ff.c:1017 says of an entry that is not the end of a chain that "It is already
\* followed by next cluster": then create_chain leaves the entry as it is, whichever
\* access of the call fails.
FollowedIsFollowed ==
  \A ch \in chains : \A i \in 1..(Len(ch) - 1) : \A f \in FaultsAhead :
    LET v == CreateChain(Ahead(f), ch[i]).v
    IN  ~Stopped(v) => FatEntry(v, ch[i]) = ch[i + 1]
=============================================================================
