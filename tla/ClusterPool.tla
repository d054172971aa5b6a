---------------------------- MODULE ClusterPool ----------------------------
(***************************************************************************)
(* What the FAT of a volume promises to the files and directories of       *)
(* fatcli/src/ff.c: clusters are linked to chains that share none of them, *)
(* a new cluster is one that was free, and a chain that was on the disk    *)
(* when the file system was synchronized is still there after a crash,     *)
(* unless its owner has cut it since.  A disk error or a crash may lose    *)
(* free clusters, or the clusters of the chain being worked on, but gives  *)
(* none of them to two owners.  FatChains is shown to implement this.      *)
(***************************************************************************)
EXTENDS Naturals, Sequences, Functions

CONSTANTS Clusters,   \* the clusters of the volume
          Roots       \* those of the root directory on a new volume

VARIABLES chains,     \* the chains that files and directories lead to
          synced,     \* what of them a crash must leave
          free        \* clusters marked as empty

vars == <<chains, synced, free>>

\* At most the first n clusters of a chain.
Limit(s, n) == IF Len(s) <= n THEN s ELSE SubSeq(s, 1, n)

IsStartOf(s, ch) == \E n \in 1..Len(ch) : s = SubSeq(ch, 1, n)

\* What must survive once a chain is no longer than n clusters.
ShortenTo(ch, n) ==
  {s \in synced : s[1] # ch[1]}
    \cup {Limit(s, n) : s \in {t \in synced : n > 0 /\ t[1] = ch[1]}}

WellFormed(S) ==
  /\ S \in SUBSET Seq(Clusters)
  /\ \A s \in S : Len(s) > 0 /\ \A i, j \in 1..Len(s) : s[i] = s[j] => i = j
  /\ \A s, t \in S : s # t => Range(s) \cap Range(t) = {}

Unused(S) == {c \in Clusters : \A s \in S : c \notin Range(s)}

Init == /\ chains = {<<c>> : c \in Roots}
        /\ synced = chains
        /\ free = Clusters \ Roots

Create == \E n \in free :
  /\ chains' = chains \cup {<<n>>}
  /\ free' = free \ {n}
  /\ UNCHANGED synced

Stretch(ch) == \E n \in free :
  /\ chains' = (chains \ {ch}) \cup {Append(ch, n)}
  /\ free' = free \ {n}
  /\ UNCHANGED synced

\* The owner keeps the first n clusters, or gives up the chain with n = 0, and
\* the others become free; or, when a disk access failed, stay lost.
Keep(ch, n) ==
  /\ n < Len(ch)
  /\ chains' = (chains \ {ch}) \cup {SubSeq(ch, 1, k) : k \in {n} \ {0}}
  /\ synced' = ShortenTo(ch, n)

Cut(ch, n) == /\ Keep(ch, n)
              /\ free' = free \cup {ch[i] : i \in (n + 1)..Len(ch)}

CutFailed(ch, n) == /\ Keep(ch, n)
                    /\ free' \in SUBSET (free \cup {ch[i] : i \in (n + 1)..Len(ch)})

Lose == /\ free' \in SUBSET free
        /\ UNCHANGED <<chains, synced>>

Sync == /\ synced' = chains
        /\ UNCHANGED <<chains, free>>

\* After a crash there is one chain for each that was to survive.  The crash may
\* come in the middle of a cut.
Survive(kept) ==
  /\ WellFormed(chains')
  /\ \A s \in kept : \E ch \in chains' : IsStartOf(s, ch)
  /\ synced' = chains'
  /\ free' \in SUBSET Unused(chains')

Crash == \/ Survive(synced)
         \/ \E ch \in chains : \E n \in 0..(Len(ch) - 1) : Survive(ShortenTo(ch, n))

Next == \/ Create
        \/ \E ch \in chains : \/ Stretch(ch)
                              \/ \E n \in 0..(Len(ch) - 1) : Cut(ch, n) \/ CutFailed(ch, n)
        \/ Lose
        \/ Sync
        \/ Crash

Spec == Init /\ [][Next]_vars

----------------------------------------------------------------------------
\* No cluster is in two chains, or twice in one (ff.c: create_chain takes only
\* clusters whose entry is 0 and remove_chain frees only those of its chain).
NoSharing == WellFormed(chains)

\* No cluster of a chain is marked as empty.
NoneFreeInUse == free \subseteq Unused(chains)

\* What must survive a crash is the start of a chain in use.
SyncedInUse == \A s \in synced : \E ch \in chains : IsStartOf(s, ch)
=============================================================================
