------------------------- MODULE ClusterPool_proofs -------------------------
(***************************************************************************)
(* Whatever fails or crashes, the clusters of ClusterPool keep one owner   *)
(* each, for any number of clusters.  FatChains implements ClusterPool, so *)
(* these are facts about the FAT too.                                      *)
(***************************************************************************)
EXTENDS ClusterPool, TLAPS

\* The members of a chain by their indices.
LEMMA RangeOfSeq ==
  ASSUME NEW s \in Seq(Clusters)
  PROVE  \A x : x \in Range(s) <=> \E i \in 1..Len(s) : x = s[i]
<1>1. DOMAIN s = 1..Len(s)
  OBVIOUS
<1>2. \A x : x \in Range(s) <=> \E i \in DOMAIN s : x = s[i]
  BY Zenon DEF Range
<1> QED BY <1>1, <1>2

\* A start of a chain is a chain of some of its clusters with the same first one.
LEMMA StartOfChain ==
  ASSUME NEW ch \in Seq(Clusters), NEW n \in 1..Len(ch)
  PROVE  LET s == SubSeq(ch, 1, n)
         IN  /\ s \in Seq(Clusters) /\ Len(s) = n
             /\ \A i \in 1..n : s[i] = ch[i]
             /\ s[1] = ch[1]
             /\ Range(s) \subseteq Range(ch)
<1> DEFINE s == SubSeq(ch, 1, n)
<1>1. s \in Seq(Clusters) /\ Len(s) = n /\ \A i \in 1..n : s[i] = ch[i]
  OBVIOUS
<1>2. s[1] = ch[1]
  BY <1>1
<1>3. Range(s) \subseteq Range(ch)
  <2>1. \A x : x \in Range(s) <=> \E i \in 1..Len(s) : x = s[i]
    BY <1>1, RangeOfSeq
  <2>2. \A x : x \in Range(ch) <=> \E i \in 1..Len(ch) : x = ch[i]
    BY RangeOfSeq
  <2> QED BY <1>1, <2>1, <2>2
<1> QED BY <1>1, <1>2, <1>3

\* Of a start of a chain the first n clusters are the start of its first n clusters.
LEMMA LimitedStart ==
  ASSUME NEW ch \in Seq(Clusters), NEW k \in 1..Len(ch), NEW n \in 1..Len(ch)
  PROVE  IsStartOf(Limit(SubSeq(ch, 1, k), n), SubSeq(ch, 1, n))
<1> DEFINE s == SubSeq(ch, 1, k)
           t == SubSeq(ch, 1, n)
<1>1. s \in Seq(Clusters) /\ Len(s) = k /\ \A i \in 1..k : s[i] = ch[i]
  OBVIOUS
<1>2. t \in Seq(Clusters) /\ Len(t) = n /\ \A i \in 1..n : t[i] = ch[i]
  OBVIOUS
<1>3. CASE k <= n
  <2>1. Limit(s, n) = s
    BY <1>1, <1>3 DEF Limit
  <2>2. SubSeq(t, 1, k) \in Seq(Clusters) /\ Len(SubSeq(t, 1, k)) = k
        /\ \A i \in 1..k : SubSeq(t, 1, k)[i] = t[i]
    BY <1>2, <1>3
  <2>3. s = SubSeq(t, 1, k)
    BY <1>1, <1>2, <1>3, <2>2
  <2> QED BY <2>1, <2>3, <1>2, <1>3 DEF IsStartOf
<1>4. CASE k > n
  <2>1. Limit(s, n) = SubSeq(s, 1, n)
    BY <1>1, <1>4 DEF Limit
  <2>2. SubSeq(s, 1, n) \in Seq(Clusters) /\ Len(SubSeq(s, 1, n)) = n
        /\ \A i \in 1..n : SubSeq(s, 1, n)[i] = s[i]
    BY <1>1, <1>4
  <2>3. SubSeq(t, 1, n) \in Seq(Clusters) /\ Len(SubSeq(t, 1, n)) = n
        /\ \A i \in 1..n : SubSeq(t, 1, n)[i] = t[i]
    BY <1>2
  <2>4. SubSeq(s, 1, n) = SubSeq(t, 1, n)
    BY <1>1, <1>2, <1>4, <2>2, <2>3
  <2>5. n \in 1..Len(t)
    BY <1>2
  <2> QED BY <2>1, <2>4, <2>5, Zenon DEF IsStartOf
<1> QED BY <1>3, <1>4

\* A chain is a start of itself.
LEMMA StartOfItself ==
  ASSUME NEW ch \in Seq(Clusters), Len(ch) > 0
  PROVE  IsStartOf(ch, ch)
<1>1. Len(ch) \in 1..Len(ch) /\ ch = SubSeq(ch, 1, Len(ch))
  OBVIOUS
<1> QED BY <1>1 DEF IsStartOf

\* A chain of one cluster.
LEMMA Singleton ==
  ASSUME NEW c \in Clusters, NEW u, u = <<c>>
  PROVE  /\ u \in Seq(Clusters) /\ Len(u) = 1 /\ u[1] = c
         /\ \A x : x \in Range(u) <=> x = c
<1>1. u \in Seq(Clusters) /\ Len(u) = 1 /\ u[1] = c
  OBVIOUS
<1>2. \A x : x \in Range(u) <=> \E i \in 1..Len(u) : x = u[i]
  BY <1>1, RangeOfSeq
<1>3. \A x : x \in Range(u) <=> x = c
  BY <1>1, <1>2
<1> QED BY <1>1, <1>3

\* A cluster tells the chain it is in, and its place there.
LEMMA OnePlace ==
  ASSUME NEW S, WellFormed(S), NEW s \in S, NEW t \in S,
         NEW i \in 1..Len(s), NEW j \in 1..Len(t), s[i] = t[j]
  PROVE  s = t /\ i = j
<1>1. s \in Seq(Clusters) /\ t \in Seq(Clusters)
  BY DEF WellFormed
<1>2. s[i] \in Range(s) /\ t[j] \in Range(t)
  BY <1>1, RangeOfSeq
<1>3. s = t
  BY <1>2 DEF WellFormed
<1> QED BY <1>3 DEF WellFormed

\* A chain of clusters that no other chain has can be put in.
LEMMA AddChain ==
  ASSUME NEW S, WellFormed(S), NEW R \in SUBSET S,
         NEW s \in Seq(Clusters), Len(s) > 0,
         \A i, j \in 1..Len(s) : s[i] = s[j] => i = j,
         \A t \in R : Range(s) \cap Range(t) = {}
  PROVE  WellFormed(R \cup {s})
<1>1. R \cup {s} \in SUBSET Seq(Clusters)
  BY DEF WellFormed
<1>2. ASSUME NEW t \in R \cup {s}
      PROVE  Len(t) > 0 /\ \A i, j \in 1..Len(t) : t[i] = t[j] => i = j
  BY DEF WellFormed
<1>3. ASSUME NEW t \in R \cup {s}, NEW u \in R \cup {s}, t # u
      PROVE  Range(t) \cap Range(u) = {}
  BY <1>3 DEF WellFormed
<1> QED BY <1>1, <1>2, <1>3 DEF WellFormed

IInv == NoSharing /\ NoneFreeInUse /\ SyncedInUse

----------------------------------------------------------------------------
(* Each step preserves the invariant.                                      *)

LEMMA InitIInv ==
  ASSUME Roots \in SUBSET Clusters
  PROVE  Init => IInv
<1> SUFFICES ASSUME Init PROVE IInv
  OBVIOUS
<1>1. \A s \in chains : \E c \in Roots : s = <<c>>
  BY DEF Init
<1>2. ASSUME NEW s \in chains
      PROVE  \E c \in Roots : /\ s = <<c>> /\ s \in Seq(Clusters) /\ Len(s) = 1
                               /\ s[1] = c /\ \A x : x \in Range(s) <=> x = c
  BY <1>1, Singleton
<1>3. NoSharing
  <2>1. chains \in SUBSET Seq(Clusters)
    BY <1>2
  <2>2. \A s \in chains : Len(s) > 0 /\ \A i, j \in 1..Len(s) : s[i] = s[j] => i = j
    BY <1>2
  <2>3. \A s, t \in chains : s # t => Range(s) \cap Range(t) = {}
    BY <1>2
  <2> QED BY <2>1, <2>2, <2>3 DEF NoSharing, WellFormed
<1>4. NoneFreeInUse
  BY <1>2 DEF Init, NoneFreeInUse, Unused
<1>5. SyncedInUse
  <2>1. \A s \in chains : IsStartOf(s, s)
    BY <1>2, StartOfItself
  <2> QED BY <2>1 DEF Init, SyncedInUse
<1> QED BY <1>3, <1>4, <1>5 DEF IInv

\* create_chain of a new chain.
LEMMA CreateStep == IInv /\ Create => IInv'
<1> SUFFICES ASSUME IInv, Create PROVE IInv'
  OBVIOUS
<1>1. PICK n \in free : /\ chains' = chains \cup {<<n>>}
                        /\ free' = free \ {n}
                        /\ synced' = synced
  BY DEF Create
<1>2. n \in Clusters /\ \A s \in chains : n \notin Range(s)
  BY DEF IInv, NoneFreeInUse, Unused
<1>3. PICK u : u = <<n>>
  OBVIOUS
<1>4. /\ u \in Seq(Clusters) /\ Len(u) = 1 /\ u[1] = n
      /\ \A x : x \in Range(u) <=> x = n
  BY <1>2, <1>3, Singleton
<1>5. NoSharing'
  <2>1. WellFormed(chains \cup {u})
    <3>1. Len(u) > 0 /\ \A i, j \in 1..Len(u) : u[i] = u[j] => i = j
      BY <1>4
    <3>2. \A t \in chains : Range(u) \cap Range(t) = {}
      BY <1>2, <1>4
    <3> QED BY <1>4, <3>1, <3>2, AddChain DEF IInv, NoSharing
  <2> QED BY <1>1, <1>3, <2>1 DEF NoSharing
<1>6. NoneFreeInUse'
  BY <1>1, <1>3, <1>4 DEF IInv, NoneFreeInUse, Unused
<1>7. SyncedInUse'
  BY <1>1 DEF IInv, SyncedInUse
<1> QED BY <1>5, <1>6, <1>7 DEF IInv

\* create_chain behind the last cluster of a chain.
LEMMA StretchStep ==
  ASSUME IInv, NEW ch \in chains, Stretch(ch) PROVE IInv'
<1>1. PICK n \in free : /\ chains' = (chains \ {ch}) \cup {Append(ch, n)}
                        /\ free' = free \ {n}
                        /\ synced' = synced
  BY DEF Stretch
<1>2. n \in Clusters /\ \A s \in chains : n \notin Range(s)
  BY DEF IInv, NoneFreeInUse, Unused
<1>3. ch \in Seq(Clusters) /\ Len(ch) > 0 /\ \A i, j \in 1..Len(ch) : ch[i] = ch[j] => i = j
  BY DEF IInv, NoSharing, WellFormed
<1> DEFINE t == Append(ch, n)
<1>4. /\ t \in Seq(Clusters) /\ Len(t) = Len(ch) + 1
      /\ \A i \in 1..Len(ch) : t[i] = ch[i]
      /\ t[Len(ch) + 1] = n
  BY <1>2, <1>3
<1>5. \A x : x \in Range(ch) <=> \E i \in 1..Len(ch) : x = ch[i]
  BY <1>3, RangeOfSeq
<1>6. \A x : x \in Range(t) <=> \E i \in 1..Len(t) : x = t[i]
  BY <1>4, RangeOfSeq
<1> HIDE DEF t
<1>7. \A x : x \in Range(t) => x = n \/ x \in Range(ch)
  BY <1>3, <1>4, <1>5, <1>6
<1>8. NoSharing'
  <2>1. \A i \in 1..Len(ch) : ch[i] # n
    BY <1>2, <1>5
  <2>2. ASSUME NEW i \in 1..Len(t), NEW j \in 1..Len(t), t[i] = t[j] PROVE i = j
    BY <1>3, <1>4, <2>1, <2>2
  <2>3. \A s \in chains \ {ch} : Range(t) \cap Range(s) = {}
    BY <1>2, <1>7 DEF IInv, NoSharing, WellFormed
  <2>4. WellFormed((chains \ {ch}) \cup {t})
    <3>1. chains \ {ch} \in SUBSET chains /\ Len(t) > 0
      BY <1>3, <1>4
    <3> QED BY <1>4, <2>2, <2>3, <3>1, AddChain DEF IInv, NoSharing
  <2> QED BY <1>1, <2>4 DEF NoSharing, t
<1>9. NoneFreeInUse'
  <2>1. ASSUME NEW c \in free' PROVE c \in Clusters /\ \A s \in chains : c \notin Range(s)
    BY <1>1 DEF IInv, NoneFreeInUse, Unused
  <2>2. ASSUME NEW c \in free', NEW s \in chains' PROVE c \notin Range(s)
    BY <1>1, <1>7, <2>1 DEF t
  <2> QED BY <2>1, <2>2 DEF NoneFreeInUse, Unused
<1>10. SyncedInUse'
  <2> SUFFICES ASSUME NEW s \in synced PROVE \E u \in chains' : IsStartOf(s, u)
    BY <1>1 DEF SyncedInUse
  <2>1. PICK u \in chains : IsStartOf(s, u)
    BY DEF IInv, SyncedInUse
  <2>2. CASE u # ch
    BY <1>1, <2>1, <2>2
  <2>3. CASE u = ch
    <3>1. PICK k \in 1..Len(ch) : s = SubSeq(ch, 1, k)
      BY <2>1, <2>3 DEF IsStartOf
    <3>2. k \in 1..Len(t)
      BY <1>3, <1>4
    <3>3. SubSeq(ch, 1, k) = SubSeq(t, 1, k)
      BY <1>3, <1>4, <3>2
    <3>4. IsStartOf(s, t)
      BY <3>1, <3>2, <3>3 DEF IsStartOf
    <3> QED BY <1>1, <3>4 DEF t
  <2> QED BY <2>2, <2>3
<1> QED BY <1>8, <1>9, <1>10 DEF IInv

\* remove_chain of a chain or of its end: what the owner keeps, and what must
\* survive of it.
LEMMA KeepStep ==
  ASSUME IInv, NEW ch \in chains, NEW n \in 0..(Len(ch) - 1), Keep(ch, n)
  PROVE  /\ NoSharing' /\ SyncedInUse'
         /\ \A s \in chains' : \/ s \in chains \ {ch}
                               \/ Range(s) \subseteq {ch[i] : i \in 1..n}
<1>1. ch \in Seq(Clusters) /\ Len(ch) > 0 /\ \A i, j \in 1..Len(ch) : ch[i] = ch[j] => i = j
  BY DEF IInv, NoSharing, WellFormed
<1>2. CASE n = 0
  <2>1. chains' = chains \ {ch}
    BY <1>2 DEF Keep
  <2>2. NoSharing'
    BY <2>1 DEF IInv, NoSharing, WellFormed
  <2>3. ASSUME NEW s \in synced' PROVE \E u \in chains' : IsStartOf(s, u)
    <3>1. s \in synced /\ s[1] # ch[1]
      BY <1>2 DEF Keep, ShortenTo
    <3>2. PICK u \in chains : IsStartOf(s, u)
      BY <3>1 DEF IInv, SyncedInUse
    <3>3. u \in Seq(Clusters)
      BY DEF IInv, NoSharing, WellFormed
    <3>4. s[1] = u[1]
      BY <3>2, <3>3, StartOfChain DEF IsStartOf
    <3> QED BY <2>1, <3>1, <3>2, <3>4
  <2> QED BY <2>1, <2>2, <2>3 DEF SyncedInUse
<1>3. CASE n > 0
  <2>1. n \in 1..Len(ch)
    BY <1>1, <1>3
  <2>2. PICK t : t = SubSeq(ch, 1, n)
    OBVIOUS
  <2>3. /\ t \in Seq(Clusters) /\ Len(t) = n /\ \A i \in 1..n : t[i] = ch[i]
        /\ Range(t) \subseteq Range(ch)
    BY <1>1, <2>1, <2>2, StartOfChain
  <2>4. chains' = (chains \ {ch}) \cup {t}
    BY <1>3, <2>2 DEF Keep
  <2>5. NoSharing'
    <3>1. Len(t) > 0 /\ \A i, j \in 1..Len(t) : t[i] = t[j] => i = j
      BY <1>1, <2>1, <2>3
    <3>2. \A s \in chains \ {ch} : Range(t) \cap Range(s) = {}
      BY <2>3 DEF IInv, NoSharing, WellFormed
    <3>3. chains \ {ch} \in SUBSET chains /\ WellFormed(chains)
      BY DEF IInv, NoSharing
    <3>4. WellFormed((chains \ {ch}) \cup {t})
      BY <2>3, <3>1, <3>2, <3>3, AddChain
    <3> QED BY <2>4, <3>4 DEF NoSharing
  <2>6. ASSUME NEW s \in synced' PROVE \E u \in chains' : IsStartOf(s, u)
    <3>1. CASE s \in synced /\ s[1] # ch[1]
      <4>1. PICK u \in chains : IsStartOf(s, u)
        BY <3>1 DEF IInv, SyncedInUse
      <4>2. u \in Seq(Clusters)
        BY DEF IInv, NoSharing, WellFormed
      <4>3. s[1] = u[1]
        BY <4>1, <4>2, StartOfChain DEF IsStartOf
      <4> QED BY <2>4, <3>1, <4>1, <4>3
    <3>2. CASE \E r \in synced : r[1] = ch[1] /\ s = Limit(r, n)
      <4>1. PICK r \in synced : r[1] = ch[1] /\ s = Limit(r, n)
        BY <3>2
      <4>2. PICK u \in chains : IsStartOf(r, u)
        BY DEF IInv, SyncedInUse
      <4>3. u \in Seq(Clusters) /\ Len(u) > 0
        BY DEF IInv, NoSharing, WellFormed
      <4>4. PICK k \in 1..Len(u) : r = SubSeq(u, 1, k)
        BY <4>2 DEF IsStartOf
      <4>5. u[1] = ch[1]
        BY <4>1, <4>3, <4>4, StartOfChain
      <4>6. u = ch
        BY <1>1, <4>3, <4>5, OnePlace DEF IInv, NoSharing
      <4>7. IsStartOf(s, t)
        BY <1>1, <2>1, <2>2, <4>1, <4>4, <4>6, LimitedStart
      <4> QED BY <2>4, <4>7
    <3> QED BY <3>1, <3>2 DEF Keep, ShortenTo
  <2>7. Range(t) \subseteq {ch[i] : i \in 1..n}
    <3>1. \A x : x \in Range(t) <=> \E i \in 1..Len(t) : x = t[i]
      BY <2>3, RangeOfSeq
    <3> QED BY <2>3, <3>1
  <2> QED BY <2>4, <2>5, <2>6, <2>7 DEF SyncedInUse
<1> QED BY <1>2, <1>3

\* Freeing all or some of the clusters given up.
LEMMA CutStep ==
  ASSUME IInv, NEW ch \in chains, NEW n \in 0..(Len(ch) - 1),
         Cut(ch, n) \/ CutFailed(ch, n)
  PROVE  IInv'
<1>1. Keep(ch, n) /\ free' \subseteq free \cup {ch[i] : i \in (n + 1)..Len(ch)}
  BY DEF Cut, CutFailed
<1>2. ch \in Seq(Clusters) /\ \A i, j \in 1..Len(ch) : ch[i] = ch[j] => i = j
  BY DEF IInv, NoSharing, WellFormed
<1>3. /\ NoSharing' /\ SyncedInUse'
      /\ \A s \in chains' : \/ s \in chains \ {ch}
                            \/ Range(s) \subseteq {ch[i] : i \in 1..n}
  BY <1>1, KeepStep
<1>4. \A x : x \in Range(ch) <=> \E i \in 1..Len(ch) : x = ch[i]
  BY <1>2, RangeOfSeq
<1>5. \A c \in free : c \in Clusters /\ \A s \in chains : c \notin Range(s)
  BY DEF IInv, NoneFreeInUse, Unused
<1>6. ASSUME NEW c \in free' PROVE c \in Clusters /\ \A s \in chains' : c \notin Range(s)
  <2>1. CASE c \in free
    <3>1. \A i \in 1..n : c # ch[i]
      BY <1>2, <1>4, <1>5, <2>1
    <3> QED BY <1>3, <1>5, <2>1, <3>1
  <2>2. CASE \E i \in (n + 1)..Len(ch) : c = ch[i]
    <3>1. PICK i \in (n + 1)..Len(ch) : c = ch[i]
      BY <2>2
    <3>2. i \in 1..Len(ch) /\ c \in Clusters /\ c \in Range(ch)
      BY <1>2, <1>4, <3>1
    <3>3. \A j \in 1..n : c # ch[j]
      BY <1>2, <3>1, <3>2
    <3>4. \A s \in chains \ {ch} : c \notin Range(s)
      BY <3>2 DEF IInv, NoSharing, WellFormed
    <3> QED BY <1>3, <3>2, <3>3, <3>4
  <2> QED BY <1>1, <2>1, <2>2
<1>7. NoneFreeInUse'
  BY <1>6 DEF NoneFreeInUse, Unused
<1> QED BY <1>3, <1>7 DEF IInv

\* Mounting again after a crash.
LEMMA SurviveStep == ASSUME NEW kept, Survive(kept) PROVE IInv'
<1>1. WellFormed(chains') /\ synced' = chains' /\ free' \subseteq Unused(chains')
  BY DEF Survive
<1>2. ASSUME NEW s \in synced' PROVE \E u \in chains' : IsStartOf(s, u)
  <2>1. s \in chains' /\ s \in Seq(Clusters) /\ Len(s) > 0
    BY <1>1 DEF WellFormed
  <2> QED BY <2>1, StartOfItself
<1> QED BY <1>1, <1>2 DEF IInv, NoSharing, NoneFreeInUse, SyncedInUse, Unused

LEMMA NextIInv == IInv /\ [Next]_vars => IInv'
<1> SUFFICES ASSUME IInv, [Next]_vars PROVE IInv'
  OBVIOUS
<1>1. CASE Create
  BY <1>1, CreateStep
<1>2. ASSUME NEW ch \in chains, Stretch(ch) PROVE IInv'
  BY <1>2, StretchStep
<1>3. ASSUME NEW ch \in chains, NEW n \in 0..(Len(ch) - 1), Cut(ch, n) \/ CutFailed(ch, n)
      PROVE  IInv'
  BY <1>3, CutStep
<1>4. CASE Lose
  BY <1>4 DEF Lose, IInv, NoSharing, NoneFreeInUse, SyncedInUse, Unused
<1>5. CASE Sync
  <2>1. \A s \in chains : IsStartOf(s, s)
    BY StartOfItself DEF IInv, NoSharing, WellFormed
  <2> QED BY <1>5, <2>1 DEF Sync, IInv, NoSharing, NoneFreeInUse, SyncedInUse, Unused
<1>6. CASE Crash
  BY <1>6, SurviveStep DEF Crash
<1>7. CASE UNCHANGED vars
  BY <1>7 DEF vars, IInv, NoSharing, NoneFreeInUse, SyncedInUse, Unused
<1> QED BY <1>1, <1>2, <1>3, <1>4, <1>5, <1>6, <1>7 DEF Next

----------------------------------------------------------------------------
\* The invariant always holds.
LEMMA AlwaysIInv ==
  ASSUME Roots \in SUBSET Clusters
  PROVE  Spec => []IInv
<1>1. Init => IInv  BY InitIInv
<1> QED BY <1>1, NextIInv, PTL DEF Spec

\* No cluster gets two owners, however create_chain and remove_chain of ff.c
\* fail and wherever a crash stops them.
THEOREM OneOwnerPerCluster ==
  ASSUME Roots \in SUBSET Clusters
  PROVE  Spec => []NoSharing
<1>1. IInv => NoSharing
  BY DEF IInv
<1>2. Spec => []IInv  BY AlwaysIInv
<1> QED BY <1>1, <1>2, PTL

\* No cluster that a file or directory leads to is taken as free by create_chain.
THEOREM FreeIsUnused ==
  ASSUME Roots \in SUBSET Clusters
  PROVE  Spec => []NoneFreeInUse
<1>1. IInv => NoneFreeInUse
  BY DEF IInv
<1>2. Spec => []IInv  BY AlwaysIInv
<1> QED BY <1>1, <1>2, PTL

\* What sync_fs promised to keep is always the start of a chain still in use.
THEOREM SyncedIsKept ==
  ASSUME Roots \in SUBSET Clusters
  PROVE  Spec => []SyncedInUse
<1>1. IInv => SyncedInUse
  BY DEF IInv
<1>2. Spec => []IInv  BY AlwaysIInv
<1> QED BY <1>1, <1>2, PTL
=============================================================================
