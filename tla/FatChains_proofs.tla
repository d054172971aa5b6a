-------------------------- MODULE FatChains_proofs --------------------------
(***************************************************************************)
(* Whatever access of a call fails and wherever the machine stops, the FAT *)
(* leads through the chains of FatChains, and its calls implement          *)
(* ClusterPool, for a volume of any size.                                  *)
(***************************************************************************)
EXTENDS FatChains, FatFs_proofs

----------------------------------------------------------------------------
(* Chains.                                                                 *)

\* No cluster is in two places.
Disjoint(C) ==
  /\ C \subseteq Seq(Clusters)
  /\ \A s \in C : Len(s) > 0
  /\ \A s, t \in C : \A i \in 1..Len(s), j \in 1..Len(t) : s[i] = t[j] => s = t /\ i = j

\* The clusters of a chain by their places.
LEMMA RangeOfChain ==
  ASSUME NEW s \in Seq(Clusters)
  PROVE  \A x : x \in Pool!Range(s) <=> \E i \in 1..Len(s) : x = s[i]
<1>1. DOMAIN s = 1..Len(s)
  OBVIOUS
<1>2. \A x : x \in Pool!Range(s) <=> \E i \in DOMAIN s : x = s[i]
  BY Zenon DEF Pool!Range
<1> QED  BY <1>1, <1>2

\* It is what ClusterPool asks of chains.
LEMMA ApartIsWellFormed ==
  ASSUME NEW C
  PROVE  Pool!WellFormed(C) <=> Disjoint(C)
<1>1. ASSUME Pool!WellFormed(C) PROVE Disjoint(C)
  <2>1. /\ C \subseteq Seq(Clusters) /\ \A s \in C : Len(s) > 0
        /\ \A s \in C : \A i, j \in 1..Len(s) : s[i] = s[j] => i = j
        /\ \A s, t \in C : s # t => Pool!Range(s) \cap Pool!Range(t) = {}
    BY <1>1 DEF Pool!WellFormed
  <2>2. ASSUME NEW s \in C, NEW t \in C, NEW i \in 1..Len(s), NEW j \in 1..Len(t), s[i] = t[j]
        PROVE  s = t /\ i = j
    <3>1. s[i] \in Pool!Range(s) /\ s[i] \in Pool!Range(t)  BY <2>1, <2>2, RangeOfChain
    <3>2. s = t  BY <2>1, <3>1
    <3> QED  BY <2>1, <2>2, <3>2
  <2> QED  BY <2>1, <2>2 DEF Disjoint
<1>2. ASSUME Disjoint(C) PROVE Pool!WellFormed(C)
  <2>1. C \in SUBSET Seq(Clusters)  BY <1>2 DEF Disjoint
  <2>2. \A s \in C : Len(s) > 0 /\ \A i, j \in 1..Len(s) : s[i] = s[j] => i = j
    BY <1>2 DEF Disjoint
  <2>3. ASSUME NEW s \in C, NEW t \in C, s # t PROVE Pool!Range(s) \cap Pool!Range(t) = {}
    <3> SUFFICES ASSUME NEW x, x \in Pool!Range(s), x \in Pool!Range(t) PROVE FALSE
      OBVIOUS
    <3>1. PICK i \in 1..Len(s), j \in 1..Len(t) : x = s[i] /\ x = t[j]
      BY <2>1, RangeOfChain
    <3>2. s[i] = t[j]  BY <3>1
    <3>3. s = t  BY <1>2, <3>2 DEF Disjoint
    <3> QED  BY <2>3, <3>3
  <2> QED  BY <2>1, <2>2, <2>3 DEF Pool!WellFormed
<1> QED  BY <1>1, <1>2

\* What is in none of the chains.
LEMMA UnusedIs ==
  ASSUME NEW C, C \subseteq Seq(Clusters)
  PROVE  \A c : c \in Pool!Unused(C) <=> c \in Clusters /\ \A s \in C : \A i \in 1..Len(s) : s[i] # c
<1>1. \A c, s : s \in C => (c \notin Pool!Range(s) <=> \A i \in 1..Len(s) : s[i] # c)
  BY RangeOfChain
<1> QED  BY <1>1 DEF Pool!Unused

\* A start of a chain.
LEMMA StartIs ==
  ASSUME NEW e \in Seq(Clusters), NEW s, Pool!IsStartOf(s, e)
  PROVE  /\ s \in Seq(Clusters) /\ Len(s) \in 1..Len(e)
         /\ \A i \in 1..Len(s) : s[i] = e[i]
         /\ s = SubSeq(e, 1, Len(s)) /\ 1 \in 1..Len(s) /\ s[1] = e[1]
<1>1. PICK n \in 1..Len(e) : s = SubSeq(e, 1, n)  BY DEF Pool!IsStartOf
<1>2. s \in Seq(Clusters) /\ Len(s) = n /\ \A i \in 1..n : s[i] = e[i]  BY <1>1
<1>3. 1 \in 1..n  OBVIOUS
<1> QED  BY <1>1, <1>2, <1>3

\* Every chain of K is the start of one of C.
Starts(K, C) == \A s \in K : \E e \in C : Pool!IsStartOf(s, e)

\* A chain is a start of itself.
LEMMA StartsItself ==
  ASSUME NEW C, Disjoint(C)
  PROVE  Starts(C, C)
<1>1. ASSUME NEW e \in C PROVE Pool!IsStartOf(e, e)
  <2>1. e \in Seq(Clusters) /\ Len(e) > 0  BY DEF Disjoint
  <2>2. Len(e) \in 1..Len(e) /\ e = SubSeq(e, 1, Len(e))  BY <2>1
  <2> QED  BY <2>2 DEF Pool!IsStartOf
<1> QED  BY <1>1 DEF Starts


\* The FAT leads through the chains of C.
Leads(F, C) ==
  \A ch \in C : \A i \in 1..Len(ch) : F[ch[i]] = IF i < Len(ch) THEN ch[i + 1] ELSE LastLink

\* The FATs in which the chains of K, or longer ones, are found.
Keeps(K) == {F \in Fats : Reserved(F) /\ \E C : Disjoint(C) /\ Leads(F, C) /\ Starts(K, C)}

\* Every chain of C is a chain of the FAT.
LEMMA EachIsPath ==
  ASSUME NEW C, Disjoint(C), NEW F, Leads(F, C), NEW e \in C
  PROVE  Path(F, e)
<1>1. e \in Seq(Clusters) /\ Len(e) > 0  BY DEF Disjoint
<1>2. \A i, j \in 1..Len(e) : e[i] = e[j] => i = j  BY DEF Disjoint
<1>3. \A i \in 1..Len(e) : F[e[i]] = IF i < Len(e) THEN e[i + 1] ELSE LastLink  BY DEF Leads
<1> QED  BY <1>1, <1>2, <1>3 DEF Path

\* No cluster of a chain is free.
LEMMA NoneFree ==
  ASSUME NEW C, Disjoint(C), NEW F, Leads(F, C)
  PROVE  /\ \A e \in C : \A i \in 1..Len(e) : e[i] \in Clusters /\ F[e[i]] # 0
         /\ FreeOf(F) \subseteq Pool!Unused(C)
<1>1. ASSUME NEW e \in C, NEW i \in 1..Len(e) PROVE e[i] \in Clusters /\ F[e[i]] # 0
  <2>1. e \in Seq(Clusters)  BY DEF Disjoint
  <2>2. e[i] \in Clusters /\ (i < Len(e) => e[i + 1] \in Clusters)  BY <2>1
  <2>3. 0 \notin Clusters /\ LastLink # 0  BY Numbers
  <2>4. F[e[i]] = IF i < Len(e) THEN e[i + 1] ELSE LastLink  BY DEF Leads
  <2> QED  BY <2>2, <2>3, <2>4
<1>2. C \subseteq Seq(Clusters)  BY DEF Disjoint
<1> QED  BY <1>1, <1>2, UnusedIs DEF FreeOf

\* Fewer chains, or shorter ones, are kept by more FATs.
LEMMA KeepsMore ==
  ASSUME NEW K, NEW L, \A C : Disjoint(C) /\ Starts(K, C) => Starts(L, C)
  PROVE  Keeps(K) \subseteq Keeps(L)
BY DEF Keeps

----------------------------------------------------------------------------
(* A chain is added, stretched, dropped or cut.                            *)

\* A chain t of other clusters beside some of the chains.
LEMMA ApartWith ==
  ASSUME NEW C, Disjoint(C), NEW R \in SUBSET C, NEW t \in Seq(Clusters), Len(t) > 0,
         \A i, j \in 1..Len(t) : t[i] = t[j] => i = j,
         \A e \in R : \A i \in 1..Len(e), j \in 1..Len(t) : e[i] # t[j]
  PROVE  Disjoint(R \cup {t})
<1>1. R \cup {t} \subseteq Seq(Clusters) /\ \A s \in R \cup {t} : Len(s) > 0  BY DEF Disjoint
<1>2. ASSUME NEW a \in R \cup {t}, NEW b \in R \cup {t}, NEW i \in 1..Len(a), NEW j \in 1..Len(b),
             a[i] = b[j]
      PROVE  a = b /\ i = j
  <2>1. CASE a \in R /\ b \in R
    BY <1>2, <2>1 DEF Disjoint
  <2>2. CASE a = t /\ b = t
    BY <1>2, <2>2
  <2>3. CASE a \in R /\ b = t
    BY <1>2, <2>3
  <2>4. CASE a = t /\ b \in R
    BY <1>2, <2>4
  <2> QED  BY <2>1, <2>2, <2>3, <2>4
<1> QED  BY <1>1, <1>2 DEF Disjoint

\* Chains are left out.
LEMMA ApartLess ==
  ASSUME NEW C, Disjoint(C), NEW R \in SUBSET C
  PROVE  Disjoint(R)
BY DEF Disjoint

\* Every chain of K that is a start of one in C is a start of one in D.
LEMMA StartsIn ==
  ASSUME NEW C, NEW D, NEW K, Starts(K, C),
         \A s \in K : \A e \in C : Pool!IsStartOf(s, e) => \E g \in D : Pool!IsStartOf(s, g)
  PROVE  Starts(K, D)
BY DEF Starts

\* What the chain ch is when the free cluster n is behind it.
IsStretched(C, ch, n, t, D) == t = Append(ch, n) /\ D = (C \ {ch}) \cup {t}

\* The chains with one of them stretched.
LEMMA ChainExtended ==
  ASSUME NEW C, Disjoint(C), NEW F \in Fats, Leads(F, C), NEW ch \in C,
         NEW n \in Clusters, F[n] = 0, NEW t, NEW D, IsStretched(C, ch, n, t, D)
  PROVE  /\ Disjoint(D) /\ Leads(Linked(F, ch[Len(ch)], n), D)
         /\ \A K : Starts(K, C) => Starts(K, D)
<1> DEFINE L == Len(ch)
           H == Linked(F, ch[L], n)
<1>1. ch \in Seq(Clusters) /\ L \in Nat /\ L > 0 /\ L \in 1..L  BY DEF Disjoint
<1>2. t \in Seq(Clusters) /\ Len(t) = L + 1 /\ t[L + 1] = n /\ \A i \in 1..L : t[i] = ch[i]
  BY <1>1 DEF IsStretched
<1>3. \A e \in C : \A i \in 1..Len(e) : e[i] # n  BY NoneFree
<1>4. D = (C \ {ch}) \cup {t}  BY DEF IsStretched
<1>5. Disjoint(D)
  <2>1. ASSUME NEW i \in 1..Len(t), NEW j \in 1..Len(t), t[i] = t[j] PROVE i = j
    <3>1. CASE i \in 1..L /\ j \in 1..L
      BY <1>2, <2>1, <3>1 DEF Disjoint
    <3>2. CASE i = L + 1 /\ j \in 1..L
      BY <1>2, <1>3, <2>1, <3>2
    <3>3. CASE i \in 1..L /\ j = L + 1
      BY <1>2, <1>3, <2>1, <3>3
    <3> QED  BY <1>1, <1>2, <3>1, <3>2, <3>3
  <2>2. ASSUME NEW e \in C \ {ch}, NEW i \in 1..Len(e), NEW j \in 1..Len(t) PROVE e[i] # t[j]
    <3>1. CASE j = L + 1
      BY <1>2, <1>3, <3>1
    <3>2. CASE j \in 1..L
      BY <1>2, <3>2 DEF Disjoint
    <3> QED  BY <1>1, <1>2, <3>1, <3>2
  <2>3. Len(t) > 0  BY <1>1, <1>2
  <2> QED  BY <1>2, <1>4, <2>1, <2>2, <2>3, ApartWith
<1>6. \A x \in FatEntries : H[x] = IF x = n THEN LastLink ELSE IF x = ch[L] /\ ch[L] # 0 THEN n ELSE F[x]
  BY DEF Linked
<1>7. Leads(H, D)
  <2>1. ASSUME NEW e \in C \ {ch}, NEW i \in 1..Len(e)
        PROVE  H[e[i]] = IF i < Len(e) THEN e[i + 1] ELSE LastLink
    <3>1. e[i] \in FatEntries /\ e[i] # n  BY <1>3, NoneFree, Numbers
    <3>2. e[i] # ch[L]  BY <1>1 DEF Disjoint
    <3>3. H[e[i]] = F[e[i]]  BY <1>6, <3>1, <3>2
    <3> QED  BY <3>3 DEF Leads
  <2>2. ASSUME NEW i \in 1..Len(t)
        PROVE  H[t[i]] = IF i < Len(t) THEN t[i + 1] ELSE LastLink
    <3>1. n \in FatEntries /\ \A j \in 1..L : ch[j] \in FatEntries /\ ch[j] # n /\ ch[j] # 0
      <4>1. 0 \notin Clusters  BY Numbers
      <4> QED  BY <1>1, <1>3, <4>1, Numbers
    <3>2. CASE i = L + 1
      BY <1>1, <1>2, <1>6, <3>1, <3>2
    <3>3. CASE i = L
      <4>1. t[i] = ch[L] /\ t[i + 1] = n /\ i < Len(t)  BY <1>1, <1>2, <3>3
      <4>2. H[ch[L]] = n  BY <1>1, <1>6, <3>1
      <4> QED  BY <4>1, <4>2
    <3>4. CASE i < L
      <4>0. i \in 1..L /\ i + 1 \in 1..L  BY <1>1, <1>2, <3>4
      <4>1. t[i] = ch[i] /\ t[i + 1] = ch[i + 1] /\ i < Len(t)  BY <1>1, <1>2, <3>4, <4>0
      <4>2. ch[i] # ch[L]  BY <1>1, <3>4, <4>0 DEF Disjoint
      <4>3. H[ch[i]] = F[ch[i]]  BY <1>6, <3>1, <4>0, <4>2
      <4>4. F[ch[i]] = ch[i + 1]  BY <3>4, <4>0 DEF Leads
      <4> QED  BY <4>1, <4>3, <4>4
    <3> QED  BY <1>1, <1>2, <3>2, <3>3, <3>4
  <2> QED  BY <1>4, <2>1, <2>2 DEF Leads
<1>8. ASSUME NEW K, Starts(K, C) PROVE Starts(K, D)
  <2>1. ASSUME NEW s \in K, NEW e \in C, Pool!IsStartOf(s, e)
        PROVE  \E g \in D : Pool!IsStartOf(s, g)
    <3>1. CASE e # ch
      BY <1>4, <2>1, <3>1
    <3>2. CASE e = ch
      <4>1. PICK k \in 1..L : s = SubSeq(ch, 1, k)  BY <2>1, <3>2 DEF Pool!IsStartOf
      <4>2. SubSeq(ch, 1, k) = SubSeq(t, 1, k)  BY <1>1, <1>2
      <4>3. k \in 1..Len(t)  BY <1>1, <1>2
      <4>4. Pool!IsStartOf(s, t)  BY <4>1, <4>2, <4>3 DEF Pool!IsStartOf
      <4> QED  BY <1>4, <4>4
    <3> QED  BY <3>1, <3>2
  <2> QED  BY <1>8, <2>1, StartsIn
<1> QED  BY <1>5, <1>7, <1>8

\* What marking the free cluster n as an end changes, or changes not.
LEMMA ChainMarked ==
  ASSUME NEW C, Disjoint(C), NEW F \in Fats, Leads(F, C), NEW n \in Clusters, F[n] = 0
  PROVE  Leads(Linked(F, 0, n), C)
<1> DEFINE H == Linked(F, 0, n)
<1>1. \A x \in FatEntries : x # n => H[x] = F[x]  BY DEF Linked
<1>2. ASSUME NEW e \in C, NEW i \in 1..Len(e)
      PROVE  H[e[i]] = IF i < Len(e) THEN e[i + 1] ELSE LastLink
  <2>1. e[i] \in FatEntries /\ e[i] # n  BY NoneFree, Numbers
  <2>2. H[e[i]] = F[e[i]]  BY <1>1, <2>1
  <2> QED  BY <2>2 DEF Leads
<1> QED  BY <1>2 DEF Leads

\* A chain of the free cluster n.
IsAdded(C, n, D) == D = C \cup {<<n>>}

\* The chains with one more of them.
LEMMA ChainAdded ==
  ASSUME NEW C, Disjoint(C), NEW F \in Fats, Leads(F, C),
         NEW n \in Clusters, F[n] = 0, NEW D, IsAdded(C, n, D)
  PROVE  /\ Disjoint(D) /\ Leads(Linked(F, 0, n), D)
         /\ \A K : Starts(K, C) => Starts(K, D)
<1> DEFINE t == <<n>>
<1>1. t \in Seq(Clusters) /\ Len(t) = 1 /\ t[1] = n  OBVIOUS
<1> HIDE DEF t
<1>2. D = C \cup {t}  BY DEF IsAdded, t
<1>3. \A e \in C : \A i \in 1..Len(e) : e[i] # n  BY NoneFree
<1>4. Disjoint(D)
  <2>1. \A e \in C : \A i \in 1..Len(e), j \in 1..Len(t) : e[i] # t[j]  BY <1>1, <1>3
  <2>2. \A i, j \in 1..Len(t) : t[i] = t[j] => i = j  BY <1>1
  <2>3. Len(t) > 0  BY <1>1
  <2> QED  BY <1>1, <1>2, <2>1, <2>2, <2>3, ApartWith
<1>5. Leads(Linked(F, 0, n), D)
  <2>1. Leads(Linked(F, 0, n), C)  BY ChainMarked
  <2>2. ASSUME NEW i \in 1..Len(t)
        PROVE  Linked(F, 0, n)[t[i]] = IF i < Len(t) THEN t[i + 1] ELSE LastLink
    <3>1. i = 1 /\ t[i] = n /\ n \in FatEntries  BY <1>1, Numbers
    <3>2. Linked(F, 0, n)[n] = LastLink  BY <3>1 DEF Linked
    <3> QED  BY <1>1, <3>1, <3>2
  <2> QED  BY <1>2, <2>1, <2>2 DEF Leads
<1>6. \A K : Starts(K, C) => Starts(K, D)
  BY <1>2 DEF Starts
<1> QED  BY <1>4, <1>5, <1>6

\* The FAT with the first k clusters of ch free.
IsFreed(F, ch, k, H) == H = Zeroed(F, Firsts(ch, k))

\* Chains beside the one of which clusters are freed.
LEMMA OthersLead ==
  ASSUME NEW C, Disjoint(C), NEW F \in Fats, Leads(F, C), NEW ch \in C, NEW R \in SUBSET (C \ {ch}),
         NEW A, A \subseteq {ch[i] : i \in 1..Len(ch)}
  PROVE  Leads(Zeroed(F, A), R)
<1> DEFINE H == Zeroed(F, A)
<1>1. ASSUME NEW e \in R, NEW i \in 1..Len(e)
      PROVE  H[e[i]] = IF i < Len(e) THEN e[i + 1] ELSE LastLink
  <2>1. e \in C /\ e # ch  OBVIOUS
  <2>2. e[i] \in FatEntries  BY <2>1, NoneFree, Numbers
  <2>3. e[i] \notin A  BY <2>1 DEF Disjoint
  <2>4. H[e[i]] = F[e[i]]  BY <2>2, <2>3 DEF Zeroed
  <2> QED  BY <2>1, <2>4 DEF Leads
<1> QED  BY <1>1 DEF Leads

\* Entries that are no cluster's are not freed.
LEMMA ZeroedFat ==
  ASSUME NEW F \in Fats, NEW A, A \subseteq Clusters
  PROVE  /\ Zeroed(F, A) \in Fats /\ (Reserved(F) => Reserved(Zeroed(F, A)))
         /\ FreeOf(Zeroed(F, A)) = FreeOf(F) \cup A
<1>1. Zeroed(F, A) \in Fats  BY Numbers DEF Zeroed, Fats
<1>2. 0 \in FatEntries /\ 1 \in FatEntries /\ 0 \notin Clusters /\ 1 \notin Clusters
  BY Numbers DEF FatEntries
<1>3. Reserved(F) => Reserved(Zeroed(F, A))  BY <1>2 DEF Reserved, Zeroed
<1>4. FreeOf(Zeroed(F, A)) = FreeOf(F) \cup A
  <2>1. \A c \in Clusters : Zeroed(F, A)[c] = IF c \in A THEN 0 ELSE F[c]
    BY Numbers DEF Zeroed
  <2> QED  BY <2>1 DEF FreeOf
<1> QED  BY <1>1, <1>3, <1>4

\* Neither are they linked.
LEMMA LinkedFat ==
  ASSUME NEW F \in Fats, NEW n \in Clusters, NEW c \in Clusters \cup {0}, c # 0 => F[c] # 0
  PROVE  /\ Linked(F, c, n) \in Fats /\ (Reserved(F) => Reserved(Linked(F, c, n)))
         /\ FreeOf(Linked(F, c, n)) = FreeOf(F) \ {n}
<1>0. n \in Link /\ LastLink \in Link /\ LastLink # 0 /\ n # 0  BY Numbers
<1>1. Linked(F, c, n) \in Fats  BY <1>0 DEF Linked, Fats
<1>2. 0 \in FatEntries /\ 1 \in FatEntries /\ 0 \notin Clusters /\ 1 \notin Clusters
  BY Numbers DEF FatEntries
<1>3. Reserved(F) => Reserved(Linked(F, c, n))
  <2>1. Linked(F, c, n)[0] = F[0]  BY <1>2 DEF Linked
  <2>2. Linked(F, c, n)[1] = F[1]  BY <1>2 DEF Linked
  <2> QED  BY <2>1, <2>2 DEF Reserved
<1>4. FreeOf(Linked(F, c, n)) = FreeOf(F) \ {n}
  <2>1. \A x \in Clusters : Linked(F, c, n)[x] =
                              IF x = n THEN LastLink ELSE IF x = c /\ c # 0 THEN n ELSE F[x]
    BY Numbers DEF Linked
  <2> QED  BY <1>0, <2>1 DEF FreeOf
<1> QED  BY <1>1, <1>3, <1>4

\* A chain that is given up must not survive.
LEMMA StartsBeside ==
  ASSUME NEW C, Disjoint(C), NEW ch \in C, Starts(synced, C)
  PROVE  Starts(Pool!ShortenTo(ch, 0), C \ {ch})
<1>1. Pool!ShortenTo(ch, 0) = {s \in synced : s[1] # ch[1]}
  BY DEF Pool!ShortenTo
<1>2. ASSUME NEW s \in synced, s[1] # ch[1] PROVE \E e \in C \ {ch} : Pool!IsStartOf(s, e)
  <2>1. PICK e \in C : Pool!IsStartOf(s, e)  BY DEF Starts
  <2>2. e \in Seq(Clusters)  BY DEF Disjoint
  <2>3. s[1] = e[1]  BY <2>1, <2>2, StartIs
  <2> QED  BY <1>2, <2>1, <2>3
<1> QED  BY <1>1, <1>2 DEF Starts

\* The chain ch is cut behind its cluster i: t is what is left of it and u what is not.
IsCut(C, ch, i, t, u, D) ==
  /\ t = SubSeq(ch, 1, i) /\ u = SubSeq(ch, i + 1, Len(ch))
  /\ D = (C \ {ch}) \cup {t}

\* The two parts of it.
LEMMA TwoParts ==
  ASSUME NEW ch \in Seq(Clusters), NEW i \in 1..(Len(ch) - 1),
         NEW C, NEW t, NEW u, NEW D, IsCut(C, ch, i, t, u, D)
  PROVE  /\ t \in Seq(Clusters) /\ Len(t) = i /\ \A j \in 1..i : t[j] = ch[j]
         /\ u \in Seq(Clusters) /\ Len(u) = Len(ch) - i
         /\ \A j \in 1..(Len(ch) - i) : u[j] = ch[j + i]
         /\ i \in 1..Len(ch) /\ i + 1 \in 1..Len(ch) /\ Len(ch) \in Nat /\ i \in Nat
<1>1. t = SubSeq(ch, 1, i) /\ u = SubSeq(ch, i + 1, Len(ch))  BY DEF IsCut
<1>2. i \in Nat /\ Len(ch) \in Nat /\ 1 <= i /\ i < Len(ch)  OBVIOUS
<1>3. t \in Seq(Clusters) /\ Len(t) = i /\ \A j \in 1..i : t[j] = ch[j]  BY <1>1
<1>4. u \in Seq(Clusters) /\ Len(u) = Len(ch) - i
  BY <1>1, <1>2
<1>5. ASSUME NEW j \in 1..(Len(ch) - i) PROVE u[j] = ch[j + i]
  BY <1>1, <1>2
<1> QED  BY <1>2, <1>3, <1>4, <1>5

\* What must survive of a chain that is cut starts what is left of it.
LEMMA StartsCut ==
  ASSUME NEW C, Disjoint(C), NEW ch \in C, NEW i \in 1..(Len(ch) - 1), Starts(synced, C),
         NEW t, NEW u, NEW D, IsCut(C, ch, i, t, u, D)
  PROVE  Starts(Pool!ShortenTo(ch, i), D)
<1>0. ch \in Seq(Clusters)  BY DEF Disjoint
<1>1. /\ t \in Seq(Clusters) /\ Len(t) = i /\ \A j \in 1..i : t[j] = ch[j]
      /\ i \in 1..Len(ch) /\ Len(ch) \in Nat /\ i \in Nat
  BY <1>0, TwoParts
<1>2. D = (C \ {ch}) \cup {t} /\ t = SubSeq(ch, 1, i)  BY DEF IsCut
<1>3. ASSUME NEW s \in synced, s[1] # ch[1] PROVE \E e \in D : Pool!IsStartOf(s, e)
  <2>1. PICK e \in C : Pool!IsStartOf(s, e)  BY DEF Starts
  <2>2. e \in Seq(Clusters)  BY DEF Disjoint
  <2>3. s[1] = e[1]  BY <2>1, <2>2, StartIs
  <2> QED  BY <1>2, <1>3, <2>1, <2>3
<1>4. ASSUME NEW s \in synced, s[1] = ch[1] PROVE Pool!IsStartOf(Pool!Limit(s, i), t)
  <2>1. PICK e \in C : Pool!IsStartOf(s, e)  BY DEF Starts
  <2>2. e \in Seq(Clusters) /\ Len(e) > 0 /\ Len(ch) > 0  BY DEF Disjoint
  <2>3. s[1] = e[1]  BY <2>1, <2>2, StartIs
  <2>4. e = ch
    <3>1. 1 \in 1..Len(e) /\ 1 \in 1..Len(ch) /\ e[1] = ch[1]  BY <1>0, <1>4, <2>2, <2>3
    <3> QED  BY <3>1 DEF Disjoint
  <2>5. PICK k \in 1..Len(ch) : s = SubSeq(ch, 1, k)  BY <2>1, <2>4 DEF Pool!IsStartOf
  <2>6. Len(s) = k /\ k \in Nat  BY <1>0, <2>5
  <2>7. CASE k <= i
    <3>1. Pool!Limit(s, i) = s  BY <2>6, <2>7 DEF Pool!Limit
    <3>2. SubSeq(t, 1, k) = SubSeq(ch, 1, k)  BY <1>0, <1>1, <2>6, <2>7
    <3>3. k \in 1..Len(t)  BY <1>1, <2>6, <2>7
    <3> QED  BY <2>5, <3>1, <3>2, <3>3 DEF Pool!IsStartOf
  <2>8. CASE k > i
    <3>1. Pool!Limit(s, i) = SubSeq(s, 1, i)  BY <1>1, <2>6, <2>8 DEF Pool!Limit
    <3>2. SubSeq(s, 1, i) = SubSeq(t, 1, i)  BY <1>0, <1>1, <1>2, <2>5, <2>6, <2>8
    <3>3. i \in 1..Len(t)  BY <1>1
    <3> QED  BY <3>1, <3>2, <3>3 DEF Pool!IsStartOf
  <2> QED  BY <1>1, <2>6, <2>7, <2>8
<1>5. ASSUME NEW s \in Pool!ShortenTo(ch, i) PROVE \E e \in D : Pool!IsStartOf(s, e)
  <2>1. \/ s \in synced /\ s[1] # ch[1]
        \/ \E r \in synced : r[1] = ch[1] /\ s = Pool!Limit(r, i)
    BY DEF Pool!ShortenTo
  <2>2. t \in D  BY <1>2
  <2> QED  BY <1>3, <1>4, <2>1, <2>2
<1> QED  BY <1>5 DEF Starts

\* Everything that survives longer survives shorter.
LEMMA ShorterKept ==
  ASSUME NEW ch, NEW i \in Nat
  PROVE  Keeps(synced) \subseteq Keeps(Pool!ShortenTo(ch, i))
<1>1. ASSUME NEW C, Disjoint(C), Starts(synced, C) PROVE Starts(Pool!ShortenTo(ch, i), C)
  <2>1. ASSUME NEW r \in synced, i > 0 PROVE \E e \in C : Pool!IsStartOf(Pool!Limit(r, i), e)
    <3>1. PICK e \in C : Pool!IsStartOf(r, e)  BY <1>1 DEF Starts
    <3>2. e \in Seq(Clusters)  BY <1>1 DEF Disjoint
    <3>3. PICK k \in 1..Len(e) : r = SubSeq(e, 1, k)  BY <3>1 DEF Pool!IsStartOf
    <3>4. Len(r) = k /\ k \in Nat  BY <3>2, <3>3
    <3>5. CASE k <= i
      <4>1. Pool!Limit(r, i) = r  BY <3>4, <3>5 DEF Pool!Limit
      <4> QED  BY <3>1, <4>1
    <3>6. CASE k > i
      <4>1. Pool!Limit(r, i) = SubSeq(r, 1, i)  BY <3>4, <3>6 DEF Pool!Limit
      <4>2. SubSeq(r, 1, i) = SubSeq(e, 1, i)  BY <2>1, <3>2, <3>3, <3>4, <3>6
      <4>3. i \in 1..Len(e)  BY <2>1, <3>2, <3>3, <3>6
      <4> QED  BY <4>1, <4>2, <4>3 DEF Pool!IsStartOf
    <3> QED  BY <3>4, <3>5, <3>6
  <2>2. ASSUME NEW s \in Pool!ShortenTo(ch, i) PROVE \E e \in C : Pool!IsStartOf(s, e)
    <3>1. s \in synced \/ \E r \in synced : i > 0 /\ s = Pool!Limit(r, i)
      BY DEF Pool!ShortenTo
    <3> QED  BY <1>1, <2>1, <3>1 DEF Starts
  <2> QED  BY <2>2 DEF Starts
<1> QED  BY <1>1, KeepsMore

\* The FAT F with the cluster c as an end.
IsEnded(F, c, H) == H = [F EXCEPT ![c] = LastLink]

\* The first k clusters behind the cut.
LEMMA FirstsBehind ==
  ASSUME NEW ch \in Seq(Clusters), NEW i \in 1..(Len(ch) - 1),
         NEW C, NEW t, NEW u, NEW D, IsCut(C, ch, i, t, u, D), NEW k \in 0..Len(u)
  PROVE  /\ Firsts(u, k) \subseteq {ch[j] : j \in (i + 1)..Len(ch)}
         /\ k = Len(u) => Firsts(u, k) = {ch[j] : j \in (i + 1)..Len(ch)}
<1>1. /\ Len(u) = Len(ch) - i /\ \A j \in 1..(Len(ch) - i) : u[j] = ch[j + i]
      /\ Len(ch) \in Nat /\ i \in Nat
  BY TwoParts
<1>2. ASSUME NEW x \in Firsts(u, k) PROVE x \in {ch[j] : j \in (i + 1)..Len(ch)}
  <2>1. PICK j \in 1..k : x = u[j]  BY DEF Firsts
  <2>2. j \in 1..(Len(ch) - i) /\ j + i \in (i + 1)..Len(ch)  BY <1>1
  <2> QED  BY <1>1, <2>1, <2>2
<1>3. ASSUME k = Len(u), NEW j \in (i + 1)..Len(ch) PROVE ch[j] \in Firsts(u, k)
  <2>1. j - i \in 1..(Len(ch) - i) /\ j - i \in 1..k /\ (j - i) + i = j  BY <1>1, <1>3
  <2>2. u[j - i] = ch[j]  BY <1>1, <2>1
  <2> QED  BY <2>1, <2>2 DEF Firsts
<1> QED  BY <1>2, <1>3

\* Whatever clusters behind the cut of ch are freed, the FAT H leads through the chains of D.
LeadsCut(H, ch, i, D) ==
  \A A : A \subseteq {ch[j] : j \in (i + 1)..Len(ch)} => Leads(Zeroed(H, A), D)

\* The chains with one of them cut, and the clusters behind the cut, which are freed.
LEMMA ChainCut ==
  ASSUME NEW C, Disjoint(C), NEW F \in Fats, Leads(F, C), NEW ch \in C,
         NEW i \in 1..(Len(ch) - 1), NEW t, NEW u, NEW D, IsCut(C, ch, i, t, u, D),
         NEW H, IsEnded(F, ch[i], H)
  PROVE  /\ H \in Fats /\ (Reserved(F) => Reserved(H)) /\ FreeOf(H) = FreeOf(F)
         /\ Disjoint(D) /\ Path(H, u)
         /\ LeadsCut(H, ch, i, D)
<1> DEFINE c == ch[i]
<1>0. ch \in Seq(Clusters)  BY DEF Disjoint
<1>1. /\ t \in Seq(Clusters) /\ Len(t) = i /\ \A j \in 1..i : t[j] = ch[j]
      /\ u \in Seq(Clusters) /\ Len(u) = Len(ch) - i
      /\ \A j \in 1..(Len(ch) - i) : u[j] = ch[j + i]
      /\ i \in 1..Len(ch) /\ i + 1 \in 1..Len(ch) /\ Len(ch) \in Nat /\ i \in Nat
  BY <1>0, TwoParts
<1>2. D = (C \ {ch}) \cup {t}  BY DEF IsCut
<1>3. c \in Clusters /\ c \in FatEntries /\ F[c] # 0 /\ LastLink \in Link /\ LastLink # 0
  BY <1>1, NoneFree, Numbers
<1>4. \A x \in FatEntries : H[x] = IF x = c THEN LastLink ELSE F[x]
  BY DEF IsEnded, Fats
<1>5. H \in Fats  BY <1>3 DEF IsEnded, Fats
<1>6. Reserved(F) => Reserved(H)
  <2>1. 0 \in FatEntries /\ 1 \in FatEntries /\ c # 0 /\ c # 1  BY <1>3, Numbers DEF FatEntries
  <2> QED  BY <1>4, <2>1 DEF Reserved
<1>7. FreeOf(H) = FreeOf(F)
  BY <1>3, NoneFreed DEF IsEnded
<1>8. \A j, k \in 1..Len(ch) : ch[j] = ch[k] => j = k  BY DEF Disjoint
<1>9. Disjoint(D)
  <2>1. \A e \in C \ {ch} : \A j \in 1..Len(e), k \in 1..Len(t) : e[j] # t[k]
    <3> SUFFICES ASSUME NEW e \in C \ {ch}, NEW j \in 1..Len(e), NEW k \in 1..Len(t), e[j] = t[k]
                 PROVE  FALSE
      OBVIOUS
    <3>1. k \in 1..i /\ k \in 1..Len(ch)  BY <1>1
    <3>2. e[j] = ch[k]  BY <1>1, <3>1
    <3> QED  BY <3>1, <3>2 DEF Disjoint
  <2>2. \A j, k \in 1..Len(t) : t[j] = t[k] => j = k
    <3> SUFFICES ASSUME NEW j \in 1..Len(t), NEW k \in 1..Len(t), t[j] = t[k] PROVE j = k
      OBVIOUS
    <3>1. j \in 1..Len(ch) /\ k \in 1..Len(ch) /\ ch[j] = ch[k]  BY <1>1
    <3> QED  BY <1>8, <3>1
  <2>3. Len(t) > 0  BY <1>1
  <2> QED  BY <1>1, <1>2, <2>1, <2>2, <2>3, ApartWith
<1>10. \A j \in 1..Len(ch) : F[ch[j]] = IF j < Len(ch) THEN ch[j + 1] ELSE LastLink
  BY DEF Leads
<1>11. Path(H, u)
  <2>1. \A j, k \in 1..Len(u) : u[j] = u[k] => j = k
    <3> SUFFICES ASSUME NEW j \in 1..Len(u), NEW k \in 1..Len(u), u[j] = u[k] PROVE j = k
      OBVIOUS
    <3>1. j \in 1..(Len(ch) - i) /\ k \in 1..(Len(ch) - i)  BY <1>1
    <3>2. j + i \in 1..Len(ch) /\ k + i \in 1..Len(ch)  BY <1>1, <3>1
    <3>3. ch[j + i] = ch[k + i]  BY <1>1, <3>1
    <3>4. j + i = k + i  BY <1>8, <3>2, <3>3
    <3> QED  BY <1>1, <3>4
  <2>2. ASSUME NEW j \in 1..Len(u)
        PROVE  H[u[j]] = IF j < Len(u) THEN u[j + 1] ELSE LastLink
    <3>1. u[j] = ch[j + i] /\ j + i \in 1..Len(ch) /\ j + i # i  BY <1>1
    <3>2. u[j] # c /\ u[j] \in FatEntries  BY <1>1, <1>8, <3>1, Numbers
    <3>3. H[u[j]] = F[ch[j + i]]  BY <1>4, <3>1, <3>2
    <3>4. CASE j < Len(u)
      <4>1. j + 1 \in 1..(Len(ch) - i) /\ (j + 1) + i = (j + i) + 1 /\ j + i < Len(ch)  BY <1>1, <3>4
      <4>2. u[j + 1] = ch[(j + 1) + i]  BY <1>1, <4>1
      <4> QED  BY <1>10, <3>1, <3>3, <3>4, <4>1, <4>2
    <3>5. CASE ~(j < Len(u))
      <4>1. ~(j + i < Len(ch))  BY <1>1, <3>5
      <4> QED  BY <1>10, <3>1, <3>3, <3>5, <4>1
    <3> QED  BY <3>4, <3>5
  <2>3. Len(u) > 0  BY <1>1
  <2> QED  BY <1>1, <2>1, <2>2, <2>3 DEF Path
<1>12. ASSUME NEW A, A \subseteq {ch[j] : j \in (i + 1)..Len(ch)}
       PROVE  Leads(Zeroed(H, A), D)
  <2>1. \A x \in FatEntries : Zeroed(H, A)[x] = IF x \in A THEN 0 ELSE H[x]  BY DEF Zeroed
  <2>2. \A j \in 1..i : ch[j] \notin A
    <3>1. \A j \in 1..i, k \in (i + 1)..Len(ch) : j \in 1..Len(ch) /\ k \in 1..Len(ch) /\ j # k
      BY <1>1
    <3> QED  BY <1>8, <1>12, <3>1
  <2>3. ASSUME NEW e \in C \ {ch}, NEW j \in 1..Len(e)
        PROVE  Zeroed(H, A)[e[j]] = IF j < Len(e) THEN e[j + 1] ELSE LastLink
    <3>1. \A k \in 1..Len(ch) : e[j] # ch[k]  BY DEF Disjoint
    <3>2. e[j] \in FatEntries  BY NoneFree, Numbers
    <3>3. e[j] \notin A
      <4>1. \A k \in (i + 1)..Len(ch) : k \in 1..Len(ch)  BY <1>1
      <4> QED  BY <1>12, <3>1, <4>1
    <3>4. Zeroed(H, A)[e[j]] = F[e[j]]  BY <1>1, <1>4, <2>1, <3>1, <3>2, <3>3
    <3> QED  BY <3>4 DEF Leads
  <2>4. ASSUME NEW j \in 1..Len(t)
        PROVE  Zeroed(H, A)[t[j]] = IF j < Len(t) THEN t[j + 1] ELSE LastLink
    <3>1. j \in 1..i /\ j \in 1..Len(ch) /\ t[j] = ch[j]  BY <1>1
    <3>2. ch[j] \in FatEntries /\ ch[j] \notin A  BY <1>0, <2>2, <3>1, Numbers
    <3>3. Zeroed(H, A)[t[j]] = H[ch[j]]  BY <2>1, <3>1, <3>2
    <3>4. CASE j = i
      BY <1>1, <1>4, <3>2, <3>3, <3>4
    <3>5. CASE j # i
      <4>1. ch[j] # c  BY <1>1, <1>8, <3>1, <3>5
      <4>2. H[ch[j]] = F[ch[j]]  BY <1>4, <3>2, <4>1
      <4>3. j < Len(ch) /\ j < Len(t) /\ t[j + 1] = ch[j + 1]  BY <1>1, <3>1, <3>5
      <4>4. F[ch[j]] = ch[j + 1]  BY <1>10, <3>1, <4>3
      <4> QED  BY <3>3, <4>2, <4>3, <4>4
    <3> QED  BY <3>4, <3>5
  <2> QED  BY <1>2, <2>3, <2>4 DEF Leads
<1> QED  BY <1>5, <1>6, <1>7, <1>9, <1>11, <1>12 DEF LeadsCut

----------------------------------------------------------------------------
(* Mounting again after a crash.                                           *)

\* The clusters that a disk leads to from c.
Led(d, c, f, m) ==
  f = [n \in 1..m |-> IF n = 1 THEN c
                      ELSE IF f[n - 1] \in Clusters THEN d[FatSector(0, f[n - 1])][f[n - 1]] ELSE 0]

\* They are there, and OnDisk takes those before the first that is no cluster.
LEMMA DiskLeads ==
  ASSUME NEW d, NEW c
  PROVE  \E f : /\ Led(d, c, f, NFatEnt)
                /\ OnDisk(d, c) = [n \in {m \in 1..NFatEnt : \A k \in 1..m : f[k] \in Clusters} |-> f[n]]
<1> DEFINE S == {m \in Nat : \E f : Led(d, c, f, m)}
           at[n \in 1..NFatEnt] ==
             IF n = 1 THEN c
             ELSE IF at[n - 1] \in Clusters THEN d[FatSector(0, at[n - 1])][at[n - 1]] ELSE 0
<1>1. 0 \in S
  <2>1. Led(d, c, [n \in 1..0 |-> c], 0)  BY DEF Led
  <2> QED  BY <2>1
<1>2. ASSUME NEW m \in Nat, m \in S PROVE m + 1 \in S
  <2>1. PICK g : Led(d, c, g, m)  BY <1>2
  <2> DEFINE next == IF m + 1 = 1 THEN c
                     ELSE IF g[m] \in Clusters THEN d[FatSector(0, g[m])][g[m]] ELSE 0
             f == [n \in 1..(m + 1) |-> IF n = m + 1 THEN next ELSE g[n]]
  <2>2. \A n \in 1..m : g[n] = IF n = 1 THEN c
                               ELSE IF g[n - 1] \in Clusters
                                    THEN d[FatSector(0, g[n - 1])][g[n - 1]] ELSE 0
    BY <2>1 DEF Led
  <2>3. ASSUME NEW n \in 1..(m + 1)
        PROVE  f[n] = IF n = 1 THEN c
                      ELSE IF f[n - 1] \in Clusters THEN d[FatSector(0, f[n - 1])][f[n - 1]] ELSE 0
    <3>1. CASE n = m + 1 /\ n # 1
      <4>1. f[n] = next /\ n - 1 = m /\ m \in 1..(m + 1) /\ m # m + 1  BY <3>1
      <4>2. f[n - 1] = g[m]  BY <4>1
      <4> HIDE DEF f
      <4> QED  BY <3>1, <4>1, <4>2
    <3>2. CASE n = m + 1 /\ n = 1
      BY <3>2
    <3>3. CASE n \in 1..m /\ n # 1
      <4>1. f[n] = g[n] /\ f[n - 1] = g[n - 1]  BY <3>3
      <4> HIDE DEF f
      <4> QED  BY <2>2, <3>3, <4>1
    <3>4. CASE n \in 1..m /\ n = 1
      <4>1. f[n] = g[n]  BY <3>4
      <4> HIDE DEF f
      <4> QED  BY <2>2, <3>4, <4>1
    <3>5. n = m + 1 \/ n \in 1..m  OBVIOUS
    <3> HIDE DEF f, next
    <3> QED  BY <3>1, <3>2, <3>3, <3>4, <3>5
  <2>4. Led(d, c, f, m + 1)
    <3>1. f = [n \in 1..(m + 1) |-> f[n]]  OBVIOUS
    <3> HIDE DEF f
    <3> QED  BY <2>3, <3>1 DEF Led
  <2>5. m + 1 \in Nat  OBVIOUS
  <2> HIDE DEF f
  <2> QED  BY <2>4, <2>5
<1> HIDE DEF S
<1>3. NFatEnt \in S
  <2>1. NFatEnt \in Nat  BY Numbers
  <2> QED  BY <1>1, <1>2, <2>1, Inductive
<1>4. Led(d, c, at, NFatEnt)
  <2>1. at = CHOOSE f : Led(d, c, f, NFatEnt)  BY Zenon DEF Led
  <2>2. \E f : Led(d, c, f, NFatEnt)  BY <1>3 DEF S
  <2> HIDE DEF at
  <2> QED  BY <2>1, <2>2
<1>5. OnDisk(d, c) = [n \in {m \in 1..NFatEnt : \A k \in 1..m : at[k] \in Clusters} |-> at[n]]
  BY Zenon DEF OnDisk
<1> HIDE DEF at
<1> QED  BY <1>4, <1>5

\* From the first cluster of a chain of the FAT on a disk OnDisk finds the chain.
LEMMA ChainFound ==
  ASSUME NEW d, NEW e, Path(DiskFat(d), e)
  PROVE  OnDisk(d, e[1]) = e
<1>1. PICK f : /\ Led(d, e[1], f, NFatEnt)
               /\ OnDisk(d, e[1]) = [n \in {m \in 1..NFatEnt : \A k \in 1..m : f[k] \in Clusters} |-> f[n]]
  BY DiskLeads
<1> DEFINE L == Len(e)
<1>2. e \in Seq(Clusters) /\ L \in Nat /\ L > 0 /\ L + 1 \in 1..NFatEnt /\ NFatEnt \in Nat
  <2>1. e \in Seq(Clusters) /\ L > 0 /\ \A i, j \in 1..Len(e) : e[i] = e[j] => i = j  BY DEF Path
  <2>2. L \in Nat /\ L <= NFatEnt - 2  BY <2>1, PathBounded
  <2> QED  BY <2>1, <2>2, Numbers
<1>3. \A n \in 1..NFatEnt : f[n] = IF n = 1 THEN e[1]
                                   ELSE IF f[n - 1] \in Clusters
                                        THEN d[FatSector(0, f[n - 1])][f[n - 1]] ELSE 0
  BY <1>1 DEF Led
<1>4. \A i \in 1..L : /\ e[i] \in Clusters
                      /\ d[FatSector(0, e[i])][e[i]] = IF i < L THEN e[i + 1] ELSE LastLink
  <2>1. ASSUME NEW i \in 1..L
        PROVE  d[FatSector(0, e[i])][e[i]] = IF i < L THEN e[i + 1] ELSE LastLink
    <3>1. e[i] \in FatEntries  BY <1>2, Numbers
    <3>2. DiskFat(d)[e[i]] = d[FatSector(0, e[i])][e[i]]  BY <3>1 DEF DiskFat
    <3> QED  BY <3>2 DEF Path
  <2> QED  BY <1>2, <2>1
<1> DEFINE S == {k \in Nat : k + 1 <= L => f[k + 1] = e[k + 1]}
<1>5. 0 \in S
  <2>1. 1 \in 1..NFatEnt  BY <1>2
  <2> QED  BY <1>3, <2>1
<1>6. ASSUME NEW k \in Nat, k \in S PROVE k + 1 \in S
  <2> SUFFICES ASSUME (k + 1) + 1 <= L PROVE f[(k + 1) + 1] = e[(k + 1) + 1]
    OBVIOUS
  <2>1. /\ k + 1 \in 1..L /\ k + 1 < L /\ (k + 1) + 1 \in 1..NFatEnt
        /\ (k + 1) + 1 # 1 /\ ((k + 1) + 1) - 1 = k + 1
    BY <1>2
  <2>2. f[k + 1] = e[k + 1]  BY <1>2, <1>6, <2>1
  <2> QED  BY <1>3, <1>4, <2>1, <2>2
<1> HIDE DEF S
<1>7. \A k \in Nat : k \in S  BY <1>5, <1>6, Inductive
<1>8. \A i \in 1..L : f[i] = e[i]
  <2> SUFFICES ASSUME NEW i \in 1..L PROVE f[i] = e[i]
    OBVIOUS
  <2>1. i - 1 \in Nat /\ (i - 1) + 1 = i /\ (i - 1) + 1 <= L  BY <1>2
  <2>2. i - 1 \in S  BY <1>7, <2>1
  <2> QED  BY <2>1, <2>2 DEF S
<1>9. f[L + 1] \notin Clusters
  <2>1. L \in 1..L /\ ~(L < L) /\ (L + 1) - 1 = L /\ L + 1 # 1  BY <1>2
  <2>2. f[L + 1] = LastLink  BY <1>2, <1>3, <1>4, <1>8, <2>1
  <2> QED  BY <2>2, Numbers
<1>10. {m \in 1..NFatEnt : \A k \in 1..m : f[k] \in Clusters} = 1..L
  <2>1. ASSUME NEW m \in 1..NFatEnt, \A k \in 1..m : f[k] \in Clusters PROVE m \in 1..L
    <3>1. ~(L + 1 \in 1..m)  BY <1>9, <2>1
    <3> QED  BY <1>2, <3>1
  <2>2. ASSUME NEW m \in 1..L PROVE m \in 1..NFatEnt /\ \A k \in 1..m : f[k] \in Clusters
    <3>1. m \in 1..NFatEnt /\ \A k \in 1..m : k \in 1..L  BY <1>2
    <3> QED  BY <1>4, <1>8, <3>1
  <2> QED  BY <2>1, <2>2
<1>11. OnDisk(d, e[1]) = [n \in 1..L |-> e[n]]
  BY <1>1, <1>8, <1>10
<1> QED  BY <1>2, <1>11

\* A volume that has just been mounted.
LEMMA MountedIs ==
  ASSUME NEW d, IsDisk(d), NEW v, v = Mounted(d)
  PROVE  /\ IsVolume(v) /\ v.disk = d /\ v.fault = NoFault /\ Fat(v) = DiskFat(d)
         /\ v.dirty = FALSE /\ v.info = FALSE
         /\ v.free = (IF Fat32 THEN d[FsInfo].free ELSE Max32)
<1>1. /\ HasFields(v) /\ v.disk = d /\ v.sect = NoSector /\ v.dirty = FALSE /\ v.info = FALSE
      /\ v.fault = NoFault /\ v.free = (IF Fat32 THEN d[FsInfo].free ELSE Max32)
  BY DEF Mounted, HasFields
<1>2. NoSector \notin FirstCopy  BY Sectors
<1>3. IsVolume(v)
  BY <1>1, <1>2 DEF IsVolume, IsFault
<1>4. \A c \in FatEntries : FatEntry(v, c) = d[FatSector(0, c)][c]
  <2>1. \A c \in FatEntries : FatSector(0, c) # NoSector  BY <1>2, Sectors
  <2> QED  BY <1>1, <2>1 DEF FatEntry, Seen
<1> QED  BY <1>1, <1>3, <1>4 DEF Fat, DiskFat

\* The volume and the chains after a crash that left the disk d, when K was to survive.
Remounts(d, K, v, C) == v = Mounted(d) /\ C = {OnDisk(d, s[1]) : s \in K}

\* All that was to survive has.
LEMMA Survived ==
  ASSUME NEW d, IsDisk(d), NEW K, DiskFat(d) \in Keeps(K), NEW v, NEW C, Remounts(d, K, v, C)
  PROVE  /\ Within(v, Keeps(C)) /\ v.fault = NoFault
         /\ Disjoint(C) /\ Leads(Fat(v), C) /\ Starts(K, C) /\ Starts(C, C) /\ Reserved(Fat(v))
<1> DEFINE F == DiskFat(d)
<1>1. /\ F \in Fats /\ Reserved(F)
      /\ \E D : Disjoint(D) /\ Leads(F, D) /\ Starts(K, D)
  BY DEF Keeps
<1>2. PICK D : Disjoint(D) /\ Leads(F, D) /\ Starts(K, D)  BY <1>1
<1>3. \A s \in K : OnDisk(d, s[1]) \in D /\ Pool!IsStartOf(s, OnDisk(d, s[1]))
  <2> SUFFICES ASSUME NEW s \in K
               PROVE  OnDisk(d, s[1]) \in D /\ Pool!IsStartOf(s, OnDisk(d, s[1]))
    OBVIOUS
  <2>1. PICK e \in D : Pool!IsStartOf(s, e)  BY <1>2 DEF Starts
  <2>2. e \in Seq(Clusters)  BY <1>2 DEF Disjoint
  <2>3. s[1] = e[1]  BY <2>1, <2>2, StartIs
  <2>4. Path(F, e)  BY <1>2, EachIsPath
  <2>5. OnDisk(d, s[1]) = e  BY <2>3, <2>4, ChainFound
  <2> QED  BY <2>1, <2>5
<1>4. C = {OnDisk(d, s[1]) : s \in K} /\ v = Mounted(d)  BY DEF Remounts
<1>5. C \subseteq D  BY <1>3, <1>4
<1>6. Disjoint(C) /\ Leads(F, C)
  <2>1. Disjoint(C)  BY <1>2, <1>5, ApartLess
  <2> QED  BY <1>2, <1>5, <2>1 DEF Leads
<1>7. Starts(K, C)  BY <1>3, <1>4 DEF Starts
<1>8. Starts(C, C)  BY <1>6, StartsItself
<1>9. F \in Keeps(C)  BY <1>1, <1>6, <1>8 DEF Keeps
<1>10. IsVolume(v) /\ v.disk = d /\ v.fault = NoFault /\ Fat(v) = F
  BY <1>4, MountedIs
<1>11. Within(v, Keeps(C))
  BY <1>9, <1>10 DEF Within, Stopped, NoFault, Fault
<1> QED  BY <1>1, <1>6, <1>7, <1>8, <1>10, <1>11

----------------------------------------------------------------------------
(* The invariant.                                                          *)

\* The window and its sector go together, and what must survive a crash is on the disk, as
\* well as in what the program sees.
VolumeInv == Within(vol, Keeps(synced)) /\ vol.fault = NoFault

\* The FAT that the program sees leads through the chains.
ChainInv ==
  /\ Disjoint(chains) /\ Leads(Fat(vol), chains) /\ Starts(synced, chains)
  /\ Reserved(Fat(vol))

\* A full disk is full.
FullInv == full => FreeOf(Fat(vol)) = {}

\* As long as nothing has failed, the copies agree, the count of free clusters is right or not
\* known, and what is free is what is in no chain.
CountInv ==
  /\ faults \in Nat
  /\ faults = 0 => /\ Mirrored(vol.disk) /\ Counted(vol)
                   /\ FreeOf(Fat(vol)) = Pool!Unused(chains)

IInv == VolumeInv /\ ChainInv /\ FullInv /\ CountInv

\* Two ways to say what the program sees as free.
LEMMA SeenFree ==
  ASSUME NEW v
  PROVE  FreeSeen(v) = FreeOf(Fat(v))
<1>1. \A c \in Clusters : Fat(v)[c] = FatEntry(v, c)
  BY Numbers DEF Fat
<1> QED  BY <1>1 DEF FreeSeen, FreeOf

\* The volume with something that is to go wrong in a call.
Begins(f, v) == f \in FaultsAhead /\ v = Ahead(f)

\* It changes nothing yet.
LEMMA CallBegins ==
  ASSUME IInv, NEW f, NEW v, Begins(f, v)
  PROVE  /\ Within(v, Keeps(synced)) /\ Fat(v) = Fat(vol) /\ v.fault = f
         /\ f # NoFault => f.kind \in {"read", "write", "crash"}
         /\ IsFault(f) /\ v.disk = vol.disk
         /\ Counted(vol) => Counted(v)
<1>1. f = NoFault \/ f \in {Fault(k, n) : k \in FaultKinds, n \in 0..MaxAccess}
  BY DEF Begins, FaultsAhead
<1>2. f # NoFault => f \in AheadFaults
  <2>1. ASSUME f # NoFault PROVE f \in AheadFaults
    <3>1. PICK k \in FaultKinds, n \in 0..MaxAccess : f = Fault(k, n)  BY <1>1, <2>1
    <3>2. k \in {"read", "write", "crash"} /\ n \in Nat  BY BoundsAssumption
    <3> QED  BY <3>1, <3>2 DEF Fault, AheadFaults
  <2> QED  BY <2>1
<1>3. IsFault(f) /\ (f # NoFault => f.kind \in {"read", "write", "crash"})
  BY <1>2 DEF IsFault, AheadFaults
<1>4. Within(vol, Keeps(synced)) /\ IsVolume(vol) /\ HasFields(vol)
  BY DEF IInv, VolumeInv, Within, IsVolume
<1>5. /\ HasFields(v) /\ v.disk = vol.disk /\ v.win = vol.win /\ v.sect = vol.sect
      /\ v.dirty = vol.dirty /\ v.last = vol.last /\ v.free = vol.free /\ v.info = vol.info
      /\ v.fault = f
  BY <1>4 DEF Begins, Ahead, HasFields
<1>6. Fat(v) = Fat(vol)
  BY <1>5 DEF Fat, FatEntry, Seen
<1>7. ~Stopped(v)
  BY <1>3, <1>5 DEF Stopped, NoFault, Fault
<1>8. Within(v, Keeps(synced))
  BY <1>3, <1>4, <1>5, <1>6, <1>7 DEF Within, IsVolume
<1>9. Counted(vol) => Counted(v)
  BY <1>5, <1>6 DEF Counted
<1> QED  BY <1>3, <1>5, <1>6, <1>8, <1>9

\* What a call that began with v has left in w: what must survive of the chains is in the FAT
\* wherever the machine stopped; and if it did not, the chains of their owners are, and a full
\* disk is full.
CallLeaves(v, w, kept, owned, noSpace) ==
  /\ Within(w, Keeps(kept)) /\ Follows(v, w) /\ KeepsCount(v, w)
  /\ ~Stopped(w) => /\ Disjoint(owned) /\ Leads(Fat(w), owned) /\ Starts(kept, owned)
                    /\ noSpace => FreeOf(Fat(w)) = {}
  /\ v.fault = NoFault =>
       (FreeOf(Fat(v)) = Pool!Unused(chains) => FreeOf(Fat(w)) = Pool!Unused(owned))

\* Then the invariant holds again, and for ClusterPool the call was a crash or what it was to be.
LEMMA CallEnds ==
  ASSUME IInv, NEW f, NEW v, Begins(f, v), NEW w, NEW kept, NEW owned, NEW noSpace,
         CallLeaves(v, w, kept, owned, noSpace), Finish(f, w, kept, owned, noSpace)
  PROVE  /\ IInv'
         /\ IF Stopped(w) THEN Pool!Survive(kept)
            ELSE chains' = owned /\ synced' = kept /\ FreeSeen(vol') = FreeOf(Fat(w))
<1>1. /\ Within(v, Keeps(synced)) /\ Fat(v) = Fat(vol) /\ v.fault = f
      /\ f # NoFault => f.kind \in {"read", "write", "crash"}
      /\ IsFault(f) /\ v.disk = vol.disk
      /\ Counted(vol) => Counted(v)
  BY CallBegins
<1>2. /\ Within(w, Keeps(kept)) /\ Follows(v, w) /\ KeepsCount(v, w)
      /\ ~Stopped(w) => /\ Disjoint(owned) /\ Leads(Fat(w), owned) /\ Starts(kept, owned)
                        /\ noSpace => FreeOf(Fat(w)) = {}
      /\ f = NoFault =>
           (FreeOf(Fat(v)) = Pool!Unused(chains) => FreeOf(Fat(w)) = Pool!Unused(owned))
  BY <1>1 DEF CallLeaves
<1>3. /\ f = NoFault \/ Hit(f, w)
      /\ faults' = IF f = NoFault THEN faults ELSE faults + 1
      /\ Stopped(w) => Restart(Image(w), kept)
      /\ ~Stopped(w) => /\ vol' = [w EXCEPT !.fault = NoFault]
                        /\ chains' = owned /\ synced' = kept /\ full' = noSpace
  BY DEF Finish
<1>4. /\ faults \in Nat /\ faults' \in Nat /\ (faults' = 0 => f = NoFault /\ faults = 0)
  <2>1. faults \in Nat  BY DEF IInv, CountInv
  <2> QED  BY <1>3, <2>1
<1>5. f = NoFault => w.fault = NoFault /\ ~Stopped(w)
  BY <1>1, <1>2 DEF Follows, FaultAfter, Stopped, NoFault, Fault
<1>6. CASE Stopped(w)
  <2>1. w.fault = StoppedWith(w.fault.image) /\ IsDisk(w.fault.image)
    <3>1. IsFault(w.fault) /\ w.fault.kind = "stopped"  BY <1>2, <1>6 DEF Within, IsVolume, Stopped
    <3> QED  BY <3>1, Kinds
  <2> DEFINE d == w.fault.image
  <2>2. IsDisk(d) /\ DiskFat(d) \in Keeps(kept)  BY <1>2, <1>6, <2>1 DEF Within
  <2>3. vol' = Mounted(d) /\ chains' = {OnDisk(d, s[1]) : s \in kept} /\ synced' = chains' /\ full' = FALSE
    BY <1>3, <1>6 DEF Restart, Image
  <2> HIDE DEF d
  <2>4. Remounts(d, kept, vol', chains')  BY <2>3 DEF Remounts
  <2>5. /\ Within(vol', Keeps(chains')) /\ vol'.fault = NoFault
        /\ Disjoint(chains') /\ Leads(Fat(vol'), chains') /\ Starts(kept, chains')
        /\ Starts(chains', chains') /\ Reserved(Fat(vol'))
    BY <2>2, <2>4, Survived
  <2>6. faults' # 0  BY <1>4, <1>5, <1>6
  <2>7. IInv'
    BY <1>4, <2>3, <2>5, <2>6 DEF IInv, VolumeInv, ChainInv, FullInv, CountInv
  <2>8. Pool!WellFormed(chains')  BY <2>5, ApartIsWellFormed
  <2>9. FreeSeen(vol') \subseteq Pool!Unused(chains')  BY <2>5, NoneFree, SeenFree
  <2>10. Pool!Survive(kept)
    BY <2>3, <2>5, <2>8, <2>9 DEF Pool!Survive, Starts
  <2> QED  BY <1>6, <2>7, <2>10
<1>7. CASE ~Stopped(w)
  <2> DEFINE x == [w EXCEPT !.fault = NoFault]
  <2>1. vol' = x /\ chains' = owned /\ synced' = kept /\ full' = noSpace  BY <1>3, <1>7
  <2>2. IsVolume(w) /\ HasFields(w)  BY <1>2 DEF Within, IsVolume
  <2>3. /\ HasFields(x) /\ x.disk = w.disk /\ x.win = w.win /\ x.sect = w.sect
        /\ x.dirty = w.dirty /\ x.last = w.last /\ x.free = w.free /\ x.info = w.info
        /\ x.fault = NoFault
    BY <2>2 DEF HasFields
  <2> HIDE DEF x
  <2>4. Fat(x) = Fat(w)  BY <2>3 DEF Fat, FatEntry, Seen
  <2>5. Within(x, Keeps(kept))
    BY <1>2, <2>2, <2>3, <2>4 DEF Within, IsVolume, IsFault, Stopped, NoFault, Fault
  <2>6. Reserved(Fat(x))  BY <2>5 DEF Within, Keeps
  <2>7. VolumeInv' /\ ChainInv' /\ FullInv'
    BY <1>2, <1>7, <2>1, <2>3, <2>4, <2>5, <2>6 DEF VolumeInv, ChainInv, FullInv
  <2>8. CountInv'
    <3> SUFFICES ASSUME faults' = 0
                 PROVE  Mirrored(x.disk) /\ Counted(x) /\ FreeOf(Fat(x)) = Pool!Unused(owned)
      BY <1>4, <2>1 DEF CountInv
    <3>1. f = NoFault /\ faults = 0  BY <1>4
    <3>2. Mirrored(vol.disk) /\ Counted(vol) /\ FreeOf(Fat(vol)) = Pool!Unused(chains)
      BY <3>1 DEF IInv, CountInv
    <3>3. Mirrored(w.disk)  BY <1>1, <1>2, <3>1, <3>2 DEF Follows
    <3>4. Counted(w)  BY <1>1, <1>2, <3>1, <3>2 DEF KeepsCount
    <3>5. Counted(x)  BY <2>3, <2>4, <3>4 DEF Counted
    <3>6. FreeOf(Fat(w)) = Pool!Unused(owned)  BY <1>1, <1>2, <3>1, <3>2
    <3> QED  BY <2>3, <2>4, <3>3, <3>5, <3>6
  <2>9. FreeSeen(vol') = FreeOf(Fat(w))  BY <2>1, <2>4, SeenFree
  <2>10. IInv'  BY <2>7, <2>8 DEF IInv
  <2> QED  BY <1>7, <2>1, <2>9, <2>10
<1> QED  BY <1>6, <1>7

\* A step of ClusterPool, or one that it does not see.
Refined == Pool!Next \/ Pool!vars' = Pool!vars

\* Crashes.
LEMMA CrashRefined ==
  /\ Pool!Survive(synced) => Refined
  /\ \A ch \in chains : \A n \in 0..(Len(ch) - 1) :
       Pool!Survive(Pool!ShortenTo(ch, n)) => Refined
BY DEF Refined, Pool!Next, Pool!Crash

\* Free clusters are lost, or not.
LEMMA LossRefined ==
  chains' = chains /\ synced' = synced /\ FreeSeen(vol') \subseteq FreeSeen(vol) => Refined
BY DEF Refined, Pool!Next, Pool!Lose

----------------------------------------------------------------------------
(* The calls.                                                              *)

\* The FATs that create_chain may leave on the disk keep what must survive.
LEMMA MarkedIsKept ==
  ASSUME IInv, NEW n \in Clusters, Fat(vol)[n] = 0
  PROVE  Linked(Fat(vol), 0, n) \in Keeps(synced)
<1> DEFINE F == Fat(vol)
           H == Linked(F, 0, n)
<1>1. F \in Fats /\ Reserved(F) /\ Disjoint(chains) /\ Leads(F, chains) /\ Starts(synced, chains)
  BY FatSeen DEF IInv, VolumeInv, ChainInv, Within
<1>2. H \in Fats /\ Reserved(H)
  BY <1>1, LinkedFat
<1>3. Leads(H, chains)  BY <1>1, ChainMarked
<1> QED  BY <1>1, <1>2, <1>3 DEF Keeps

\* A call that takes no cluster for a chain, but may have marked one before it failed.
TakesNone(f, w) ==
  \/ Fat(w) = Fat(vol)
  \/ f # NoFault /\ \E n \in Clusters : Fat(vol)[n] = 0 /\ Fat(w) = Linked(Fat(vol), 0, n)

\* For its callers nothing has happened.
LEMMA NothingTaken ==
  ASSUME IInv, NEW f, NEW v, Begins(f, v), NEW w,
         Within(w, Keeps(synced)), Follows(v, w), KeepsCount(v, w), TakesNone(f, w),
         NEW noSpace, noSpace => FreeOf(Fat(w)) = {}, Finish(f, w, synced, chains, noSpace)
  PROVE  IInv' /\ Refined
<1> DEFINE F == Fat(vol)
<1>1. F \in Fats /\ Disjoint(chains) /\ Leads(F, chains) /\ Starts(synced, chains)
  BY FatSeen DEF IInv, VolumeInv, ChainInv, Within
<1>2. v.fault = f /\ Fat(v) = F
  BY CallBegins
<1>3. Leads(Fat(w), chains) /\ FreeOf(Fat(w)) \subseteq FreeOf(F)
  <2>1. CASE Fat(w) = F
    BY <1>1, <2>1
  <2>2. ASSUME NEW n \in Clusters, F[n] = 0, Fat(w) = Linked(F, 0, n)
        PROVE  Leads(Fat(w), chains) /\ FreeOf(Fat(w)) \subseteq FreeOf(F)
    <3>1. FreeOf(Fat(w)) = FreeOf(F) \ {n}  BY <1>1, <2>2, LinkedFat
    <3>2. Leads(Fat(w), chains)  BY <1>1, <2>2, ChainMarked
    <3> QED  BY <3>1, <3>2
  <2> QED  BY <2>1, <2>2 DEF TakesNone
<1>4. f = NoFault => Fat(w) = F  BY DEF TakesNone
<1>5. CallLeaves(v, w, synced, chains, noSpace)
  BY <1>1, <1>2, <1>3, <1>4 DEF CallLeaves
<1>6. /\ IInv'
      /\ IF Stopped(w) THEN Pool!Survive(synced)
         ELSE chains' = chains /\ synced' = synced /\ FreeSeen(vol') = FreeOf(Fat(w))
  BY <1>5, CallEnds
<1>7. ~Stopped(w) => FreeSeen(vol') \subseteq FreeSeen(vol)  BY <1>3, <1>6, SeenFree
<1> QED  BY <1>6, <1>7, CrashRefined, LossRefined

\* create_chain for a new chain.
LEMMA CreateStep ==
  ASSUME IInv, Create
  PROVE  IInv' /\ Refined
<1>1. PICK f \in FaultsAhead :
        LET r == CreateChain(Ahead(f), 0)
            owned == IF r.val \in Clusters THEN chains \cup {<<r.val>>} ELSE chains
        IN  Finish(f, r.v, synced, owned, r.val = 0)
  BY DEF Create
<1> DEFINE v == Ahead(f)
           r == CreateChain(v, 0)
           owned == IF r.val \in Clusters THEN chains \cup {<<r.val>>} ELSE chains
           noSpace == r.val = 0
           F == Fat(vol)
           G == Keeps(synced)
<1>2. Finish(f, r.v, synced, owned, noSpace)  BY <1>1
<1>3. Begins(f, v)  BY DEF Begins
<1>4. Within(v, G) /\ Fat(v) = F /\ v.fault = f  BY <1>3, CallBegins
<1>5. F \in Fats /\ Disjoint(chains) /\ Leads(F, chains) /\ Starts(synced, chains)
  BY FatSeen DEF IInv, VolumeInv, ChainInv, Within
<1>6. MayAllocate(F, 0, G, G)
  BY MarkedIsKept DEF MayAllocate
<1>7. HasAllocated(G, G, v, F, 0, r)
  BY <1>4, <1>6, ChainCreated
<1>8. 0 \notin Clusters /\ 1 \notin Clusters /\ Max32 \notin Clusters /\ Max32 # 0
  BY Numbers
<1>14. Within(r.v, Keeps(synced)) /\ Follows(v, r.v) /\ KeepsCount(v, r.v)
  BY <1>7 DEF HasAllocated
<1> HIDE DEF v, r, noSpace, G
<1>9. CASE r.val \in Clusters /\ F[r.val] = 0 /\ Fat(r.v) = Linked(F, 0, r.val)
  <2> DEFINE n == r.val
  <2>0. F[n] = 0 /\ n \in Clusters /\ Fat(r.v) = Linked(F, 0, n)  BY <1>9
  <2>1. IsAdded(chains, n, owned) /\ noSpace = FALSE  BY <1>8, <1>9 DEF IsAdded, noSpace
  <2> HIDE DEF owned, n
  <2>2. Disjoint(owned) /\ Leads(Fat(r.v), owned) /\ Starts(synced, owned)
    BY <1>5, <2>0, <2>1, ChainAdded
  <2>3. FreeOf(Fat(r.v)) = FreeOf(F) \ {n}  BY <1>5, <2>0, LinkedFat
  <2>4. Pool!Unused(owned) = Pool!Unused(chains) \ {n}
    <3>1. owned = chains \cup {<<n>>}  BY <2>1 DEF IsAdded
    <3>2. \A i \in 1..Len(<<n>>) : <<n>>[i] = n /\ 1 \in 1..Len(<<n>>)  OBVIOUS
    <3>3. 1 \in 1..Len(<<n>>) /\ <<n>>[1] = n  OBVIOUS
    <3>4. chains \subseteq Seq(Clusters) /\ owned \subseteq Seq(Clusters)
      BY <1>5, <2>2 DEF Disjoint
    <3>5. /\ \A c : c \in Pool!Unused(chains) <=>
                      c \in Clusters /\ \A s \in chains : \A i \in 1..Len(s) : s[i] # c
          /\ \A c : c \in Pool!Unused(owned) <=>
                      c \in Clusters /\ \A s \in owned : \A i \in 1..Len(s) : s[i] # c
      BY <3>4, UnusedIs
    <3>6. ASSUME NEW c \in Clusters
          PROVE  (\A s \in owned : \A i \in 1..Len(s) : s[i] # c)
                   <=> c # n /\ \A s \in chains : \A i \in 1..Len(s) : s[i] # c
      <4> DEFINE t == <<n>>
      <4>1. (\A i \in 1..Len(t) : t[i] # c) <=> c # n  BY <3>2, <3>3
      <4> HIDE DEF t
      <4>2. owned = chains \cup {t}  BY <3>1 DEF t
      <4> QED  BY <4>1, <4>2
    <3> QED  BY <3>5, <3>6
  <2>5. CallLeaves(v, r.v, synced, owned, noSpace)
    BY <1>4, <1>14, <2>1, <2>2, <2>3, <2>4 DEF CallLeaves
  <2>6. /\ IInv'
        /\ IF Stopped(r.v) THEN Pool!Survive(synced)
           ELSE chains' = owned /\ synced' = synced /\ FreeSeen(vol') = FreeOf(Fat(r.v))
    BY <1>2, <1>3, <2>5, CallEnds
  <2>7. ASSUME ~Stopped(r.v) PROVE Refined
    <3>1. n \in FreeSeen(vol)  BY <2>0, SeenFree DEF FreeOf
    <3>2. FreeSeen(vol') = FreeSeen(vol) \ {n}  BY <2>3, <2>6, <2>7, SeenFree
    <3>3. chains' = chains \cup {<<n>>}  BY <2>1, <2>6, <2>7 DEF IsAdded
    <3>4. Pool!Create  BY <2>6, <2>7, <3>1, <3>2, <3>3 DEF Pool!Create
    <3> QED  BY <3>4 DEF Refined, Pool!Next
  <2> QED  BY <2>6, <2>7, CrashRefined
<1>10. CASE r.val \notin Clusters /\ (r.val = 0 => FreeOf(Fat(r.v)) = {}) /\ TakesNone(f, r.v)
  <2>1. owned = chains  BY <1>10
  <2>2. noSpace => FreeOf(Fat(r.v)) = {}  BY <1>10 DEF noSpace
  <2> QED  BY <1>2, <1>3, <1>10, <1>14, <2>1, <2>2, NothingTaken
<1>11. CASE r.val = 0 /\ Fat(r.v) = F /\ FreeOf(F) = {}
  BY <1>8, <1>10, <1>11 DEF TakesNone
<1>12. CASE r.val \in {1, Max32} /\ Fat(r.v) = F
  BY <1>8, <1>10, <1>12 DEF TakesNone
<1>13. CASE /\ r.val = Max32 /\ FailsToo(v, "FR_DISK_ERR")
            /\ \E n \in Clusters : F[n] = 0 /\ Fat(r.v) \in {F, Linked(F, 0, n)}
  <2>1. f # NoFault  BY <1>4, <1>13 DEF FailsToo, NoFault, Fault
  <2> QED  BY <1>8, <1>10, <1>13, <2>1 DEF TakesNone
<1> QED  BY <1>7, <1>9, <1>11, <1>12, <1>13 DEF HasAllocated

\* What is in no chain when one is stretched.
LEMMA UnusedStretched ==
  ASSUME NEW C, C \subseteq Seq(Clusters), NEW ch \in C, NEW n \in Clusters,
         NEW t, NEW D, IsStretched(C, ch, n, t, D)
  PROVE  Pool!Unused(D) = Pool!Unused(C) \ {n}
<1>1. ch \in Seq(Clusters) /\ Len(ch) \in Nat  OBVIOUS
<1>2. /\ t \in Seq(Clusters) /\ Len(t) = Len(ch) + 1 /\ t[Len(ch) + 1] = n
      /\ \A i \in 1..Len(ch) : t[i] = ch[i]
  BY <1>1 DEF IsStretched
<1>3. D = (C \ {ch}) \cup {t} /\ D \subseteq Seq(Clusters)  BY <1>2 DEF IsStretched
<1>4. ASSUME NEW c \in Clusters
      PROVE  (\A i \in 1..Len(t) : t[i] # c) <=> c # n /\ \A i \in 1..Len(ch) : ch[i] # c
  <2>1. 1..Len(t) = (1..Len(ch)) \cup {Len(ch) + 1}  BY <1>1, <1>2
  <2> QED  BY <1>2, <2>1
<1>5. /\ \A c : c \in Pool!Unused(C) <=> c \in Clusters /\ \A s \in C : \A i \in 1..Len(s) : s[i] # c
      /\ \A c : c \in Pool!Unused(D) <=> c \in Clusters /\ \A s \in D : \A i \in 1..Len(s) : s[i] # c
  BY <1>3, UnusedIs
<1> DEFINE Misses(s, c) == \A i \in 1..Len(s) : s[i] # c
<1>6. /\ \A c : c \in Pool!Unused(C) <=> c \in Clusters /\ \A s \in C : Misses(s, c)
      /\ \A c : c \in Pool!Unused(D) <=> c \in Clusters /\ \A s \in D : Misses(s, c)
      /\ \A c \in Clusters : Misses(t, c) <=> c # n /\ Misses(ch, c)
  BY <1>4, <1>5
<1> HIDE DEF Misses
<1> QED  BY <1>3, <1>6

\* A cluster is linked to one that is not the last of its chain: then the others still lead.
LEMMA OthersLinked ==
  ASSUME NEW C, Disjoint(C), NEW F \in Fats, Leads(F, C), NEW ch \in C, NEW i \in 1..Len(ch),
         NEW n \in Clusters, F[n] = 0
  PROVE  Leads(Linked(F, ch[i], n), C \ {ch})
<1> DEFINE H == Linked(F, ch[i], n)
<1>1. \A x \in FatEntries : x # n /\ x # ch[i] => H[x] = F[x]  BY DEF Linked
<1>2. ASSUME NEW e \in C \ {ch}, NEW j \in 1..Len(e)
      PROVE  H[e[j]] = IF j < Len(e) THEN e[j + 1] ELSE LastLink
  <2>1. e[j] \in FatEntries /\ e[j] # n  BY NoneFree, Numbers
  <2>2. e[j] # ch[i]  BY DEF Disjoint
  <2>3. H[e[j]] = F[e[j]]  BY <1>1, <2>1, <2>2
  <2> QED  BY <2>3 DEF Leads
<1> QED  BY <1>2 DEF Leads

\* The FATs that create_chain may leave when it stretches a chain, and when it takes a cluster
\* for the last of its chain that is not.
LEMMA StretchedIsKept ==
  ASSUME IInv, NEW ch \in chains, NEW n \in Clusters, Fat(vol)[n] = 0
  PROVE  /\ Linked(Fat(vol), ch[Len(ch)], n) \in Keeps(synced)
         /\ \A i \in 1..Len(ch) : Linked(Fat(vol), ch[i], n) \in Keeps(Pool!ShortenTo(ch, 0))
<1> DEFINE F == Fat(vol)
<1>1. F \in Fats /\ Reserved(F) /\ Disjoint(chains) /\ Leads(F, chains) /\ Starts(synced, chains)
  BY FatSeen DEF IInv, VolumeInv, ChainInv, Within
<1>2. ch \in Seq(Clusters) /\ Len(ch) \in 1..Len(ch)  BY <1>1 DEF Disjoint
<1>3. ASSUME NEW i \in 1..Len(ch)
      PROVE  Linked(F, ch[i], n) \in Fats /\ Reserved(Linked(F, ch[i], n))
  <2>1. ch[i] \in Clusters /\ F[ch[i]] # 0  BY <1>1, NoneFree
  <2> QED  BY <1>1, <2>1, LinkedFat
<1>4. Linked(F, ch[Len(ch)], n) \in Keeps(synced)
  <2> DEFINE t == Append(ch, n)
             D == (chains \ {ch}) \cup {t}
  <2>1. IsStretched(chains, ch, n, t, D)  BY DEF IsStretched
  <2> HIDE DEF t, D
  <2>2. Disjoint(D) /\ Leads(Linked(F, ch[Len(ch)], n), D) /\ Starts(synced, D)
    BY <1>1, <2>1, ChainExtended
  <2> QED  BY <1>2, <1>3, <2>2 DEF Keeps
<1>5. ASSUME NEW i \in 1..Len(ch) PROVE Linked(F, ch[i], n) \in Keeps(Pool!ShortenTo(ch, 0))
  <2> DEFINE D == chains \ {ch}
  <2>1. Disjoint(D)  BY <1>1, ApartLess
  <2>2. Leads(Linked(F, ch[i], n), D)  BY <1>1, OthersLinked
  <2>3. Starts(Pool!ShortenTo(ch, 0), D)  BY <1>1, StartsBeside
  <2> QED  BY <1>3, <2>1, <2>2, <2>3 DEF Keeps
<1> QED  BY <1>4, <1>5

\* What the caller of create_chain gets for the last cluster of a chain.
LastStretched(f, w, val, ch) ==
  Finish(f, w, synced, IF val \in Clusters THEN (chains \ {ch}) \cup {Append(ch, val)} ELSE chains,
         val = 0)

\* create_chain for the last cluster of a chain.
LEMMA LastStretchStep ==
  ASSUME IInv, NEW f, NEW v, Begins(f, v), NEW ch \in chains, NEW r,
         r = CreateChain(v, ch[Len(ch)]), LastStretched(f, r.v, r.val, ch)
  PROVE  IInv' /\ Refined
<1> DEFINE F == Fat(vol)
           c == ch[Len(ch)]
           owned == IF r.val \in Clusters THEN (chains \ {ch}) \cup {Append(ch, r.val)} ELSE chains
           noSpace == r.val = 0
           G == Keeps(synced)
<1>1. Finish(f, r.v, synced, owned, noSpace)  BY DEF LastStretched
<1>2. Within(v, G) /\ Fat(v) = F /\ v.fault = f  BY CallBegins
<1>3. F \in Fats /\ Disjoint(chains) /\ Leads(F, chains) /\ Starts(synced, chains)
  BY FatSeen DEF IInv, VolumeInv, ChainInv, Within
<1>4. ch \in Seq(Clusters) /\ Len(ch) \in 1..Len(ch)  BY <1>3 DEF Disjoint
<1>5. c \in Clusters /\ F[c] # 0  BY <1>3, <1>4, NoneFree
<1>6. F[c] = LastLink /\ F[c] \notin Clusters
  <2>1. F[c] = LastLink  BY <1>3, <1>4 DEF Leads
  <2> QED  BY <2>1, Numbers
<1>7. MayAllocate(F, c, G, G)
  BY <1>5, MarkedIsKept, StretchedIsKept DEF MayAllocate
<1>8. HasAllocated(G, G, v, F, c, r)
  <2> HIDE DEF G, c
  <2>1. r = CreateChain(v, c)  BY DEF c
  <2> QED  BY <1>2, <1>5, <1>6, <1>7, <2>1, ChainStretched
<1>9. 0 \notin Clusters /\ 1 \notin Clusters /\ Max32 \notin Clusters /\ Max32 # 0
  BY Numbers
<1>10. Within(r.v, Keeps(synced)) /\ Follows(v, r.v) /\ KeepsCount(v, r.v)
  BY <1>8 DEF HasAllocated
<1> HIDE DEF noSpace, G
<1>11. CASE r.val \in Clusters /\ F[r.val] = 0 /\ Fat(r.v) = Linked(F, c, r.val)
  <2> DEFINE n == r.val
             t == Append(ch, n)
  <2>1. F[n] = 0 /\ n \in Clusters /\ Fat(r.v) = Linked(F, c, n)  BY <1>11
  <2>2. IsStretched(chains, ch, n, t, owned) /\ noSpace = FALSE
    BY <1>9, <1>11 DEF IsStretched, noSpace
  <2>3. owned = (chains \ {ch}) \cup {t}  BY <1>11
  <2> HIDE DEF owned, n
  <2>4. Disjoint(owned) /\ Leads(Fat(r.v), owned) /\ Starts(synced, owned)
    <3> HIDE DEF t
    <3> QED  BY <1>3, <2>1, <2>2, ChainExtended
  <2>5. FreeOf(Fat(r.v)) = FreeOf(F) \ {n}  BY <1>3, <1>5, <2>1, LinkedFat
  <2>6. Pool!Unused(owned) = Pool!Unused(chains) \ {n}
    <3>1. chains \subseteq Seq(Clusters)  BY <1>3 DEF Disjoint
    <3> HIDE DEF t
    <3> QED  BY <2>1, <2>2, <3>1, UnusedStretched
  <2>7. CallLeaves(v, r.v, synced, owned, noSpace)
    BY <1>2, <1>10, <2>2, <2>4, <2>5, <2>6 DEF CallLeaves
  <2>8. /\ IInv'
        /\ IF Stopped(r.v) THEN Pool!Survive(synced)
           ELSE chains' = owned /\ synced' = synced /\ FreeSeen(vol') = FreeOf(Fat(r.v))
    BY <1>1, <2>7, CallEnds
  <2>9. ASSUME ~Stopped(r.v) PROVE Refined
    <3>1. n \in FreeSeen(vol)  BY <2>1, SeenFree DEF FreeOf
    <3>2. FreeSeen(vol') = FreeSeen(vol) \ {n}  BY <2>5, <2>8, <2>9, SeenFree
    <3>3. chains' = (chains \ {ch}) \cup {Append(ch, n)}  BY <2>3, <2>8, <2>9
    <3>4. Pool!Stretch(ch)  BY <2>8, <2>9, <3>1, <3>2, <3>3 DEF Pool!Stretch
    <3> QED  BY <3>4 DEF Refined, Pool!Next
  <2> QED  BY <2>8, <2>9, CrashRefined
<1>12. CASE r.val \notin Clusters /\ (r.val = 0 => FreeOf(Fat(r.v)) = {}) /\ TakesNone(f, r.v)
  <2>1. owned = chains  BY <1>12
  <2>2. noSpace => FreeOf(Fat(r.v)) = {}  BY <1>12 DEF noSpace
  <2> QED  BY <1>1, <1>10, <1>12, <2>1, <2>2, NothingTaken
<1>13. CASE r.val = 0 /\ Fat(r.v) = F /\ FreeOf(F) = {}
  BY <1>9, <1>12, <1>13 DEF TakesNone
<1>14. CASE r.val \in {1, Max32} /\ Fat(r.v) = F
  BY <1>9, <1>12, <1>14 DEF TakesNone
<1>15. CASE /\ r.val = Max32 /\ FailsToo(v, "FR_DISK_ERR")
            /\ \E n \in Clusters : F[n] = 0 /\ Fat(r.v) \in {F, Linked(F, 0, n)}
  <2>1. f # NoFault  BY <1>2, <1>15 DEF FailsToo, NoFault, Fault
  <2> QED  BY <1>9, <1>12, <1>15, <2>1 DEF TakesNone
<1> QED  BY <1>8, <1>11, <1>13, <1>14, <1>15 DEF HasAllocated

\* What the caller gets for a cluster that is not the last.
MiddleStretched(f, w, val, ch, i) ==
  IF ~Stopped(w) /\ FatEntry(w, ch[i]) # ch[i + 1]
  THEN Finish(f, w, Pool!ShortenTo(ch, 0), chains \ {ch}, val = 0)
  ELSE Finish(f, w, synced, chains, val = 0)

\* A chain is given up, and some clusters of it become free or none do.
LEMMA GivenUp ==
  ASSUME NEW ch \in chains, Len(ch) > 0, NEW A, A \subseteq {ch[i] : i \in (0 + 1)..Len(ch)},
         chains' = chains \ {ch}, synced' = Pool!ShortenTo(ch, 0),
         FreeSeen(vol') \subseteq FreeSeen(vol) \cup A
  PROVE  Refined
<1>1. {ch[i] : i \in (0 + 1)..Len(ch)} = {ch[i] : i \in 1..Len(ch)}  OBVIOUS
<1>2. chains' = (chains \ {ch}) \cup {SubSeq(ch, 1, k) : k \in {0} \ {0}}  OBVIOUS
<1>3. Pool!Keep(ch, 0)  BY <1>2 DEF Pool!Keep
<1>4. Pool!CutFailed(ch, 0)  BY <1>3 DEF Pool!CutFailed
<1> QED  BY <1>4 DEF Refined, Pool!Next

\* create_chain for a cluster that is not the last of its chain: if it cannot be read, another
\* one may take the place of the rest.
LEMMA MiddleStretchStep ==
  ASSUME IInv, NEW f, NEW v, Begins(f, v), NEW ch \in chains, NEW i \in 1..(Len(ch) - 1), NEW r,
         r = CreateChain(v, ch[i]), MiddleStretched(f, r.v, r.val, ch, i)
  PROVE  IInv' /\ Refined
<1> DEFINE F == Fat(vol)
           c == ch[i]
           next == ch[i + 1]
           noSpace == r.val = 0
           G == Keeps(synced)
           H == Keeps(Pool!ShortenTo(ch, 0))
<1>1. Within(v, G) /\ Fat(v) = F /\ v.fault = f  BY CallBegins
<1>2. F \in Fats /\ Disjoint(chains) /\ Leads(F, chains) /\ Starts(synced, chains)
  BY FatSeen DEF IInv, VolumeInv, ChainInv, Within
<1>3. ch \in Seq(Clusters) /\ i \in 1..Len(ch) /\ i < Len(ch) /\ i + 1 \in 1..Len(ch) /\ Len(ch) > 0
  BY <1>2 DEF Disjoint
<1>4. c \in Clusters /\ c \in FatEntries /\ F[c] # 0 /\ next \in Clusters /\ F[next] # 0
  BY <1>2, <1>3, NoneFree, Numbers
<1>5. F[c] = next
  BY <1>2, <1>3 DEF Leads
<1>6. MayAllocate(F, c, G, H)
  <2>1. G \subseteq H  BY ShorterKept
  <2> QED  BY <1>3, <1>4, <2>1, MarkedIsKept, StretchedIsKept DEF MayAllocate
<1>7. HasFollowed(G, H, v, F, c, r)
  <2> HIDE DEF G, H, c
  <2>1. r = CreateChain(v, c)  BY DEF c
  <2> QED  BY <1>1, <1>4, <1>5, <1>6, <2>1, ChainStretched
<1>8. 0 \notin Clusters  BY Numbers
<1>9. FatEntry(r.v, c) = Fat(r.v)[c]  BY <1>4 DEF Fat
<1>10. Follows(v, r.v) /\ KeepsCount(v, r.v) /\ Within(r.v, H)
  BY <1>7 DEF HasFollowed
<1>11. CASE Within(r.v, G) /\ Fat(r.v) = F /\ (r.val = 0 => FreeOf(F) = {})
  <2>1. Finish(f, r.v, synced, chains, noSpace)
    BY <1>5, <1>9, <1>11 DEF MiddleStretched
  <2>2. TakesNone(f, r.v)  BY <1>11 DEF TakesNone
  <2>3. noSpace => FreeOf(Fat(r.v)) = {}  BY <1>11
  <2> HIDE DEF noSpace
  <2> QED  BY <1>10, <1>11, <2>1, <2>2, <2>3, NothingTaken
<1>12. CASE /\ r.val \in Clusters /\ F[r.val] = 0 /\ Fat(r.v) = Linked(F, c, r.val)
            /\ FailsToo(v, "FR_DISK_ERR")
  <2> DEFINE n == r.val
             owned == chains \ {ch}
             kept == Pool!ShortenTo(ch, 0)
  <2>1. n \in Clusters /\ F[n] = 0 /\ Fat(r.v) = Linked(F, c, n)  BY <1>12
  <2>2. ~Stopped(r.v) /\ f # NoFault
    <3>1. v.fault.kind \in {"read", "write"}  BY <1>12 DEF FailsToo
    <3>2. ~(r.v.fault.kind \in {"crash", "stopped"})  BY <1>10, <3>1 DEF Follows, FaultAfter
    <3> QED  BY <1>1, <3>1, <3>2 DEF Stopped, NoFault, Fault
  <2>3. FatEntry(r.v, c) # next
    <3>1. Linked(F, c, n)[c] = n
      <4>1. c # n /\ c # 0  BY <1>4, <1>8, <2>1
      <4> QED  BY <1>4, <4>1 DEF Linked
    <3> QED  BY <1>4, <1>9, <2>1, <3>1
  <2>4. Finish(f, r.v, kept, owned, noSpace) /\ noSpace = FALSE
    BY <1>8, <2>1, <2>2, <2>3 DEF MiddleStretched
  <2> HIDE DEF noSpace, n
  <2>5. Disjoint(owned) /\ Starts(kept, owned)  BY <1>2, ApartLess, StartsBeside
  <2>6. Leads(Fat(r.v), owned)
    <3> HIDE DEF F
    <3>1. Leads(Linked(F, ch[i], n), chains \ {ch})  BY <1>2, <1>3, <2>1, OthersLinked
    <3> QED  BY <2>1, <3>1
  <2>7. CallLeaves(v, r.v, kept, owned, noSpace)
    BY <1>1, <1>10, <2>2, <2>4, <2>5, <2>6 DEF CallLeaves
  <2>8. IInv' /\ chains' = owned /\ synced' = kept /\ FreeSeen(vol') = FreeOf(Fat(r.v))
    <3> HIDE DEF owned, kept
    <3> QED  BY <2>2, <2>4, <2>7, CallEnds
  <2>9. FreeSeen(vol') = FreeSeen(vol) \ {n}
    BY <1>2, <1>4, <2>1, <2>8, LinkedFat, SeenFree
  <2>10. FreeSeen(vol') \subseteq FreeSeen(vol) \cup {}  BY <2>9
  <2>11. Refined  BY <1>3, <2>8, <2>10, GivenUp
  <2> QED  BY <2>8, <2>11
<1> QED  BY <1>5, <1>4, <1>7, <1>8, <1>11, <1>12 DEF HasFollowed

\* create_chain for any cluster of a chain.
LEMMA StretchStep ==
  ASSUME IInv, NEW ch \in chains, NEW i \in 1..Len(ch), Stretch(ch, i)
  PROVE  IInv' /\ Refined
<1>1. ch \in Seq(Clusters) /\ Len(ch) \in Nat  BY DEF IInv, ChainInv, Disjoint
<1>2. PICK f \in FaultsAhead :
        LET r == CreateChain(Ahead(f), ch[i])
            next == IF i < Len(ch) THEN ch[i + 1] ELSE 0
            lost == ~Stopped(r.v) /\ next # 0 /\ FatEntry(r.v, ch[i]) # next
        IN  IF lost THEN Finish(f, r.v, Pool!ShortenTo(ch, 0), chains \ {ch}, r.val = 0)
            ELSE Finish(f, r.v, synced,
                        IF next = 0 /\ r.val \in Clusters
                        THEN (chains \ {ch}) \cup {Append(ch, r.val)} ELSE chains,
                        r.val = 0)
  BY DEF Stretch
<1> DEFINE v == Ahead(f)
           r == CreateChain(v, ch[i])
<1>3. Begins(f, v)  BY DEF Begins
<1>4. CASE i < Len(ch)
  <2>1. i \in 1..(Len(ch) - 1) /\ i + 1 \in 1..Len(ch)  BY <1>1, <1>4
  <2>2. ch[i + 1] # 0  BY <1>1, <2>1, Numbers
  <2>3. MiddleStretched(f, r.v, r.val, ch, i)  BY <1>2, <1>4, <2>2 DEF MiddleStretched
  <2> HIDE DEF v
  <2> QED  BY <1>3, <2>1, <2>3, MiddleStretchStep
<1>5. CASE ~(i < Len(ch))
  <2>1. i = Len(ch)  BY <1>1, <1>5
  <2>2. LastStretched(f, r.v, r.val, ch)  BY <1>2, <1>5 DEF LastStretched
  <2> HIDE DEF v
  <2> QED  BY <1>3, <2>1, <2>2, LastStretchStep
<1> QED  BY <1>4, <1>5

\* What is in no chain when one is given up.
LEMMA UnusedDropped ==
  ASSUME NEW C, Disjoint(C), NEW ch \in C
  PROVE  Pool!Unused(C \ {ch}) = Pool!Unused(C) \cup {ch[i] : i \in 1..Len(ch)}
<1>1. C \subseteq Seq(Clusters) /\ C \ {ch} \subseteq Seq(Clusters)  BY DEF Disjoint
<1>2. ch \in Seq(Clusters)  BY <1>1
<1>3. \A i \in 1..Len(ch) : ch[i] \in Clusters  BY <1>2
<1>4. \A i \in 1..Len(ch) : \A s \in C \ {ch} : \A j \in 1..Len(s) : s[j] # ch[i]
  BY DEF Disjoint
<1>5. /\ \A c : c \in Pool!Unused(C) <=> c \in Clusters /\ \A s \in C : \A i \in 1..Len(s) : s[i] # c
      /\ \A c : c \in Pool!Unused(C \ {ch}) <=>
                  c \in Clusters /\ \A s \in C \ {ch} : \A i \in 1..Len(s) : s[i] # c
  BY <1>1, UnusedIs
<1>6. \A c : c \in Pool!Unused(C \ {ch}) <=>
             c \in Pool!Unused(C) \/ (\E i \in 1..Len(ch) : c = ch[i])
  <2> TAKE c
  <2>1. CASE \E i \in 1..Len(ch) : c = ch[i]  BY <1>3, <1>4, <1>5, <2>1
  <2>2. CASE \A i \in 1..Len(ch) : c # ch[i]  BY <1>5, <2>2
  <2> QED  BY <2>1, <2>2
<1> QED  BY <1>6, Zenon

\* The FATs that remove_chain may leave keep what must survive.
LEMMA RemovedIsKept ==
  ASSUME IInv, NEW ch \in chains, NEW k \in 0..Len(ch)
  PROVE  /\ Zeroed(Fat(vol), Firsts(ch, k)) \in Keeps(Pool!ShortenTo(ch, 0))
         /\ Leads(Zeroed(Fat(vol), Firsts(ch, k)), chains \ {ch})
         /\ FreeOf(Zeroed(Fat(vol), Firsts(ch, k))) = FreeOf(Fat(vol)) \cup Firsts(ch, k)
         /\ Firsts(ch, k) \subseteq {ch[i] : i \in 1..Len(ch)}
<1> DEFINE F == Fat(vol)
           A == Firsts(ch, k)
           H == Zeroed(F, A)
<1>1. F \in Fats /\ Reserved(F) /\ Disjoint(chains) /\ Leads(F, chains) /\ Starts(synced, chains)
  BY FatSeen DEF IInv, VolumeInv, ChainInv, Within
<1>2. ch \in Seq(Clusters) /\ Len(ch) \in Nat  BY <1>1 DEF Disjoint
<1>3. A \subseteq {ch[i] : i \in 1..Len(ch)} /\ A \subseteq Clusters
  <2>1. \A i \in 1..k : i \in 1..Len(ch)  BY <1>2
  <2> QED  BY <1>2, <2>1 DEF Firsts
<1> HIDE DEF F, A
<1>4. H \in Fats /\ Reserved(H) /\ FreeOf(H) = FreeOf(F) \cup A
  BY <1>1, <1>3, ZeroedFat
<1>5. Leads(H, chains \ {ch})  BY <1>1, <1>3, OthersLead
<1>6. Disjoint(chains \ {ch}) /\ Starts(Pool!ShortenTo(ch, 0), chains \ {ch})
  BY <1>1, ApartLess, StartsBeside
<1>7. H \in Keeps(Pool!ShortenTo(ch, 0))  BY <1>4, <1>5, <1>6 DEF Keeps
<1> QED  BY <1>3, <1>4, <1>5, <1>7 DEF F, A

\* The first clusters of a chain are free, all of them if nothing was to go wrong.
FreesFirsts(f, ch, w) ==
  \E k \in 0..Len(ch) : /\ Fat(w) = Zeroed(Fat(vol), Firsts(ch, k))
                        /\ f = NoFault => k = Len(ch)

\* Then the chain is given up.
LEMMA ChainGone ==
  ASSUME IInv, NEW f, NEW v, Begins(f, v), NEW ch \in chains, NEW w,
         Within(w, Keeps(Pool!ShortenTo(ch, 0))), Follows(v, w), KeepsCount(v, w),
         FreesFirsts(f, ch, w), Finish(f, w, Pool!ShortenTo(ch, 0), chains \ {ch}, FALSE)
  PROVE  IInv' /\ Refined
<1> DEFINE F == Fat(vol)
           owned == chains \ {ch}
           kept == Pool!ShortenTo(ch, 0)
<1>1. v.fault = f /\ Fat(v) = F  BY CallBegins
<1>2. Disjoint(chains) /\ Starts(synced, chains)  BY DEF IInv, ChainInv
<1>3. ch \in Seq(Clusters) /\ Len(ch) > 0 /\ Len(ch) \in Nat  BY <1>2 DEF Disjoint
<1>4. PICK k \in 0..Len(ch) : /\ Fat(w) = Zeroed(F, Firsts(ch, k))
                              /\ f = NoFault => k = Len(ch)
  BY DEF FreesFirsts
<1> DEFINE A == Firsts(ch, k)
<1>5. /\ Leads(Fat(w), owned) /\ FreeOf(Fat(w)) = FreeOf(F) \cup A
      /\ A \subseteq {ch[i] : i \in 1..Len(ch)}
  BY <1>4, RemovedIsKept
<1>6. Disjoint(owned) /\ Starts(kept, owned)  BY <1>2, ApartLess, StartsBeside
<1>7. f = NoFault => A = {ch[i] : i \in 1..Len(ch)}  BY <1>4 DEF Firsts
<1>8. Pool!Unused(owned) = Pool!Unused(chains) \cup {ch[i] : i \in 1..Len(ch)}
  BY <1>2, UnusedDropped
<1> HIDE DEF A, owned
<1>9. CallLeaves(v, w, kept, owned, FALSE)
  BY <1>1, <1>5, <1>6, <1>7, <1>8 DEF CallLeaves
<1> HIDE DEF kept
<1>10. /\ IInv'
       /\ IF Stopped(w) THEN Pool!Survive(kept)
          ELSE chains' = owned /\ synced' = kept /\ FreeSeen(vol') = FreeOf(Fat(w))
  BY <1>9, CallEnds DEF kept, owned
<1>11. CASE Stopped(w)
  <2>1. 0 \in 0..(Len(ch) - 1)  BY <1>3
  <2> QED  BY <1>10, <1>11, <2>1, CrashRefined DEF kept
<1>12. CASE ~Stopped(w)
  <2>1. FreeSeen(vol') \subseteq FreeSeen(vol) \cup A  BY <1>5, <1>10, <1>12, SeenFree
  <2>2. A \subseteq {ch[i] : i \in (0 + 1)..Len(ch)}  BY <1>5
  <2> QED  BY <1>3, <1>10, <1>12, <2>1, <2>2, GivenUp DEF kept, owned
<1> QED  BY <1>11, <1>12

\* remove_chain of a chain of the FAT.
LEMMA RemovalDone ==
  ASSUME IInv, NEW f, NEW v, Begins(f, v), NEW ch \in chains, NEW r, r = RemoveChain(v, ch[1])
  PROVE  /\ Within(r.v, Keeps(Pool!ShortenTo(ch, 0))) /\ Follows(v, r.v) /\ KeepsCount(v, r.v)
         /\ FreesFirsts(f, ch, r.v)
<1> DEFINE F == Fat(vol)
           H == Keeps(Pool!ShortenTo(ch, 0))
<1>1. Within(v, Keeps(synced)) /\ v.fault = f /\ Fat(v) = F  BY CallBegins
<1>2. Disjoint(chains) /\ Leads(F, chains)  BY DEF IInv, ChainInv
<1>3. Within(v, H)
  <2>1. Keeps(synced) \subseteq H  BY ShorterKept
  <2> HIDE DEF H
  <2> QED  BY <1>1, <2>1, SoundIn
<1>4. Path(F, ch)  BY <1>2, EachIsPath
<1>5. \A k \in 0..Len(ch) : Zeroed(F, Firsts(ch, k)) \in H  BY RemovedIsKept
<1>6. /\ IsReport(r) /\ Within(r.v, H) /\ Follows(v, r.v) /\ KeepsCount(v, r.v)
      /\ \/ r.res = "FR_OK" /\ Fat(r.v) = Zeroed(F, Firsts(ch, Len(ch)))
         \/ FailsToo(v, r.res) /\ \E k \in 0..Len(ch) : Fat(r.v) = Zeroed(F, Firsts(ch, k))
  <2> HIDE DEF H, F
  <2> QED  BY <1>1, <1>3, <1>4, <1>5, ChainRemoved
<1>7. FreesFirsts(f, ch, r.v)
  <2>1. CASE Fat(r.v) = Zeroed(F, Firsts(ch, Len(ch)))
    <3>1. Len(ch) \in 0..Len(ch)
      <4>1. ch \in Seq(Clusters)  BY <1>2 DEF Disjoint
      <4> QED  BY <4>1
    <3> QED  BY <2>1, <3>1 DEF FreesFirsts
  <2>2. CASE FailsToo(v, r.res) /\ \E k \in 0..Len(ch) : Fat(r.v) = Zeroed(F, Firsts(ch, k))
    <3>1. f # NoFault  BY <1>1, <2>2 DEF FailsToo, NoFault, Fault
    <3> QED  BY <2>2, <3>1 DEF FreesFirsts
  <2> QED  BY <1>6, <2>1, <2>2
<1> QED  BY <1>6, <1>7

\* f_unlink.
LEMMA RemoveStep ==
  ASSUME IInv, NEW ch \in chains, Remove(ch)
  PROVE  IInv' /\ Refined
<1>1. PICK f \in FaultsAhead :
        Finish(f, RemoveChain(Ahead(f), ch[1]).v, Pool!ShortenTo(ch, 0), chains \ {ch}, FALSE)
  BY DEF Remove
<1> DEFINE v == Ahead(f)
           r == RemoveChain(v, ch[1])
<1>2. Begins(f, v)  BY DEF Begins
<1>3. Finish(f, r.v, Pool!ShortenTo(ch, 0), chains \ {ch}, FALSE)  BY <1>1
<1> HIDE DEF v
<1>4. /\ Within(r.v, Keeps(Pool!ShortenTo(ch, 0))) /\ Follows(v, r.v) /\ KeepsCount(v, r.v)
      /\ FreesFirsts(f, ch, r.v)
  BY <1>2, RemovalDone
<1> QED  BY <1>2, <1>3, <1>4, ChainGone

\* f_open of a file to be overwritten.
LEMMA OverwriteStep ==
  ASSUME IInv, NEW ch \in chains, Overwrite(ch)
  PROVE  IInv' /\ Refined
<1>1. PICK f \in FaultsAhead :
        LET r == RemoveChain(Ahead(f), ch[1])
            v == IF r.res = "FR_OK" THEN [r.v EXCEPT !.last = ch[1] - 1] ELSE r.v
        IN  Finish(f, v, Pool!ShortenTo(ch, 0), chains \ {ch}, FALSE)
  BY DEF Overwrite
<1> DEFINE v == Ahead(f)
           r == RemoveChain(v, ch[1])
           x == [r.v EXCEPT !.last = ch[1] - 1]
           w == IF r.res = "FR_OK" THEN x ELSE r.v
           H == Keeps(Pool!ShortenTo(ch, 0))
<1>2. Begins(f, v)  BY DEF Begins
<1>3. Finish(f, w, Pool!ShortenTo(ch, 0), chains \ {ch}, FALSE)  BY <1>1
<1> HIDE DEF v
<1>4. Within(r.v, H) /\ Follows(v, r.v) /\ KeepsCount(v, r.v) /\ FreesFirsts(f, ch, r.v)
  BY <1>2, RemovalDone
<1> HIDE DEF r, H
<1>5. Within(x, H) /\ Follows(v, x) /\ KeepsCount(v, x) /\ FreesFirsts(f, ch, x)
  <2>1. HasFields(r.v)  BY <1>4 DEF Within, IsVolume
  <2>2. /\ HasFields(x) /\ x.disk = r.v.disk /\ x.win = r.v.win /\ x.sect = r.v.sect
        /\ x.dirty = r.v.dirty /\ x.free = r.v.free /\ x.info = r.v.info /\ x.fault = r.v.fault
    BY <2>1 DEF HasFields
  <2> HIDE DEF x
  <2>3. Within(x, H) /\ Fat(x) = Fat(r.v) /\ Follows(r.v, x)
    BY <1>4, <2>2, SameSound
  <2>4. Follows(v, x)  BY <1>4, <2>3, FollowsThrough
  <2>5. KeepsCount(v, x)  BY <1>4, <2>2, <2>3 DEF KeepsCount, Counted
  <2>6. FreesFirsts(f, ch, x)  BY <1>4, <2>3 DEF FreesFirsts
  <2> QED  BY <2>3, <2>4, <2>5, <2>6
<1>6. Within(w, H) /\ Follows(v, w) /\ KeepsCount(v, w) /\ FreesFirsts(f, ch, w)
  BY <1>4, <1>5
<1> HIDE DEF w
<1> QED  BY <1>2, <1>3, <1>6, ChainGone DEF H

\* What is in no chain when one is cut.
LEMMA UnusedCut ==
  ASSUME NEW C, Disjoint(C), NEW ch \in C, NEW i \in 1..(Len(ch) - 1),
         NEW t, NEW u, NEW D, IsCut(C, ch, i, t, u, D), Disjoint(D)
  PROVE  Pool!Unused(D) = Pool!Unused(C) \cup {ch[j] : j \in (i + 1)..Len(ch)}
<1> DEFINE B == {ch[j] : j \in (i + 1)..Len(ch)}
<1>1. C \subseteq Seq(Clusters) /\ D \subseteq Seq(Clusters) /\ ch \in Seq(Clusters)  BY DEF Disjoint
<1>2. /\ t \in Seq(Clusters) /\ Len(t) = i /\ \A j \in 1..i : t[j] = ch[j]
      /\ i \in 1..Len(ch) /\ Len(ch) \in Nat /\ i \in Nat
  BY <1>1, TwoParts
<1>3. D = (C \ {ch}) \cup {t}  BY DEF IsCut
<1> DEFINE Misses(s, c) == \A j \in 1..Len(s) : s[j] # c
<1>4. /\ \A c : c \in Pool!Unused(C) <=> c \in Clusters /\ \A s \in C : Misses(s, c)
      /\ \A c : c \in Pool!Unused(D) <=> c \in Clusters /\ \A s \in D : Misses(s, c)
  BY <1>1, UnusedIs
<1>5. \A c : Misses(ch, c) <=> Misses(t, c) /\ c \notin B
  <2>1. 1..Len(ch) = (1..i) \cup ((i + 1)..Len(ch))  BY <1>2
  <2> QED  BY <1>2, <2>1
<1>6. \A c \in B : c \in Clusters /\ Misses(t, c) /\ \A s \in C \ {ch} : Misses(s, c)
  <2> SUFFICES ASSUME NEW k \in (i + 1)..Len(ch)
               PROVE  /\ ch[k] \in Clusters /\ Misses(t, ch[k])
                      /\ \A s \in C \ {ch} : Misses(s, ch[k])
    OBVIOUS
  <2>1. k \in 1..Len(ch) /\ \A j \in 1..i : j \in 1..Len(ch) /\ j # k  BY <1>2
  <2>2. Misses(t, ch[k])  BY <1>2, <2>1 DEF Disjoint
  <2>3. \A s \in C \ {ch} : Misses(s, ch[k])  BY <2>1 DEF Disjoint
  <2> QED  BY <1>1, <2>1, <2>2, <2>3
<1> HIDE DEF Misses, B
<1> QED  BY <1>3, <1>4, <1>5, <1>6 DEF B

\* What f_truncate leaves of a chain, if the entry of its last cluster shows that it is cut.
Truncated(f, w, ch, i) ==
  IF Stopped(w) \/ FatEntry(w, ch[i]) = LastLink
  THEN Finish(f, w, Pool!ShortenTo(ch, i), (chains \ {ch}) \cup {SubSeq(ch, 1, i)}, FALSE)
  ELSE Finish(f, w, synced, chains, FALSE)

\* The FATs that f_truncate may leave.
CutFat(ch, i, k) ==
  Zeroed([Fat(vol) EXCEPT ![ch[i]] = LastLink], Firsts(SubSeq(ch, i + 1, Len(ch)), k))

\* The clusters behind the cut are free, or some of them from the first one on.
FreesBehind(f, ch, i, w) ==
  \E k \in 0..(Len(ch) - i) : Fat(w) = CutFat(ch, i, k) /\ (f = NoFault => k = Len(ch) - i)

\* They keep what must survive.
LEMMA CutIsKept ==
  ASSUME IInv, NEW ch \in chains, NEW i \in 1..(Len(ch) - 1), NEW k \in 0..(Len(ch) - i),
         NEW t, NEW u, NEW D, IsCut(chains, ch, i, t, u, D), NEW H, H = CutFat(ch, i, k)
  PROVE  /\ H \in Keeps(Pool!ShortenTo(ch, i))
         /\ Disjoint(D) /\ Leads(H, D) /\ Starts(Pool!ShortenTo(ch, i), D)
         /\ FreeOf(H) = FreeOf(Fat(vol)) \cup Firsts(u, k)
         /\ Firsts(u, k) \subseteq {ch[j] : j \in (i + 1)..Len(ch)}
         /\ k = Len(ch) - i => Firsts(u, k) = {ch[j] : j \in (i + 1)..Len(ch)}
<1> DEFINE F == Fat(vol)
           E == [F EXCEPT ![ch[i]] = LastLink]
           A == Firsts(u, k)
<1>1. F \in Fats /\ Reserved(F) /\ Disjoint(chains) /\ Leads(F, chains) /\ Starts(synced, chains)
  BY FatSeen DEF IInv, VolumeInv, ChainInv, Within
<1>2. ch \in Seq(Clusters)  BY <1>1 DEF Disjoint
<1> HIDE DEF F, E, A
<1>3. /\ Len(u) = Len(ch) - i /\ i + 1 \in 1..Len(ch) /\ Len(ch) \in Nat /\ i \in Nat
  <2>1. u = SubSeq(ch, i + 1, Len(ch))  BY DEF IsCut
  <2>2. i \in Nat /\ Len(ch) \in Nat /\ 1 <= i /\ i < Len(ch)  BY <1>2
  <2>3. Len(u) = Len(ch) - i  BY <1>2, <2>1, <2>2
  <2> QED  BY <2>2, <2>3
<1>4. /\ A \subseteq {ch[j] : j \in (i + 1)..Len(ch)}
      /\ k = Len(u) => A = {ch[j] : j \in (i + 1)..Len(ch)}
  BY <1>2, <1>3, FirstsBehind DEF A
<1>5. H = Zeroed(E, A)  BY DEF CutFat, IsCut, F, E, A
<1>6. IsEnded(F, ch[i], E)  BY DEF IsEnded, E
<1>7. /\ E \in Fats /\ Reserved(E) /\ FreeOf(E) = FreeOf(F)
      /\ Disjoint(D) /\ Leads(Zeroed(E, A), D)
  <2>1. /\ E \in Fats /\ Reserved(E) /\ FreeOf(E) = FreeOf(F)
        /\ Disjoint(D) /\ LeadsCut(E, ch, i, D)
    BY <1>1, <1>6, ChainCut
  <2> QED  BY <1>4, <2>1 DEF LeadsCut
<1>8. A \subseteq Clusters
  <2>1. \A j \in (i + 1)..Len(ch) : j \in 1..Len(ch)  BY <1>3
  <2> QED  BY <1>2, <1>4, <2>1
<1>9. H \in Fats /\ Reserved(H) /\ FreeOf(H) = FreeOf(F) \cup A
  BY <1>5, <1>7, <1>8, ZeroedFat
<1>10. Starts(Pool!ShortenTo(ch, i), D)  BY <1>1, StartsCut
<1>11. H \in Keeps(Pool!ShortenTo(ch, i))  BY <1>5, <1>7, <1>9, <1>10 DEF Keeps
<1> QED  BY <1>3, <1>4, <1>5, <1>7, <1>9, <1>10, <1>11 DEF F, A

\* A chain is cut, and some clusters behind the cut become free or none do.
LEMMA CutRefined ==
  ASSUME NEW ch \in chains, NEW i \in 0..(Len(ch) - 1), i > 0, i < Len(ch),
         NEW A, A \subseteq {ch[j] : j \in (i + 1)..Len(ch)},
         chains' = (chains \ {ch}) \cup {SubSeq(ch, 1, i)}, synced' = Pool!ShortenTo(ch, i),
         FreeSeen(vol') \subseteq FreeSeen(vol) \cup A
  PROVE  Refined
<1>1. {SubSeq(ch, 1, k) : k \in {i} \ {0}} = {SubSeq(ch, 1, i)}  OBVIOUS
<1>2. Pool!Keep(ch, i)  BY <1>1 DEF Pool!Keep
<1>3. Pool!CutFailed(ch, i)  BY <1>2 DEF Pool!CutFailed
<1> QED  BY <1>3 DEF Refined, Pool!Next

\* f_truncate has marked the end and gone on to free what is behind it.
LEMMA ChainCutOff ==
  ASSUME IInv, NEW f, NEW v, Begins(f, v), NEW ch \in chains, NEW i \in 1..(Len(ch) - 1), NEW w,
         Within(w, Keeps(Pool!ShortenTo(ch, i))), Follows(v, w), KeepsCount(v, w),
         FreesBehind(f, ch, i, w), Truncated(f, w, ch, i)
  PROVE  IInv' /\ Refined
<1> DEFINE F == Fat(vol)
           t == SubSeq(ch, 1, i)
           u == SubSeq(ch, i + 1, Len(ch))
           D == (chains \ {ch}) \cup {t}
           kept == Pool!ShortenTo(ch, i)
           B == {ch[j] : j \in (i + 1)..Len(ch)}
<1>1. v.fault = f /\ Fat(v) = F  BY CallBegins
<1>2. Disjoint(chains) /\ Starts(synced, chains)  BY DEF IInv, ChainInv
<1>3. ch \in Seq(Clusters)  BY <1>2 DEF Disjoint
<1>4. IsCut(chains, ch, i, t, u, D)  BY DEF IsCut
<1>5. PICK k \in 0..(Len(ch) - i) : /\ Fat(w) = CutFat(ch, i, k)
                                    /\ f = NoFault => k = Len(ch) - i
  BY DEF FreesBehind
<1> DEFINE A == Firsts(u, k)
<1>6. t \in D  OBVIOUS
<1>7. D = (chains \ {ch}) \cup {SubSeq(ch, 1, i)}  OBVIOUS
<1> HIDE DEF D, t, u
<1>8. /\ t \in Seq(Clusters) /\ Len(t) = i /\ t[i] = ch[i]
      /\ i \in 1..Len(ch) /\ Len(ch) \in Nat /\ i \in Nat /\ i \in 1..Len(t)
  BY <1>3, <1>4, TwoParts
<1>9. /\ Disjoint(D) /\ Leads(Fat(w), D) /\ Starts(kept, D)
      /\ FreeOf(Fat(w)) = FreeOf(F) \cup A /\ A \subseteq B
      /\ f = NoFault => A = B
  BY <1>4, <1>5, CutIsKept
<1>10. Pool!Unused(D) = Pool!Unused(chains) \cup B
  BY <1>2, <1>4, <1>9, UnusedCut
<1>11. FatEntry(w, ch[i]) = LastLink
  <2>1. Fat(w)[t[i]] = LastLink  BY <1>6, <1>8, <1>9 DEF Leads
  <2>2. ch[i] \in FatEntries  BY <1>3, <1>8, Numbers
  <2> QED  BY <1>8, <2>1, <2>2 DEF Fat
<1>12. Finish(f, w, kept, D, FALSE)
  BY <1>7, <1>11 DEF Truncated
<1> HIDE DEF A, B
<1>13. CallLeaves(v, w, kept, D, FALSE)
  BY <1>1, <1>9, <1>10 DEF CallLeaves
<1> HIDE DEF kept
<1>14. /\ IInv'
       /\ IF Stopped(w) THEN Pool!Survive(kept)
          ELSE chains' = D /\ synced' = kept /\ FreeSeen(vol') = FreeOf(Fat(w))
  BY <1>12, <1>13, CallEnds
<1>15. i \in 0..(Len(ch) - 1) /\ i > 0 /\ i < Len(ch)  BY <1>8
<1>16. CASE Stopped(w)
  BY <1>14, <1>15, <1>16, CrashRefined DEF kept
<1>17. CASE ~Stopped(w)
  <2>1. FreeSeen(vol') \subseteq FreeSeen(vol) \cup A  BY <1>9, <1>14, <1>17, SeenFree
  <2>2. A \subseteq {ch[j] : j \in (i + 1)..Len(ch)}  BY <1>9 DEF B
  <2>3. chains' = (chains \ {ch}) \cup {SubSeq(ch, 1, i)} /\ synced' = Pool!ShortenTo(ch, i)
    BY <1>7, <1>14, <1>17 DEF kept
  <2> QED  BY <1>14, <1>15, <2>1, <2>2, <2>3, CutRefined
<1> QED  BY <1>16, <1>17

\* f_truncate has failed before it changed anything.
LEMMA NotCut ==
  ASSUME IInv, NEW f, NEW v, Begins(f, v), NEW ch \in chains, NEW i \in 1..(Len(ch) - 1), NEW w,
         Within(w, Keeps(synced)), Follows(v, w), Fat(w) = Fat(vol), FailsToo(v, "FR_DISK_ERR"),
         Truncated(f, w, ch, i)
  PROVE  IInv' /\ Refined
<1> DEFINE F == Fat(vol)
<1>1. v.fault = f  BY CallBegins
<1>2. Disjoint(chains) /\ Leads(F, chains)  BY DEF IInv, ChainInv
<1>3. ch \in Seq(Clusters) /\ i \in 1..Len(ch) /\ i + 1 \in 1..Len(ch) /\ i < Len(ch)
  BY <1>2 DEF Disjoint
<1>4. ~Stopped(w) /\ f # NoFault
  <2>1. v.fault.kind \in {"read", "write"}  BY DEF FailsToo
  <2>2. ~(w.fault.kind \in {"crash", "stopped"})  BY <2>1 DEF Follows, FaultAfter
  <2> QED  BY <1>1, <2>1, <2>2 DEF Stopped, NoFault, Fault
<1>5. FatEntry(w, ch[i]) # LastLink
  <2>1. F[ch[i]] = ch[i + 1]  BY <1>2, <1>3 DEF Leads
  <2>2. ch[i] \in FatEntries /\ ch[i + 1] \in Clusters /\ LastLink \notin Clusters
    BY <1>3, Numbers
  <2> QED  BY <2>1, <2>2 DEF Fat
<1>6. Finish(f, w, synced, chains, FALSE)  BY <1>4, <1>5 DEF Truncated
<1>7. KeepsCount(v, w) /\ TakesNone(f, w)
  BY <1>1, <1>4 DEF KeepsCount, TakesNone
<1> QED  BY <1>6, <1>7, NothingTaken

\* The end of the chain is marked; nothing is free that was not.
LEMMA EndMarked ==
  ASSUME IInv, NEW ch \in chains, NEW i \in 1..(Len(ch) - 1),
         NEW v, Within(v, Keeps(synced)), v.sect \in FirstCopy, Fat(v) = Fat(vol),
         NEW p, p = PutFat(v, ch[i], LastLink)
  PROVE  /\ Follows(v, p.v)
         /\ \/ p.res = "FR_OK" /\ Within(p.v, Keeps(Pool!ShortenTo(ch, i))) /\ KeepsCount(v, p.v)
               /\ IsEnded(Fat(vol), ch[i], Fat(p.v))
            \/ p.res # "FR_OK" /\ Within(p.v, Keeps(synced)) /\ Fat(p.v) = Fat(vol)
               /\ FailsToo(v, "FR_DISK_ERR")
<1> DEFINE F == Fat(vol)
           G == Keeps(synced)
           H == Keeps(Pool!ShortenTo(ch, i))
           c == ch[i]
           E == [F EXCEPT ![c] = LastLink]
           t == SubSeq(ch, 1, i)
           u == SubSeq(ch, i + 1, Len(ch))
           D == (chains \ {ch}) \cup {t}
<1>1. F \in Fats /\ Disjoint(chains) /\ Leads(F, chains)
  BY FatSeen DEF IInv, VolumeInv, ChainInv, Within
<1>2. ch \in Seq(Clusters) /\ i \in 1..Len(ch) /\ Len(ch) \in Nat /\ i \in Nat
  BY <1>1 DEF Disjoint
<1>3. c \in Clusters /\ F[c] # 0  BY <1>1, <1>2, NoneFree
<1>4. E \in H
  <2>1. IsCut(chains, ch, i, t, u, D)  BY DEF IsCut
  <2>2. 0 \in 0..(Len(ch) - i)  BY <1>2
  <2>3. E = CutFat(ch, i, 0)
    <3>1. Firsts(u, 0) = {}  BY DEF Firsts
    <3>2. E \in Fats  BY <1>1, Numbers DEF Fats
    <3>3. Zeroed(E, {}) = E  BY <3>2 DEF Zeroed, Fats
    <3> QED  BY <3>1, <3>3 DEF CutFat
  <2> HIDE DEF t, u, D, E
  <2> QED  BY <2>1, <2>2, <2>3, CutIsKept
<1>5. Within(v, H)
  <2>1. G \subseteq H  BY <1>2, ShorterKept
  <2> HIDE DEF G, H
  <2> QED  BY <2>1, SoundIn DEF G
<1>6. LastLink \in Link /\ LastLink # 0  BY Numbers
<1> HIDE DEF H
<1>7. /\ IsReport(p) /\ Within(p.v, H) /\ Follows(v, p.v)
      /\ p.v.last = v.last /\ p.v.free = v.free /\ p.v.info = v.info
      /\ p.v.disk[FsInfo] = v.disk[FsInfo]
      /\ \/ p.res = "FR_OK" /\ Fat(p.v) = E
         \/ FailsToo(v, p.res) /\ Fat(p.v) = F
  <2>1. [Fat(v) EXCEPT ![c] = LastLink] = E  OBVIOUS
  <2>2. /\ IsReport(p) /\ Within(p.v, H) /\ Follows(v, p.v) /\ p.v.sect \in FirstCopy
        /\ p.v.last = v.last /\ p.v.free = v.free /\ p.v.info = v.info
        /\ p.v.disk[FsInfo] = v.disk[FsInfo]
        /\ \/ p.res = "FR_OK" /\ Fat(p.v) = [Fat(v) EXCEPT ![c] = LastLink]
           \/ FailsToo(v, p.res) /\ Fat(p.v) = Fat(v)
    <3>1. [Fat(v) EXCEPT ![c] = LastLink] \in H  BY <1>4, <2>1
    <3>2. p = PutFat(v, c, LastLink)  OBVIOUS
    <3> HIDE DEF c
    <3> QED  BY <1>3, <1>5, <1>6, <3>1, <3>2, EntryPut
  <2> QED  BY <2>1, <2>2
<1>8. CASE p.res = "FR_OK"
  <2>1. Fat(p.v) = E  BY <1>7, <1>8 DEF FailsToo
  <2>2. FreeOf(E) = FreeOf(F)  BY <1>1, <1>3, <1>6, NoneFreed
  <2> HIDE DEF E
  <2>3. KeepsCount(v, p.v)
    BY <1>7, <2>1, <2>2 DEF KeepsCount, Counted
  <2> QED  BY <1>7, <1>8, <2>1, <2>3 DEF H, E, IsEnded
<1>9. CASE p.res # "FR_OK"
  <2>1. FailsToo(v, p.res) /\ Fat(p.v) = F  BY <1>7, <1>9
  <2>2. Within(p.v, G)
    <3> HIDE DEF G
    <3> QED  BY <1>3, <1>9, PutFailed DEF G
  <2> QED  BY <1>7, <1>9, <2>1, <2>2 DEF FailsToo
<1> QED  BY <1>8, <1>9

\* f_truncate.
LEMMA TruncateStep ==
  ASSUME IInv, NEW ch \in chains, NEW i \in 1..(Len(ch) - 1), Truncate(ch, i)
  PROVE  IInv' /\ Refined
<1>1. PICK f \in FaultsAhead :
        LET v == CutBehind(Ahead(f), ch[i])
            cut == Stopped(v) \/ FatEntry(v, ch[i]) = LastLink
        IN  IF cut THEN Finish(f, v, Pool!ShortenTo(ch, i),
                               (chains \ {ch}) \cup {SubSeq(ch, 1, i)}, FALSE)
            ELSE Finish(f, v, synced, chains, FALSE)
  BY DEF Truncate
<1> DEFINE v == Ahead(f)
           c == ch[i]
           g == GetFat(v, c)
           w == CutBehind(v, c)
           F == Fat(vol)
           G == Keeps(synced)
           H == Keeps(Pool!ShortenTo(ch, i))
           p == PutFat(g.v, c, LastLink)
           r == RemoveChain(p.v, g.val)
<1>2. Begins(f, v)  BY DEF Begins
<1>3. Truncated(f, w, ch, i)  BY <1>1 DEF Truncated
<1>4. w = CutFrom(g, c).v  BY DEF CutBehind
<1> HIDE DEF v, w
<1>5. Within(v, G) /\ Fat(v) = F /\ v.fault = f /\ IsFault(v.fault)  BY <1>2, CallBegins
<1>6. F \in Fats /\ Disjoint(chains) /\ Leads(F, chains)
  BY FatSeen DEF IInv, VolumeInv, ChainInv, Within
<1>7. /\ ch \in Seq(Clusters) /\ i \in 1..Len(ch) /\ i + 1 \in 1..Len(ch) /\ i < Len(ch)
      /\ Len(ch) \in Nat /\ i \in Nat
  BY <1>6 DEF Disjoint
<1>8. c \in Clusters /\ F[c] = ch[i + 1] /\ ch[i + 1] \in Clusters
  BY <1>6, <1>7 DEF Leads
<1>9. /\ Within(g.v, G) /\ Moves(v, g.v)
      /\ \/ g.val = F[c] /\ g.v.sect = FatSector(0, c)
         \/ g.val = Max32 /\ FailsToo(v, "FR_DISK_ERR") /\ g.v.fault = NoFault
  <2> HIDE DEF c, g, F, G
  <2> QED  BY <1>5, <1>8, EntryGot DEF g
<1> HIDE DEF g, G
<1>10. Follows(v, g.v) /\ Fat(g.v) = F  BY <1>5, <1>9 DEF Moves
<1>11. CASE g.val = Max32 /\ FailsToo(v, "FR_DISK_ERR")
  <2>1. w = g.v  BY <1>4, <1>11 DEF CutFrom
  <2> QED  BY <1>2, <1>3, <1>9, <1>10, <1>11, <2>1, NotCut DEF G
<1>12. CASE g.val = F[c] /\ g.v.sect = FatSector(0, c)
  <2>1. g.val = ch[i + 1] /\ g.val \in Clusters  BY <1>8, <1>12
  <2>2. ~(g.val \in {1, Max32} \/ g.val >= NFatEnt)
    <3>1. g.val \in 2..(NFatEnt - 1) /\ NFatEnt \in Nat /\ Max32 \notin Link /\ g.val \in Link
      BY <2>1, Numbers
    <3> QED  BY <3>1
  <2>3. w = IF p.res = "FR_OK" THEN r.v ELSE p.v
    BY <1>4, <2>2 DEF CutFrom, Then
  <2>4. g.v.sect \in FirstCopy  BY <1>8, <1>12, Sectors, Numbers
  <2>5. /\ Follows(g.v, p.v)
        /\ \/ p.res = "FR_OK" /\ Within(p.v, H) /\ KeepsCount(g.v, p.v)
              /\ IsEnded(F, c, Fat(p.v))
           \/ p.res # "FR_OK" /\ Within(p.v, G) /\ Fat(p.v) = F /\ FailsToo(g.v, "FR_DISK_ERR")
    BY <1>9, <1>10, <2>4, EndMarked DEF G
  <2>6. Follows(v, p.v)  BY <1>10, <2>5, FollowsThrough
  <2> HIDE DEF p
  <2>7. CASE p.res # "FR_OK"
    <3>1. w = p.v  BY <2>3, <2>7
    <3>2. FailsToo(v, "FR_DISK_ERR")  BY <1>5, <1>10, <2>5, <2>7, FailsAfter
    <3>3. Within(p.v, Keeps(synced)) /\ Fat(p.v) = Fat(vol)  BY <2>5, <2>7 DEF G
    <3> QED  BY <1>2, <1>3, <2>6, <3>1, <3>2, <3>3, NotCut
  <2>8. CASE p.res = "FR_OK"
    <3> DEFINE E == Fat(p.v)
               u == SubSeq(ch, i + 1, Len(ch))
               t == SubSeq(ch, 1, i)
               D == (chains \ {ch}) \cup {t}
    <3>1. Within(p.v, H) /\ KeepsCount(g.v, p.v) /\ IsEnded(F, c, E) /\ w = r.v
      BY <2>3, <2>5, <2>8
    <3>2. IsCut(chains, ch, i, t, u, D)  BY DEF IsCut
    <3>3. \A k \in 0..(Len(ch) - i) : CutFat(ch, i, k) = Zeroed(E, Firsts(u, k))
      BY <3>1 DEF CutFat, IsEnded
    <3> HIDE DEF t, u, D, E
    <3>4. Path(E, u)
      <4> HIDE DEF F, c
      <4>1. IsEnded(F, ch[i], E)  BY <3>1 DEF c
      <4> QED  BY <1>6, <3>2, <4>1, ChainCut
    <3>5. Len(u) = Len(ch) - i /\ u[1] = ch[i + 1]
      <4>1. Len(u) = Len(ch) - i /\ \A j \in 1..(Len(ch) - i) : u[j] = ch[j + i]
        BY <1>7, <3>2, TwoParts
      <4>2. 1 \in 1..(Len(ch) - i) /\ 1 + i = i + 1  BY <1>7
      <4> QED  BY <4>1, <4>2
    <3>6. \A k \in 0..Len(u) : Zeroed(E, Firsts(u, k)) \in H
      BY <3>2, <3>3, <3>5, CutIsKept
    <3>7. r = RemoveChain(p.v, u[1])  BY <2>1, <3>5
    <3> HIDE DEF r, H
    <3>8. /\ IsReport(r) /\ Within(r.v, H) /\ Follows(p.v, r.v) /\ KeepsCount(p.v, r.v)
          /\ \/ r.res = "FR_OK" /\ Fat(r.v) = Zeroed(E, Firsts(u, Len(u)))
             \/ FailsToo(p.v, r.res) /\ \E k \in 0..Len(u) : Fat(r.v) = Zeroed(E, Firsts(u, k))
      BY <3>1, <3>4, <3>6, <3>7, ChainRemoved DEF E
    <3>9. Follows(v, r.v)  BY <2>6, <3>8, FollowsThrough
    <3>10. KeepsCount(v, r.v)
      <4>1. KeepsCount(v, g.v)  BY <1>9, MovesKeepCount
      <4>2. KeepsCount(v, p.v)  BY <1>10, <3>1, <4>1, CountKept2
      <4> QED  BY <2>6, <3>8, <4>2, CountKept2
    <3>11. FreesBehind(f, ch, i, r.v)
      <4>1. CASE Fat(r.v) = Zeroed(E, Firsts(u, Len(u)))
        <5>1. Len(ch) - i \in 0..(Len(ch) - i)  BY <1>7
        <5>2. Fat(r.v) = CutFat(ch, i, Len(ch) - i)  BY <3>3, <3>5, <4>1, <5>1
        <5> QED  BY <5>1, <5>2 DEF FreesBehind
      <4>2. CASE FailsToo(p.v, r.res) /\ \E k \in 0..Len(u) : Fat(r.v) = Zeroed(E, Firsts(u, k))
        <5>1. FailsToo(v, r.res)  BY <1>5, <2>6, <4>2, FailsAfter
        <5>2. f # NoFault  BY <1>5, <5>1 DEF FailsToo, NoFault, Fault
        <5>3. PICK k \in 0..(Len(ch) - i) : Fat(r.v) = CutFat(ch, i, k)
          BY <3>3, <3>5, <4>2
        <5> QED  BY <5>2, <5>3 DEF FreesBehind
      <4> QED  BY <3>8, <4>1, <4>2
    <3> QED  BY <1>2, <1>3, <3>1, <3>8, <3>9, <3>10, <3>11, ChainCutOff DEF H
  <2> QED  BY <2>7, <2>8
<1> QED  BY <1>9, <1>11, <1>12

\* f_sync.
LEMMA SyncStep ==
  ASSUME IInv, Sync
  PROVE  IInv' /\ Refined
<1>1. PICK f \in FaultsAhead :
        LET r == SyncFs(Ahead(f))
        IN  Finish(f, r.v, IF r.res = "FR_OK" /\ ~Stopped(r.v) THEN chains ELSE synced,
                   chains, FALSE)
  BY DEF Sync
<1> DEFINE v == Ahead(f)
           r == SyncFs(v)
           F == Fat(vol)
<1>2. Begins(f, v)  BY DEF Begins
<1>3. Finish(f, r.v, IF r.res = "FR_OK" /\ ~Stopped(r.v) THEN chains ELSE synced, chains, FALSE)
  BY <1>1
<1> HIDE DEF v
<1>4. Within(v, Keeps(synced)) /\ Fat(v) = F /\ v.fault = f  BY <1>2, CallBegins
<1>5. F \in Fats /\ Reserved(F) /\ Disjoint(chains) /\ Leads(F, chains) /\ Starts(chains, chains)
  BY FatSeen, StartsItself DEF IInv, VolumeInv, ChainInv, Within
<1>6. /\ Within(r.v, Keeps(synced)) /\ Follows(v, r.v) /\ Fat(r.v) = F /\ KeepsCount(v, r.v)
      /\ \/ r.res = "FR_OK" /\ DiskFat(r.v.disk) = F
         \/ FailsToo(v, r.res)
  BY <1>4, FsSynced
<1> HIDE DEF r
<1>7. CASE r.res = "FR_OK" /\ ~Stopped(r.v)
  <2>1. Finish(f, r.v, chains, chains, FALSE)  BY <1>3, <1>7
  <2>2. DiskFat(r.v.disk) = F  BY <1>6, <1>7 DEF FailsToo
  <2>3. F \in Keeps(chains)  BY <1>5 DEF Keeps
  <2>4. Within(r.v, Keeps(chains))  BY <1>6, <1>7, <2>2, <2>3 DEF Within
  <2>5. CallLeaves(v, r.v, chains, chains, FALSE)
    BY <1>4, <1>5, <1>6, <2>4 DEF CallLeaves
  <2>6. IInv' /\ chains' = chains /\ synced' = chains /\ FreeSeen(vol') = FreeOf(F)
    BY <1>2, <1>6, <1>7, <2>1, <2>5, CallEnds
  <2>7. Pool!Sync  BY <2>6, SeenFree DEF Pool!Sync
  <2> QED  BY <2>6, <2>7 DEF Refined, Pool!Next
<1>8. CASE ~(r.res = "FR_OK" /\ ~Stopped(r.v))
  <2>1. Finish(f, r.v, synced, chains, FALSE)  BY <1>3, <1>8
  <2>2. TakesNone(f, r.v)  BY <1>6 DEF TakesNone
  <2> QED  BY <1>2, <1>6, <2>1, <2>2, NothingTaken
<1> QED  BY <1>7, <1>8

\* f_getfree.
LEMMA CountStep ==
  ASSUME IInv, Count
  PROVE  IInv' /\ Refined
<1>1. PICK f \in FaultsAhead : Finish(f, GetFree(Ahead(f)).v, synced, chains, FALSE)
  BY DEF Count
<1> DEFINE v == Ahead(f)
           r == GetFree(v)
<1>2. Begins(f, v)  BY DEF Begins
<1>3. Finish(f, r.v, synced, chains, FALSE)  BY <1>1
<1> HIDE DEF v
<1>4. Within(v, Keeps(synced)) /\ Fat(v) = Fat(vol)  BY <1>2, CallBegins
<1>5. Reserved(Fat(v))  BY <1>4 DEF IInv, ChainInv
<1>6. Within(r.v, Keeps(synced)) /\ Follows(v, r.v) /\ Fat(r.v) = Fat(v) /\ KeepsCount(v, r.v)
  BY <1>4, <1>5, FreeGot
<1>7. TakesNone(f, r.v)  BY <1>4, <1>6 DEF TakesNone
<1> QED  BY <1>2, <1>3, <1>6, <1>7, NothingTaken

\* The program is stopped between two calls.
LEMMA CrashStep ==
  ASSUME IInv, Crash
  PROVE  IInv' /\ Refined
<1>1. /\ faults' = faults + 1 /\ vol' = Mounted(vol.disk)
      /\ chains' = {OnDisk(vol.disk, s[1]) : s \in synced}
      /\ synced' = chains' /\ full' = FALSE
  BY DEF Crash, Restart
<1>2. IsDisk(vol.disk) /\ DiskFat(vol.disk) \in Keeps(synced)
  BY DEF IInv, VolumeInv, Within, IsVolume
<1>3. Remounts(vol.disk, synced, vol', chains')  BY <1>1 DEF Remounts
<1>4. /\ Within(vol', Keeps(chains')) /\ vol'.fault = NoFault
      /\ Disjoint(chains') /\ Leads(Fat(vol'), chains') /\ Starts(synced, chains')
      /\ Starts(chains', chains') /\ Reserved(Fat(vol'))
  BY <1>2, <1>3, Survived
<1>5. faults' \in Nat /\ faults' # 0
  <2>1. faults \in Nat  BY DEF IInv, CountInv
  <2> QED  BY <1>1, <2>1
<1>6. IInv'
  BY <1>1, <1>4, <1>5 DEF IInv, VolumeInv, ChainInv, FullInv, CountInv
<1>7. Pool!WellFormed(chains')  BY <1>4, ApartIsWellFormed
<1>8. FreeSeen(vol') \subseteq Pool!Unused(chains')  BY <1>4, NoneFree, SeenFree
<1>9. Pool!Survive(synced)
  BY <1>1, <1>4, <1>7, <1>8 DEF Pool!Survive, Starts
<1> QED  BY <1>6, <1>9, CrashRefined

----------------------------------------------------------------------------
(* A new volume.                                                           *)

\* The root directory is a chain of one cluster, or none.
LEMMA RootIs ==
  /\ RootChains \subseteq Clusters /\ IsFiniteSet(RootChains)
  /\ Cardinality(RootChains) \in Nat
  /\ Cardinality(Clusters \ RootChains) = NFatEnt - 2 - Cardinality(RootChains)
<1>1. CASE Fat32
  <2>1. RootChains = {2} /\ 2 \in Clusters  BY <1>1, Numbers DEF RootChains
  <2>2. Cardinality(RootChains) = 1 /\ IsFiniteSet(RootChains)  BY <2>1, FS_Singleton
  <2>3. Cardinality(Clusters \ {2}) = Cardinality(Clusters) - 1
    BY <2>1, HowManyClusters, FS_RemoveElement
  <2> QED  BY <2>1, <2>2, <2>3, HowManyClusters
<1>2. CASE ~Fat32
  <2>1. RootChains = {}  BY <1>2 DEF RootChains
  <2>2. Cardinality(RootChains) = 0 /\ IsFiniteSet(RootChains)  BY <2>1, FS_EmptySet
  <2>3. NFatEnt \in Nat /\ Clusters \ {} = Clusters  BY Numbers
  <2> QED  BY <2>1, <2>2, <2>3, HowManyClusters
<1> QED  BY <1>1, <1>2

\* What f_mkfs leaves.
LEMMA FormattedIntact ==
  ASSUME NEW known, NEW d, d = FormattedDisk(known)
  PROVE  /\ IsDisk(d) /\ Mirrored(d)
         /\ DiskFat(d) = [c \in FatEntries |-> IF c < 2 \/ c \in RootChains THEN LastLink ELSE 0]
         /\ d[FsInfo].free = IF known THEN NFatEnt - 2 - Cardinality(RootChains) ELSE Max32
<1> DEFINE info == [free |-> IF known THEN NFatEnt - 2 - Cardinality(RootChains) ELSE Max32,
                    last |-> 2]
           sector(s) == [c \in EntriesOf(s[3]) |-> IF c < 2 \/ c \in RootChains THEN LastLink ELSE 0]
<1>1. d = [s \in FatSectors \cup {FsInfo} |-> IF s = FsInfo THEN info ELSE sector(s)]
  BY DEF FormattedDisk
<1>2. info.free = IF known THEN NFatEnt - 2 - Cardinality(RootChains) ELSE Max32
  OBVIOUS
<1> HIDE DEF info, sector
<1>3. d = [s \in FatSectors \cup {FsInfo} |-> d[s]] /\ d[FsInfo] = info
  BY <1>1
<1>4. \A s \in FatSectors : d[s] = sector(s)
  BY <1>1, Sectors
<1>5. \A s : sector(s) \in [EntriesOf(s[3]) -> Link]
  BY Numbers DEF sector
<1>6. IsDisk(d)
  BY <1>3, <1>4, <1>5 DEF IsDisk
<1>7. Mirrored(d)
  <2>1. ASSUME NEW s \in FatSectors PROVE d[s] = d[FirstOf(s)]
    <3>1. FirstOf(s) \in FatSectors /\ FirstOf(s)[3] = s[3]  BY Sectors
    <3>2. sector(FirstOf(s)) = sector(s)  BY <3>1 DEF sector
    <3> QED  BY <1>4, <3>1, <3>2
  <2> QED  BY <2>1 DEF Mirrored
<1>8. ASSUME NEW c \in FatEntries
      PROVE  d[FatSector(0, c)][c] = IF c < 2 \/ c \in RootChains THEN LastLink ELSE 0
  <2>1. FatSector(0, c) \in FatSectors /\ c \in EntriesOf(FatSector(0, c)[3])  BY Sectors
  <2>2. d[FatSector(0, c)] = sector(FatSector(0, c))  BY <1>4, <2>1
  <2> QED  BY <2>1, <2>2 DEF sector
<1> QED  BY <1>2, <1>3, <1>6, <1>7, <1>8 DEF DiskFat

\* The chain of a root directory, if it is one.
LEMMA RootChain ==
  ASSUME NEW C, C = {<<c>> : c \in RootChains}
  PROVE  /\ Disjoint(C)
         /\ \A F : (\A c \in RootChains : F[c] = LastLink) => Leads(F, C)
         /\ Pool!Unused(C) = Clusters \ RootChains
<1>1. ASSUME NEW e \in C
      PROVE  /\ e \in Seq(Clusters) /\ Len(e) = 1 /\ e[1] \in RootChains /\ e = <<e[1]>>
  <2>1. PICK c \in RootChains : e = <<c>>  OBVIOUS
  <2>2. c \in Clusters  BY RootIs
  <2> QED  BY <2>1, <2>2
<1>2. Disjoint(C)
  <2>1. ASSUME NEW s \in C, NEW t \in C, NEW i \in 1..Len(s), NEW j \in 1..Len(t), s[i] = t[j]
        PROVE  s = t /\ i = j
    <3>1. Len(s) = 1 /\ Len(t) = 1 /\ s = <<s[1]>> /\ t = <<t[1]>>  BY <1>1
    <3>2. i = 1 /\ j = 1  BY <3>1
    <3>3. s[1] = t[1]  BY <2>1, <3>2
    <3> QED  BY <3>1, <3>2, <3>3
  <2> QED  BY <1>1, <2>1 DEF Disjoint
<1>3. ASSUME NEW F, \A c \in RootChains : F[c] = LastLink PROVE Leads(F, C)
  BY <1>1, <1>3 DEF Leads
<1>4. Pool!Unused(C) = Clusters \ RootChains
  <2>1. \A c : c \in Pool!Unused(C) <=> c \in Clusters /\ \A s \in C : \A i \in 1..Len(s) : s[i] # c
    <3>1. C \subseteq Seq(Clusters)  BY <1>1
    <3> QED  BY <3>1, UnusedIs
  <2>2. ASSUME NEW c \in RootChains PROVE \E s \in C : \E i \in 1..Len(s) : s[i] = c
    <3> DEFINE e == <<c>>
    <3>1. e \in C /\ 1 \in 1..Len(e) /\ e[1] = c  OBVIOUS
    <3> HIDE DEF e
    <3> QED  BY <3>1
  <2>3. ASSUME NEW s \in C, NEW i \in 1..Len(s) PROVE s[i] \in RootChains
    BY <1>1
  <2> QED  BY <2>1, <2>2, <2>3
<1> QED  BY <1>2, <1>3, <1>4

\* The invariant holds, and ClusterPool begins as FatChains does.
LEMMA InitStep ==
  ASSUME Init
  PROVE  IInv /\ Pool!Init
<1>1. PICK known \in InfoKnown : vol = Mounted(FormattedDisk(known))  BY DEF Init
<1> DEFINE d == FormattedDisk(known)
           F == DiskFat(d)
<1>2. chains = {<<c>> : c \in RootChains} /\ synced = chains /\ full = FALSE /\ faults = 0
  BY DEF Init
<1>3. /\ IsDisk(d) /\ Mirrored(d)
      /\ F = [c \in FatEntries |-> IF c < 2 \/ c \in RootChains THEN LastLink ELSE 0]
      /\ d[FsInfo].free = IF known THEN NFatEnt - 2 - Cardinality(RootChains) ELSE Max32
  BY FormattedIntact
<1> HIDE DEF d
<1>4. /\ IsVolume(vol) /\ vol.disk = d /\ vol.fault = NoFault /\ Fat(vol) = F
      /\ vol.info = FALSE /\ vol.free = (IF Fat32 THEN d[FsInfo].free ELSE Max32)
  <2>1. vol = Mounted(d)  BY <1>1 DEF d
  <2> QED  BY <1>3, <2>1, MountedIs
<1> HIDE DEF F
<1>5. F \in Fats /\ Reserved(F)
  <2>1. F \in Fats  BY <1>4, FatSeen
  <2>2. 0 \in FatEntries /\ 1 \in FatEntries /\ LastLink # 0  BY Numbers DEF FatEntries
  <2> QED  BY <1>3, <2>1, <2>2 DEF Reserved
<1>6. \A c \in Clusters : F[c] = IF c \in RootChains THEN LastLink ELSE 0
  <2>1. \A c \in Clusters : c \in FatEntries /\ ~(c < 2)  BY Numbers
  <2> QED  BY <1>3, <2>1
<1>7. FreeOf(F) = Clusters \ RootChains
  BY <1>6, Numbers DEF FreeOf
<1>8. Disjoint(chains) /\ Leads(F, chains) /\ Starts(chains, chains)
      /\ Pool!Unused(chains) = Clusters \ RootChains
  <2>1. \A c \in RootChains : F[c] = LastLink  BY <1>6, RootIs
  <2> QED  BY <1>2, <2>1, RootChain, StartsItself
<1>9. Counted(vol)
  <2>1. Cardinality(FreeOf(F)) = NFatEnt - 2 - Cardinality(RootChains)  BY <1>7, RootIs
  <2>2. known \in BOOLEAN  BY BoundsAssumption
  <2>3. vol.free \in {Max32, Cardinality(FreeOf(Fat(vol)))}
    <3>1. CASE Fat32 /\ known
      <4>1. vol.free = NFatEnt - 2 - Cardinality(RootChains)  BY <1>3, <1>4, <3>1
      <4> QED  BY <1>4, <2>1, <4>1
    <3>2. CASE ~Fat32 \/ ~known
      <4>1. vol.free = Max32  BY <1>3, <1>4, <3>2
      <4> QED  BY <4>1
    <3> QED  BY <3>1, <3>2
  <2>4. Fat32 => vol.disk[FsInfo].free = vol.free  BY <1>4
  <2> QED  BY <2>3, <2>4 DEF Counted
<1>10. Within(vol, Keeps(synced))
  <2>1. F \in Keeps(synced)  BY <1>2, <1>5, <1>8 DEF Keeps
  <2>2. ~Stopped(vol)  BY <1>4 DEF Stopped, NoFault, Fault
  <2>3. DiskFat(vol.disk) = F  BY <1>4 DEF F
  <2> QED  BY <1>4, <2>1, <2>2, <2>3 DEF Within
<1>11. IInv
  BY <1>2, <1>3, <1>4, <1>5, <1>7, <1>8, <1>9, <1>10
     DEF IInv, VolumeInv, ChainInv, FullInv, CountInv
<1>12. Pool!Init
  <2>1. FreeSeen(vol) = Clusters \ RootChains  BY <1>4, <1>7, SeenFree
  <2> QED  BY <1>2, <2>1 DEF Pool!Init
<1> QED  BY <1>11, <1>12

----------------------------------------------------------------------------
(* The theorems.                                                           *)

\* Every step keeps the invariant, and is one of ClusterPool or not seen by it.
LEMMA Steps == IInv /\ [Next]_vars => IInv' /\ [Pool!Next]_Pool!vars
<1> SUFFICES ASSUME IInv, [Next]_vars PROVE IInv' /\ Refined
  BY DEF Refined
<1>1. \A ch \in chains : Len(ch) \in Nat
  <2>1. chains \subseteq Seq(Clusters)  BY DEF IInv, ChainInv, Disjoint
  <2> QED  BY <2>1
<1>2. CASE Create
  BY <1>2, CreateStep
<1>3. ASSUME NEW ch \in chains, NEW i \in 1..Len(ch), Stretch(ch, i) PROVE IInv' /\ Refined
  BY <1>3, StretchStep
<1>4. ASSUME NEW ch \in Files, Remove(ch) \/ Overwrite(ch) PROVE IInv' /\ Refined
  <2>1. ch \in chains  BY DEF Files
  <2> QED  BY <1>4, <2>1, RemoveStep, OverwriteStep
<1>5. ASSUME NEW ch \in Files, NEW i \in 1..(Len(ch) - 1), Truncate(ch, i) PROVE IInv' /\ Refined
  <2>1. ch \in chains  BY DEF Files
  <2> QED  BY <1>5, <2>1, TruncateStep
<1>6. CASE Sync
  BY <1>6, SyncStep
<1>7. CASE Count
  BY <1>7, CountStep
<1>8. CASE Crash
  BY <1>8, CrashStep
<1>9. CASE UNCHANGED vars
  <2>1. /\ vol' = vol /\ chains' = chains /\ synced' = synced /\ full' = full
        /\ faults' = faults
    BY <1>9 DEF vars
  <2>2. IInv'
    <3> USE <2>1 DEF IInv, VolumeInv, ChainInv, FullInv, CountInv
    <3>1. VolumeInv' /\ ChainInv' /\ FullInv' /\ CountInv'  OBVIOUS
    <3> QED  BY <3>1
  <2>3. Pool!vars' = Pool!vars  BY <2>1 DEF Pool!vars, FreeSeen
  <2> QED  BY <2>2, <2>3 DEF Refined
<1> QED  BY <1>2, <1>3, <1>4, <1>5, <1>6, <1>7, <1>8, <1>9 DEF Next

\* Whatever fails and wherever the machine stops, what must survive a crash is on the disk, the
\* window to be written back has a sector, and the FAT that the program sees leads through the
\* chains (move_window, create_chain and remove_chain of ff.c).
THEOREM VolumeStaysSound == Spec => []IInv
<1>1. Init => IInv  BY InitStep
<1>2. IInv /\ [Next]_vars => IInv'  BY Steps
<1> QED  BY <1>1, <1>2, PTL DEF Spec

\* No call changes an entry of a chain that is not its own (create_chain, remove_chain).
THEOREM ChainsStayIntact == Spec => []ChainsIntact
<1>1. IInv => ChainsIntact
  <2> SUFFICES ASSUME IInv, NEW ch \in chains, NEW i \in 1..Len(ch)
               PROVE  FatEntry(vol, ch[i]) = IF i < Len(ch) THEN ch[i + 1] ELSE LastLink
    BY DEF ChainsIntact
  <2>1. Disjoint(chains) /\ Leads(Fat(vol), chains)  BY DEF IInv, ChainInv
  <2>2. ch[i] \in FatEntries
    <3>1. ch \in Seq(Clusters)  BY <2>1 DEF Disjoint
    <3> QED  BY <3>1, Numbers
  <2>3. FatEntry(vol, ch[i]) = Fat(vol)[ch[i]]  BY <2>2 DEF Fat
  <2> QED  BY <2>1, <2>3 DEF Leads
<1> QED  BY <1>1, VolumeStaysSound, PTL

\* No cluster gets two owners, whatever fails and wherever a stop cuts a call short
\* (create_chain, remove_chain).
THEOREM NoClusterShared == Spec => []NoSharing
<1>1. IInv => NoSharing
  BY ApartIsWellFormed DEF IInv, ChainInv, NoSharing, Pool!NoSharing
<1> QED  BY <1>1, VolumeStaysSound, PTL

\* Without errors no cluster is lost and free_clust and FSInfo count them right.
THEOREM ClustersStayCounted == Spec => []EveryClusterCounted
<1>1. IInv => EveryClusterCounted
  <2> SUFFICES ASSUME IInv, faults = 0
               PROVE  /\ FreeSeen(vol) = Pool!Unused(chains)
                      /\ CountsFree(vol.free)
                      /\ Fat32 /\ ~vol.dirty /\ ~vol.info => CountsFree(vol.disk[FsInfo].free)
    BY DEF EveryClusterCounted
  <2>1. Counted(vol) /\ FreeOf(Fat(vol)) = Pool!Unused(chains)  BY DEF IInv, CountInv
  <2>2. FreeSeen(vol) = FreeOf(Fat(vol))  BY SeenFree
  <2>3. CountsFree(vol.free)  BY <2>1, <2>2 DEF CountsFree, Counted
  <2>4. Fat32 /\ ~vol.info => vol.disk[FsInfo].free = vol.free  BY <2>1 DEF Counted
  <2> QED  BY <2>1, <2>2, <2>3, <2>4
<1> QED  BY <1>1, VolumeStaysSound, PTL

\* create_chain reports a full disk only when no cluster is free, also after errors and crashes.
THEOREM FullMeansFull == Spec => []NoSpaceOnlyWhenFull
<1>1. IInv => NoSpaceOnlyWhenFull
  BY SeenFree DEF IInv, FullInv, NoSpaceOnlyWhenFull
<1> QED  BY <1>1, VolumeStaysSound, PTL

\* Without errors the copies of the FAT on the disk are the same (sync_window).
THEOREM FatsStayEqual == Spec => []CopiesAgree
<1>1. IInv => CopiesAgree
  BY DEF IInv, CountInv, Mirrored, FirstOf, CopiesAgree
<1> QED  BY <1>1, VolumeStaysSound, PTL

\* Creating, stretching, cutting, removing and synchronizing chains, with errors and crashes,
\* keep to ClusterPool: what was synchronized is found again, and no cluster has two owners.
THEOREM FatImplementsPool == Spec => ImplementsClusterPool
<1>1. Init => IInv /\ Pool!Init  BY InitStep
<1>2. IInv /\ [Next]_vars => IInv' /\ [Pool!Next]_Pool!vars  BY Steps
<1> QED  BY <1>1, <1>2, PTL DEF Spec, ImplementsClusterPool, Pool!Spec
=============================================================================
