--------------------------- MODULE KMemory_proofs ---------------------------
(***************************************************************************)
(* Proofs about KMemory, for any number of processors and pages.           *)
(***************************************************************************)
EXTENDS KMemory, FiniteSetTheorems, TLAPS

USE NumPagesAssumption, JunkAssumption

\* What the place of a processor says about the function it executes.
PlaceInv ==
  \A c \in CPUs :
    /\ pc[c] \in {"link", "push"} => op[c] = "free"
    /\ pc[c] \in {"read", "pop", "zero", "zerorest", "return"} => op[c] # "free"
    /\ pc[c] \in {"zero", "zerorest"} => reg[c] # NULL
    /\ op[c] = "free" /\ pc[c] \in {"lock", "spin", "link", "push"}
         => reg[c] # NULL
    /\ pc[c] = "pop" => reg[c] = root /\ root # NULL
    /\ pc[c] = "push" => word[reg[c]] = root

\* The stack without the bound on its depth, which follows from the rest.
StackInv == \E n \in Nat : \E s \in [0..n -> Pointers] : IsStack(s, n)

\* What memset has done so far.
ZeroInv ==
  \A c \in CPUs :
    op[c] = "zallocate" /\ reg[c] # NULL =>
      /\ pc[c] = "zerorest" => word[reg[c]] = 0
      /\ pc[c] = "return" => word[reg[c]] = 0 /\ clear[reg[c]] = TRUE

\* The inductive invariant.
IInv == TypeOK /\ LockGuardsSection /\ PlaceInv /\ OneOwner /\ StackInv /\ ZeroInv

----------------------------------------------------------------------------
\* The variables keep their types.
LEMMA TypeInit == Init => TypeOK
BY DEF Init, TypeOK, Pages, Pointers, NULL, PCs, Ops, CriticalPCs

\* An owned page stays a page, and a listed one points to the one below it.
LEMMA RootIsPage ==
  ASSUME IInv
  PROVE  root # NULL => root \in FreePages /\ word[root] \in Pointers
<1>1. PICK n \in Nat : \E s \in [0..n -> Pointers] : IsStack(s, n)
  BY DEF IInv, StackInv
<1>2. PICK s \in [0..n -> Pointers] : IsStack(s, n)
  BY <1>1
<1>3. ASSUME root # NULL PROVE n \in 1..n /\ s[n - 1] \in Pointers
  <2>1. n # 0
    BY <1>2, <1>3 DEF IsStack, NULL
  <2> QED
    BY <2>1, <1>2
<1> QED
  BY <1>2, <1>3 DEF IsStack

LEMMA TypeStep == IInv /\ [Next]_vars => TypeOK'
<1> SUFFICES ASSUME IInv, [Next]_vars
             PROVE  TypeOK'
  OBVIOUS
<1> USE DEF Goto, Pointers, PCs, Ops, CriticalPCs, FirstStep, AfterUnlock
<1>0. TypeOK /\ PlaceInv
  BY DEF IInv
<1>1. CASE UNCHANGED vars
  BY <1>0, <1>1 DEF vars, TypeOK
<1>2. ASSUME NEW c \in CPUs, CallAllocate(c) \/ CallFree(c) \/ UsePage(c) \/ Run(c)
      PROVE  TypeOK'
  <2>1. CASE CallAllocate(c)
    BY <1>0, <2>1 DEF CallAllocate, TypeOK
  <2>2. CASE CallFree(c)
    BY <1>0, <2>2 DEF CallFree, TypeOK
  <2>3. CASE UsePage(c)
    BY <1>0, <2>3 DEF UsePage, TypeOK
  <2>4. CASE TestAndSet(c)
    BY <1>0, <2>4 DEF TestAndSet, TypeOK
  <2>5. CASE SpinUntilFree(c)
    BY <1>0, <2>5 DEF SpinUntilFree, TypeOK
  <2>6. CASE Unlock(c)
    BY <1>0, <2>6 DEF Unlock, TypeOK
  <2>7. CASE ReadRoot(c)
    BY <1>0, <2>7 DEF ReadRoot, TypeOK
  <2>8. CASE PopRoot(c)
    BY <1>0, <2>8, RootIsPage DEF PopRoot, TypeOK, PlaceInv
  <2>9. CASE ZeroFirst(c)
    BY <1>0, <2>9 DEF ZeroFirst, TypeOK, NULL
  <2>10. CASE ZeroRest(c)
    BY <1>0, <2>10 DEF ZeroRest, TypeOK
  <2>11. CASE ReturnPage(c)
    BY <1>0, <2>11 DEF ReturnPage, TypeOK
  <2>12. CASE LinkPage(c)
    BY <1>0, <2>12 DEF LinkPage, TypeOK
  <2>13. CASE PushPage(c)
    BY <1>0, <2>13 DEF PushPage, TypeOK
  <2> QED
    BY <1>2, <2>1, <2>2, <2>3, <2>4, <2>5, <2>6, <2>7, <2>8, <2>9, <2>10,
       <2>11, <2>12, <2>13 DEF Run
<1> QED
  BY <1>1, <1>2 DEF Next
\* Mutual exclusion is kept: the lock says whether somebody is inside.
LEMMA LockStep == IInv /\ [Next]_vars => LockGuardsSection'
<1> SUFFICES ASSUME IInv, [Next]_vars
             PROVE  LockGuardsSection'
  OBVIOUS
<1> USE DEF Goto, CriticalPCs, Ops, FirstStep, AfterUnlock
<1>0. TypeOK /\ TypeOK' /\ LockGuardsSection /\ PlaceInv /\ OneOwner /\ StackInv /\ ZeroInv
  BY TypeStep DEF IInv
<1>1. CASE UNCHANGED vars
  BY <1>0, <1>1 DEF vars, LockGuardsSection
<1>2. ASSUME NEW c \in CPUs, CallAllocate(c) \/ CallFree(c) \/ UsePage(c) \/ Run(c)
      PROVE  LockGuardsSection'
  <2>1. CASE CallAllocate(c)
    BY <1>0, <2>1 DEF CallAllocate, TypeOK, LockGuardsSection
  <2>2. CASE CallFree(c)
    BY <1>0, <2>2 DEF CallFree, TypeOK, LockGuardsSection
  <2>3. CASE UsePage(c)
    BY <1>0, <2>3 DEF UsePage, TypeOK, LockGuardsSection
  <2>4. CASE TestAndSet(c)
    BY <1>0, <2>4 DEF TestAndSet, TypeOK, LockGuardsSection
  <2>5. CASE SpinUntilFree(c)
    BY <1>0, <2>5 DEF SpinUntilFree, TypeOK, LockGuardsSection
  <2>6. CASE Unlock(c)
    BY <1>0, <2>6 DEF Unlock, TypeOK, LockGuardsSection
  <2>7. CASE ReadRoot(c)
    BY <1>0, <2>7 DEF ReadRoot, TypeOK, LockGuardsSection
  <2>8. CASE PopRoot(c)
    BY <1>0, <2>8 DEF PopRoot, TypeOK, LockGuardsSection
  <2>9. CASE ZeroFirst(c)
    BY <1>0, <2>9 DEF ZeroFirst, TypeOK, LockGuardsSection
  <2>10. CASE ZeroRest(c)
    BY <1>0, <2>10 DEF ZeroRest, TypeOK, LockGuardsSection
  <2>11. CASE ReturnPage(c)
    BY <1>0, <2>11 DEF ReturnPage, TypeOK, LockGuardsSection
  <2>12. CASE LinkPage(c)
    BY <1>0, <2>12 DEF LinkPage, TypeOK, LockGuardsSection
  <2>13. CASE PushPage(c)
    BY <1>0, <2>13 DEF PushPage, TypeOK, LockGuardsSection
  <2> QED
    BY <1>2, <2>1, <2>2, <2>3, <2>4, <2>5, <2>6, <2>7,
       <2>8, <2>9, <2>10, <2>11, <2>12, <2>13 DEF Run
<1> QED
  BY <1>1, <1>2 DEF Next

\* Only the processor inside the section moves the root and what it points to.
LEMMA PlaceStep == IInv /\ [Next]_vars => PlaceInv'
<1> SUFFICES ASSUME IInv, [Next]_vars
             PROVE  PlaceInv'
  OBVIOUS
<1> USE DEF Goto, CriticalPCs, Ops, FirstStep, AfterUnlock
<1>0. TypeOK /\ TypeOK' /\ LockGuardsSection /\ PlaceInv /\ OneOwner /\ StackInv /\ ZeroInv
  BY TypeStep DEF IInv
<1>1. CASE UNCHANGED vars
  BY <1>0, <1>1 DEF vars, PlaceInv, LockGuardsSection
<1>2. ASSUME NEW c \in CPUs, CallAllocate(c) \/ CallFree(c) \/ UsePage(c) \/ Run(c)
      PROVE  PlaceInv'
  <2>1. CASE CallAllocate(c)
    BY <1>0, <2>1 DEF CallAllocate, TypeOK, PlaceInv, LockGuardsSection
  <2>2. CASE CallFree(c)
    BY <1>0, <2>2 DEF CallFree, TypeOK, PlaceInv, Pages, NULL
  <2>3. CASE UsePage(c)
    BY <1>0, <2>3 DEF UsePage, TypeOK, PlaceInv, OneOwner, Carries, Pointers
  <2>4. CASE TestAndSet(c)
    BY <1>0, <2>4 DEF TestAndSet, TypeOK, PlaceInv, LockGuardsSection
  <2>5. CASE SpinUntilFree(c)
    BY <1>0, <2>5 DEF SpinUntilFree, TypeOK, PlaceInv, LockGuardsSection
  <2>6. CASE Unlock(c)
    BY <1>0, <2>6 DEF Unlock, TypeOK, PlaceInv, LockGuardsSection
  <2>7. CASE ReadRoot(c)
    BY <1>0, <2>7 DEF ReadRoot, TypeOK, PlaceInv, LockGuardsSection
  <2>8. CASE PopRoot(c)
    BY <1>0, <2>8 DEF PopRoot, TypeOK, PlaceInv, LockGuardsSection
  <2>9. CASE ZeroFirst(c)
    BY <1>0, <2>9 DEF ZeroFirst, TypeOK, PlaceInv, OneOwner, Carries, Pointers
  <2>10. CASE ZeroRest(c)
    BY <1>0, <2>10 DEF ZeroRest, TypeOK, PlaceInv, LockGuardsSection
  <2>11. CASE ReturnPage(c)
    BY <1>0, <2>11 DEF ReturnPage, TypeOK, PlaceInv, LockGuardsSection
  <2>12. CASE LinkPage(c)
    BY <1>0, <2>12 DEF LinkPage, TypeOK, PlaceInv, LockGuardsSection
  <2>13. CASE PushPage(c)
    BY <1>0, <2>13 DEF PushPage, TypeOK, PlaceInv, LockGuardsSection
  <2> QED
    BY <1>2, <2>1, <2>2, <2>3, <2>4, <2>5, <2>6, <2>7,
       <2>8, <2>9, <2>10, <2>11, <2>12, <2>13 DEF Run
<1> QED
  BY <1>1, <1>2 DEF Next

\* A page changes hands only with its single owner.
LEMMA OwnerStep == IInv /\ [Next]_vars => OneOwner'
<1> SUFFICES ASSUME IInv, [Next]_vars
             PROVE  OneOwner'
  OBVIOUS
<1> USE DEF Goto, CriticalPCs, Ops, FirstStep, AfterUnlock
<1>0. TypeOK /\ TypeOK' /\ LockGuardsSection /\ PlaceInv /\ OneOwner /\ StackInv /\ ZeroInv
  BY TypeStep DEF IInv
<1>1. CASE UNCHANGED vars
  BY <1>0, <1>1 DEF vars, OneOwner, Carries, PlaceInv, LockGuardsSection
<1>2. ASSUME NEW c \in CPUs, CallAllocate(c) \/ CallFree(c) \/ UsePage(c) \/ Run(c)
      PROVE  OneOwner'
  <2>1. CASE CallAllocate(c)
    BY <1>0, <2>1 DEF CallAllocate, TypeOK, OneOwner, Carries, PlaceInv, LockGuardsSection
  <2>2. CASE CallFree(c)
    BY <1>0, <2>2 DEF CallFree, TypeOK, OneOwner, Carries, PlaceInv, LockGuardsSection
  <2>3. CASE UsePage(c)
    BY <1>0, <2>3 DEF UsePage, TypeOK, OneOwner, Carries, PlaceInv, LockGuardsSection
  <2>4. CASE TestAndSet(c)
    BY <1>0, <2>4 DEF TestAndSet, TypeOK, OneOwner, Carries, PlaceInv, LockGuardsSection
  <2>5. CASE SpinUntilFree(c)
    BY <1>0, <2>5 DEF SpinUntilFree, TypeOK, OneOwner, Carries, PlaceInv, LockGuardsSection
  <2>6. CASE Unlock(c)
    BY <1>0, <2>6 DEF Unlock, TypeOK, OneOwner, Carries, PlaceInv, LockGuardsSection
  <2>7. CASE ReadRoot(c)
    BY <1>0, <2>7, RootIsPage DEF ReadRoot, FreePages, NULL, Pages, TypeOK, OneOwner, Carries, PlaceInv, LockGuardsSection
  <2>8. CASE PopRoot(c)
    BY <1>0, <2>8, RootIsPage DEF PopRoot, FreePages, TypeOK, OneOwner, Carries, PlaceInv, LockGuardsSection
  <2>9. CASE ZeroFirst(c)
    BY <1>0, <2>9 DEF ZeroFirst, TypeOK, OneOwner, Carries, PlaceInv, LockGuardsSection
  <2>10. CASE ZeroRest(c)
    BY <1>0, <2>10 DEF ZeroRest, TypeOK, OneOwner, Carries, PlaceInv, LockGuardsSection
  <2>11. CASE ReturnPage(c)
    BY <1>0, <2>11 DEF ReturnPage, TypeOK, OneOwner, Carries, PlaceInv, LockGuardsSection
  <2>12. CASE LinkPage(c)
    BY <1>0, <2>12 DEF LinkPage, TypeOK, OneOwner, Carries, PlaceInv, LockGuardsSection
  <2>13. CASE PushPage(c)
    BY <1>0, <2>13 DEF PushPage, TypeOK, OneOwner, Carries, PlaceInv, LockGuardsSection
  <2> QED
    BY <1>2, <2>1, <2>2, <2>3, <2>4, <2>5, <2>6, <2>7,
       <2>8, <2>9, <2>10, <2>11, <2>12, <2>13 DEF Run
<1> QED
  BY <1>1, <1>2 DEF Next

\* Nobody writes a page that another processor is clearing.
LEMMA ZeroStep == IInv /\ [Next]_vars => ZeroInv'
<1> SUFFICES ASSUME IInv, [Next]_vars
             PROVE  ZeroInv'
  OBVIOUS
<1> USE DEF Goto, CriticalPCs, Ops, FirstStep, AfterUnlock
<1>0. TypeOK /\ TypeOK' /\ LockGuardsSection /\ PlaceInv /\ OneOwner /\ StackInv /\ ZeroInv
  BY TypeStep DEF IInv
<1>1. CASE UNCHANGED vars
  BY <1>0, <1>1 DEF vars, ZeroInv, OneOwner, Carries, PlaceInv, LockGuardsSection, Pointers
<1>2. ASSUME NEW c \in CPUs, CallAllocate(c) \/ CallFree(c) \/ UsePage(c) \/ Run(c)
      PROVE  ZeroInv'
  <2>1. CASE CallAllocate(c)
    BY <1>0, <2>1 DEF CallAllocate, TypeOK, ZeroInv, OneOwner, Carries, PlaceInv, LockGuardsSection, Pointers
  <2>2. CASE CallFree(c)
    BY <1>0, <2>2 DEF CallFree, TypeOK, ZeroInv, OneOwner, Carries, PlaceInv, LockGuardsSection, Pointers
  <2>3. CASE UsePage(c)
    BY <1>0, <2>3 DEF UsePage, TypeOK, ZeroInv, OneOwner, Carries, PlaceInv, LockGuardsSection, Pointers
  <2>4. CASE TestAndSet(c)
    BY <1>0, <2>4 DEF TestAndSet, TypeOK, ZeroInv, OneOwner, Carries, PlaceInv, LockGuardsSection, Pointers
  <2>5. CASE SpinUntilFree(c)
    BY <1>0, <2>5 DEF SpinUntilFree, TypeOK, ZeroInv, OneOwner, Carries, PlaceInv, LockGuardsSection, Pointers
  <2>6. CASE Unlock(c)
    BY <1>0, <2>6 DEF Unlock, TypeOK, ZeroInv, OneOwner, Carries, PlaceInv, LockGuardsSection, Pointers
  <2>7. CASE ReadRoot(c)
    BY <1>0, <2>7 DEF ReadRoot, TypeOK, ZeroInv, OneOwner, Carries, PlaceInv, LockGuardsSection, Pointers
  <2>8. CASE PopRoot(c)
    BY <1>0, <2>8 DEF PopRoot, TypeOK, ZeroInv, OneOwner, Carries, PlaceInv, LockGuardsSection, Pointers
  <2>9. CASE ZeroFirst(c)
    BY <1>0, <2>9 DEF ZeroFirst, TypeOK, ZeroInv, OneOwner, Carries, PlaceInv, LockGuardsSection, Pointers
  <2>10. CASE ZeroRest(c)
    BY <1>0, <2>10 DEF ZeroRest, TypeOK, ZeroInv, OneOwner, Carries, PlaceInv, LockGuardsSection, Pointers
  <2>11. CASE ReturnPage(c)
    BY <1>0, <2>11 DEF ReturnPage, TypeOK, ZeroInv, OneOwner, Carries, PlaceInv, LockGuardsSection, Pointers
  <2>12. CASE LinkPage(c)
    BY <1>0, <2>12 DEF LinkPage, TypeOK, ZeroInv, OneOwner, Carries, PlaceInv, LockGuardsSection, Pointers
  <2>13. CASE PushPage(c)
    BY <1>0, <2>13 DEF PushPage, TypeOK, ZeroInv, OneOwner, Carries, PlaceInv, LockGuardsSection, Pointers
  <2> QED
    BY <1>2, <2>1, <2>2, <2>3, <2>4, <2>5, <2>6, <2>7,
       <2>8, <2>9, <2>10, <2>11, <2>12, <2>13 DEF Run
<1> QED
  BY <1>1, <1>2 DEF Next

\* A step that leaves the root, the free pages and their links alone keeps the
\* stack.
LEMMA StackFrame ==
  ASSUME StackInv, FreePages' = FreePages, root' = root,
         \A p \in FreePages : word'[p] = word[p]
  PROVE  StackInv'
<1>1. PICK n \in Nat : \E s \in [0..n -> Pointers] : IsStack(s, n)
  BY DEF StackInv
<1>2. PICK s \in [0..n -> Pointers] : IsStack(s, n)
  BY <1>1
<1>3. IsStack(s, n)'
  BY <1>2 DEF IsStack
<1> QED
  BY <1>3 DEF StackInv, Pointers, Pages, NULL

\* Popping the root removes the top of the stack and nothing else.
LEMMA PopStack ==
  ASSUME IInv, NEW c \in CPUs, PopRoot(c)
  PROVE  StackInv'
<1>0. TypeOK /\ PlaceInv /\ OneOwner /\ StackInv
  BY DEF IInv
<1>1. PICK n \in Nat : \E s \in [0..n -> Pointers] : IsStack(s, n)
  BY <1>0 DEF StackInv
<1>2. PICK s \in [0..n -> Pointers] : IsStack(s, n)
  BY <1>1
<1>3. root # NULL /\ reg[c] = root /\ op[c] # "free"
  BY <1>0 DEF PopRoot, Goto, PlaceInv
<1>4. n \in 1..n /\ n - 1 \in Nat
  BY <1>2, <1>3 DEF IsStack, NULL
<1>5. s[n] = root /\ root \in FreePages /\ root' = s[n - 1] /\ word' = word
  BY <1>2, <1>4 DEF IsStack, PopRoot
<1>6. FreePages' = FreePages \ {root}
  <2>1. ASSUME NEW d \in CPUs, NEW p \in Pages
        PROVE  Carries(d, p)' <=> Carries(d, p) \/ (d = c /\ p = root)
    BY <1>0, <1>3, <2>1 DEF PopRoot, Goto, Carries, TypeOK
  <2>2. held' = held
    BY DEF PopRoot
  <2> QED
    BY <2>1, <2>2 DEF FreePages
<1> DEFINE t == [i \in 0..(n - 1) |-> s[i]]
<1>7. t \in [0..(n - 1) -> Pointers]
  BY <1>4
<1>8. IsStack(t, n - 1)'
  <2>1. t[0] = NULL /\ t[n - 1] = root'
    BY <1>2, <1>4, <1>5 DEF IsStack
  <2>2. \A i \in 1..(n - 1) : t[i] \in FreePages' /\ word'[t[i]] = t[i - 1]
    <3> TAKE i \in 1..(n - 1)
    <3>1. i \in 1..n /\ i # n /\ t[i] = s[i] /\ t[i - 1] = s[i - 1]
      BY <1>4
    <3>2. s[i] # root
      BY <1>2, <1>4, <1>5, <3>1 DEF IsStack
    <3> QED
      BY <1>2, <1>5, <1>6, <3>1, <3>2 DEF IsStack
  <2>3. \A i, j \in 1..(n - 1) : t[i] = t[j] => i = j
    BY <1>2, <1>4 DEF IsStack
  <2>4. \A p \in FreePages' : \E i \in 1..(n - 1) : t[i] = p
    <3> TAKE p \in FreePages'
    <3>1. PICK i \in 1..n : s[i] = p
      BY <1>2, <1>6 DEF IsStack
    <3>2. i # n
      BY <1>5, <1>6, <3>1
    <3> QED
      BY <1>4, <3>1, <3>2
  <2> QED
    BY <2>1, <2>2, <2>3, <2>4 DEF IsStack
<1> QED
  BY <1>4, <1>7, <1>8 DEF StackInv, Pointers, Pages, NULL

\* Pushing a page that points to the root puts it on top of the stack.
LEMMA PushStack ==
  ASSUME IInv, NEW c \in CPUs, PushPage(c)
  PROVE  StackInv'
<1>0. TypeOK /\ PlaceInv /\ OneOwner /\ StackInv
  BY DEF IInv
<1>1. PICK n \in Nat : \E s \in [0..n -> Pointers] : IsStack(s, n)
  BY <1>0 DEF StackInv
<1>2. PICK s \in [0..n -> Pointers] : IsStack(s, n)
  BY <1>1
<1>3. /\ op[c] = "free" /\ reg[c] \in Pages /\ word[reg[c]] = root
      /\ Carries(c, reg[c])
  BY <1>0 DEF PushPage, Goto, PlaceInv, TypeOK, Carries, Pointers
<1>4. root' = reg[c] /\ word' = word /\ reg[c] \notin FreePages
  BY <1>3 DEF PushPage, FreePages
<1>5. FreePages' = FreePages \cup {reg[c]}
  <2>1. ASSUME NEW d \in CPUs, NEW p \in Pages
        PROVE  Carries(d, p)' <=> Carries(d, p) /\ d # c
    BY <1>0, <1>3, <2>1 DEF PushPage, Goto, Carries, TypeOK
  <2>2. held' = held /\ reg[c] \notin held
    BY <1>0, <1>3 DEF PushPage, OneOwner
  <2>3. \A d \in CPUs : Carries(d, reg[c]) => d = c
    BY <1>0, <1>3 DEF OneOwner
  <2>4. \A p \in Pages : Carries(c, p) => p = reg[c]
    BY DEF Carries
  <2> QED
    BY <1>3, <2>1, <2>2, <2>3, <2>4 DEF FreePages
<1>6. PICK t \in [0..(n + 1) -> Pointers] :
        t = [i \in 0..(n + 1) |-> IF i = n + 1 THEN reg[c] ELSE s[i]]
  <2>1. \A i \in 0..(n + 1) : (IF i = n + 1 THEN reg[c] ELSE s[i]) \in Pointers
    BY <1>3 DEF Pointers
  <2>2. [i \in 0..(n + 1) |-> IF i = n + 1 THEN reg[c] ELSE s[i]]
          \in [0..(n + 1) -> Pointers]
    BY <2>1
  <2> QED
    BY <2>2
<1>7. IsStack(t, n + 1)'
  <2>1. t[0] = NULL /\ t[n + 1] = root'
    BY <1>2, <1>4, <1>6 DEF IsStack
  <2>2. \A i \in 1..(n + 1) : t[i] \in FreePages' /\ word'[t[i]] = t[i - 1]
    <3> TAKE i \in 1..(n + 1)
    <3>1. CASE i = n + 1
      <4>1. t[i] = reg[c] /\ t[i - 1] = s[n]
        BY <1>6, <3>1
      <4> QED
        BY <1>2, <1>3, <1>4, <1>5, <4>1 DEF IsStack
    <3>2. CASE i # n + 1
      <4>1. i \in 1..n /\ t[i] = s[i] /\ t[i - 1] = s[i - 1]
        BY <1>6, <3>2
      <4> QED
        BY <1>2, <1>4, <1>5, <4>1 DEF IsStack
    <3> QED
      BY <3>1, <3>2
  <2>3. \A i, j \in 1..(n + 1) : t[i] = t[j] => i = j
    BY <1>2, <1>4, <1>6 DEF IsStack
  <2>4. \A p \in FreePages' : \E i \in 1..(n + 1) : t[i] = p
    <3> TAKE p \in FreePages'
    <3>1. CASE p = reg[c]
      BY <1>6, <3>1
    <3>2. CASE p # reg[c]
      <4>1. PICK i \in 1..n : s[i] = p
        BY <1>2, <1>5, <3>2 DEF IsStack
      <4>2. i \in 1..(n + 1) /\ t[i] = p
        BY <1>6, <4>1
      <4> QED
        BY <4>2
    <3> QED
      BY <3>1, <3>2
  <2> QED
    BY <2>1, <2>2, <2>3, <2>4 DEF IsStack
<1>8. n + 1 \in Nat
  OBVIOUS
<1> QED
  BY <1>7, <1>8 DEF StackInv, Pointers, Pages, NULL

LEMMA StackStep == IInv /\ [Next]_vars => StackInv'
<1> SUFFICES ASSUME IInv, [Next]_vars
             PROVE  StackInv'
  OBVIOUS
<1> USE DEF Goto, CriticalPCs, Ops, FirstStep, AfterUnlock
<1>0. TypeOK /\ PlaceInv /\ OneOwner /\ StackInv
  BY DEF IInv
<1>1. CASE UNCHANGED vars
  BY <1>0, <1>1, StackFrame DEF vars, FreePages, Carries
<1>2. ASSUME NEW c \in CPUs, CallAllocate(c) \/ CallFree(c) \/ UsePage(c) \/ Run(c)
      PROVE  StackInv'
  <2>1. CASE CallAllocate(c)
    <3>1. FreePages' = FreePages
      BY <1>0, <2>1 DEF CallAllocate, TypeOK, PlaceInv, OneOwner, FreePages, Carries, Pages, NULL
    <3>2. root' = root /\ \A p \in FreePages : word'[p] = word[p]
      BY <1>0, <2>1 DEF CallAllocate, TypeOK, PlaceInv, FreePages, Carries
    <3> QED
      BY <1>0, <3>1, <3>2, StackFrame
  <2>2. CASE CallFree(c)
    <3>1. FreePages' = FreePages
      BY <1>0, <2>2 DEF CallFree, TypeOK, PlaceInv, OneOwner, FreePages, Carries, Pages, NULL
    <3>2. root' = root /\ \A p \in FreePages : word'[p] = word[p]
      BY <1>0, <2>2 DEF CallFree, TypeOK, PlaceInv, FreePages, Carries
    <3> QED
      BY <1>0, <3>1, <3>2, StackFrame
  <2>3. CASE UsePage(c)
    <3>1. FreePages' = FreePages
      BY <1>0, <2>3 DEF UsePage, TypeOK, PlaceInv, OneOwner, FreePages, Carries, Pages, NULL
    <3>2. root' = root /\ \A p \in FreePages : word'[p] = word[p]
      BY <1>0, <2>3 DEF UsePage, TypeOK, PlaceInv, FreePages, Carries
    <3> QED
      BY <1>0, <3>1, <3>2, StackFrame
  <2>4. CASE TestAndSet(c)
    <3>1. FreePages' = FreePages
      BY <1>0, <2>4 DEF TestAndSet, TypeOK, PlaceInv, OneOwner, FreePages, Carries, Pages, NULL
    <3>2. root' = root /\ \A p \in FreePages : word'[p] = word[p]
      BY <1>0, <2>4 DEF TestAndSet, TypeOK, PlaceInv, FreePages, Carries
    <3> QED
      BY <1>0, <3>1, <3>2, StackFrame
  <2>5. CASE SpinUntilFree(c)
    <3>1. FreePages' = FreePages
      BY <1>0, <2>5 DEF SpinUntilFree, TypeOK, PlaceInv, OneOwner, FreePages, Carries, Pages, NULL
    <3>2. root' = root /\ \A p \in FreePages : word'[p] = word[p]
      BY <1>0, <2>5 DEF SpinUntilFree, TypeOK, PlaceInv, FreePages, Carries
    <3> QED
      BY <1>0, <3>1, <3>2, StackFrame
  <2>6. CASE Unlock(c)
    <3>1. FreePages' = FreePages
      BY <1>0, <2>6 DEF Unlock, TypeOK, PlaceInv, OneOwner, FreePages, Carries, Pages, NULL
    <3>2. root' = root /\ \A p \in FreePages : word'[p] = word[p]
      BY <1>0, <2>6 DEF Unlock, TypeOK, PlaceInv, FreePages, Carries
    <3> QED
      BY <1>0, <3>1, <3>2, StackFrame
  <2>7. CASE ReadRoot(c)
    <3>1. FreePages' = FreePages
      BY <1>0, <2>7 DEF ReadRoot, TypeOK, PlaceInv, OneOwner, FreePages, Carries, Pages, NULL
    <3>2. root' = root /\ \A p \in FreePages : word'[p] = word[p]
      BY <1>0, <2>7 DEF ReadRoot, TypeOK, PlaceInv, FreePages, Carries
    <3> QED
      BY <1>0, <3>1, <3>2, StackFrame
  <2>8. CASE PopRoot(c)
    BY <2>8, PopStack
  <2>9. CASE ZeroFirst(c)
    <3>1. FreePages' = FreePages
      BY <1>0, <2>9 DEF ZeroFirst, TypeOK, PlaceInv, OneOwner, FreePages, Carries, Pages, NULL
    <3>2. root' = root /\ \A p \in FreePages : word'[p] = word[p]
      BY <1>0, <2>9 DEF ZeroFirst, TypeOK, PlaceInv, FreePages, Carries
    <3> QED
      BY <1>0, <3>1, <3>2, StackFrame
  <2>10. CASE ZeroRest(c)
    <3>1. FreePages' = FreePages
      BY <1>0, <2>10 DEF ZeroRest, TypeOK, PlaceInv, OneOwner, FreePages, Carries, Pages, NULL
    <3>2. root' = root /\ \A p \in FreePages : word'[p] = word[p]
      BY <1>0, <2>10 DEF ZeroRest, TypeOK, PlaceInv, FreePages, Carries
    <3> QED
      BY <1>0, <3>1, <3>2, StackFrame
  <2>11. CASE ReturnPage(c)
    <3>1. FreePages' = FreePages
      BY <1>0, <2>11 DEF ReturnPage, TypeOK, PlaceInv, OneOwner, FreePages, Carries, Pages, NULL
    <3>2. root' = root /\ \A p \in FreePages : word'[p] = word[p]
      BY <1>0, <2>11 DEF ReturnPage, TypeOK, PlaceInv, FreePages, Carries
    <3> QED
      BY <1>0, <3>1, <3>2, StackFrame
  <2>12. CASE LinkPage(c)
    <3>1. FreePages' = FreePages
      BY <1>0, <2>12 DEF LinkPage, TypeOK, PlaceInv, OneOwner, FreePages, Carries, Pages, NULL
    <3>2. root' = root /\ \A p \in FreePages : word'[p] = word[p]
      BY <1>0, <2>12 DEF LinkPage, TypeOK, PlaceInv, FreePages, Carries
    <3> QED
      BY <1>0, <3>1, <3>2, StackFrame
  <2>13. CASE PushPage(c)
    BY <2>13, PushStack
  <2> QED
    BY <1>2, <2>1, <2>2, <2>3, <2>4, <2>5, <2>6, <2>7,
       <2>8, <2>9, <2>10, <2>11, <2>12, <2>13 DEF Run
<1> QED
  BY <1>1, <1>2 DEF Next

LEMMA InitIInv == Init => IInv
<1> SUFFICES ASSUME Init
             PROVE  IInv
  OBVIOUS
<1>1. TypeOK
  BY TypeInit
<1>2. LockGuardsSection /\ PlaceInv /\ OneOwner /\ ZeroInv
  BY DEF Init, LockGuardsSection, PlaceInv, OneOwner, ZeroInv, Carries,
         CriticalPCs
<1>3. StackInv
  <2>1. FreePages = Pages
    BY DEF Init, FreePages, Carries
  <2>2. PICK s \in [0..NumPages -> Pointers] : s = [i \in 0..NumPages |-> i]
    <3>1. [i \in 0..NumPages |-> i] \in [0..NumPages -> Pointers]
      BY DEF Pointers, Pages, NULL
    <3> QED
      BY <3>1
  <2>3. IsStack(s, NumPages)
    <3>1. s[0] = NULL /\ s[NumPages] = root
      BY <2>2 DEF Init, NULL
    <3>2. \A i \in 1..NumPages : s[i] = i /\ s[i - 1] = i - 1 /\ word[i] = i - 1
      BY <2>2 DEF Init, Pages
    <3> QED
      BY <2>1, <3>1, <3>2 DEF IsStack, Pages
  <2> QED
    BY <2>3 DEF StackInv
<1> QED
  BY <1>1, <1>2, <1>3 DEF IInv

LEMMA StepIInv == IInv /\ [Next]_vars => IInv'
BY TypeStep, LockStep, PlaceStep, OwnerStep, StackStep, ZeroStep DEF IInv

LEMMA AlwaysIInv == Spec => []IInv
BY InitIInv, StepIInv, PTL DEF Spec

\* A list of distinct pages is no longer than the region.
LEMMA BoundedStack == StackInv => StackIsFreePages
<1> SUFFICES ASSUME StackInv
             PROVE  StackIsFreePages
  OBVIOUS
<1>1. PICK n \in Nat : \E s \in [0..n -> Pointers] : IsStack(s, n)
  BY DEF StackInv
<1>2. PICK s \in [0..n -> Pointers] : IsStack(s, n)
  BY <1>1
<1>3. n <= NumPages
  <2> DEFINE f == [i \in 1..n |-> s[i]]
  <2>1. f \in Injection(1..n, 1..NumPages)
    <3>1. \A i \in 1..n : f[i] \in 1..NumPages
      BY <1>2 DEF IsStack, FreePages, Pages
    <3>2. \A i, j \in 1..n : f[i] = f[j] => i = j
      BY <1>2 DEF IsStack
    <3> QED
      BY <3>1, <3>2 DEF Injection, IsInjective
  <2>2. /\ IsFiniteSet(1..n) /\ Cardinality(1..n) = n
        /\ IsFiniteSet(1..NumPages) /\ Cardinality(1..NumPages) = NumPages
    BY FS_Interval
  <2>3. Cardinality(1..n) <= Cardinality(1..NumPages)
    BY <2>1, <2>2, FS_Injection
  <2> QED
    BY <2>2, <2>3
<1> QED
  BY <1>2, <1>3 DEF StackIsFreePages

----------------------------------------------------------------------------
(* The theorems.                                                           *)

\* Every variable of the allocator always has its type: above all, the root is
\* NULL or a page, so that it is never dereferenced outside the region.
THEOREM TypeCorrect == Spec => []TypeOK
BY AlwaysIInv, PTL DEF IInv

\* At most one processor is between AtomicLock and AtomicUnlock.
THEOREM MutualExclusion == Spec => []LockGuardsSection
BY AlwaysIInv, PTL DEF IInv

\* The list of free pages is acyclic and holds each free page exactly once,
\* whatever the number of processors that allocate and free at the same time.
THEOREM StackCorrect == Spec => []StackIsFreePages
BY AlwaysIInv, BoundedStack, PTL DEF IInv

\* No page is ever owned twice.
THEOREM SingleOwner == Spec => []OneOwner
BY AlwaysIInv, PTL DEF IInv

\* KMemAllocate dereferences the root only when it is the page it read first.
THEOREM NoNullPop == Spec => []PopReadsPage
<1>1. IInv => PopReadsPage
  BY DEF IInv, PlaceInv, PopReadsPage
<1> QED
  BY <1>1, AlwaysIInv, PTL

\* What KMemZAllocate returns is zero, although it clears without the lock.
THEOREM ZeroCorrect == Spec => []ZeroedOnReturn
<1>1. IInv => ZeroedOnReturn
  BY DEF IInv, ZeroInv, ZeroedOnReturn
<1> QED
  BY <1>1, AlwaysIInv, PTL

\* The allocator never changes a byte of a page that a caller owns.
THEOREM OwnedUntouched == Spec => OwnedPagesUntouched
<1>1. IInv /\ [Next]_vars =>
        [\A p \in held \cap held' :
           (\E c \in CPUs : Run(c)) => word'[p] = word[p] /\ clear'[p] = clear[p]]_vars
  <2> SUFFICES ASSUME IInv, NEW p \in held, NEW c \in CPUs, Run(c)
               PROVE  word'[p] = word[p] /\ clear'[p] = clear[p]
    OBVIOUS
  <2>1. TypeOK /\ PlaceInv /\ OneOwner
    BY DEF IInv
  <2>2. ASSUME ZeroFirst(c) \/ ZeroRest(c) \/ LinkPage(c)
        PROVE  p # reg[c]
    <3>1. reg[c] \in Pages => Carries(c, reg[c])
      BY <2>1, <2>2 DEF ZeroFirst, ZeroRest, LinkPage, Goto, Carries, PlaceInv
    <3> QED
      BY <2>1, <3>1 DEF OneOwner, TypeOK
  <2>3. CASE ZeroFirst(c) \/ LinkPage(c)
    BY <2>1, <2>2, <2>3 DEF ZeroFirst, LinkPage, TypeOK
  <2>4. CASE ZeroRest(c)
    BY <2>1, <2>2, <2>4 DEF ZeroRest, TypeOK
  <2> QED
    BY <2>3, <2>4 DEF Run, TestAndSet, SpinUntilFree, Unlock, ReadRoot, PopRoot,
                      ReturnPage, PushPage
<1> QED
  BY <1>1, AlwaysIInv, PTL DEF Spec, OwnedPagesUntouched

----------------------------------------------------------------------------
(* KMemory implements PagePool.                                            *)

\* An empty stack means that no page is free.
LEMMA EmptyStack == IInv /\ root = NULL => FreePages = {}
<1> SUFFICES ASSUME IInv, root = NULL
             PROVE  FreePages = {}
  OBVIOUS
<1>1. PICK n \in Nat : \E s \in [0..n -> Pointers] : IsStack(s, n)
  BY DEF IInv, StackInv
<1>2. PICK s \in [0..n -> Pointers] : IsStack(s, n)
  BY <1>1
<1>3. n = 0
  BY <1>2 DEF IsStack, FreePages, Pages, NULL
<1> QED
  BY <1>2, <1>3 DEF IsStack

LEMMA PoolInit == Init => Pool!Init
BY DEF Init, Pool!Init, Pool!Idle, FreePages, Carries, PoolRequest, PoolOp

LEMMA PoolStep == IInv /\ [Next]_vars => [Pool!Next]_Pool!vars
<1> SUFFICES ASSUME IInv, [Next]_vars
             PROVE  [Pool!Next]_Pool!vars
  OBVIOUS
<1> USE DEF Goto, PoolOp, PoolRequest
<1>0. TypeOK /\ TypeOK' /\ PlaceInv /\ OneOwner
  BY TypeStep DEF IInv
<1>1. CASE UNCHANGED vars
  BY <1>1 DEF vars, Pool!vars, FreePages, Carries
<1>2. ASSUME NEW c \in CPUs, CallAllocate(c) \/ CallFree(c) \/ UsePage(c) \/ Run(c)
      PROVE  [Pool!Next]_Pool!vars
  <2>0. ASSUME NEW d \in CPUs, d # c
        PROVE  PoolRequest(d)' = PoolRequest(d)
    BY <1>0, <1>2, <2>0 DEF Run, CallAllocate, CallFree, UsePage, TestAndSet,
         SpinUntilFree, Unlock, ReadRoot, PopRoot, ZeroFirst, ZeroRest, ReturnPage,
         LinkPage, PushPage, TypeOK
  <2>1. CASE CallAllocate(c)
    <3>1. /\ PoolRequest(c) = [op |-> "idle", page |-> NULL]
          /\ PoolRequest(c)' = [op |-> "alloc", page |-> NULL]
      BY <1>0, <2>1 DEF CallAllocate, TypeOK
    <3>2. FreePages' = FreePages /\ held' = held
      BY <1>0, <2>1 DEF CallAllocate, TypeOK, FreePages, Carries
    <3>3. Pool!CallAllocate(c)
      BY <2>0, <3>1, <3>2 DEF Pool!CallAllocate, Pool!Idle
    <3> QED
      BY <3>3 DEF Pool!Next
  <2>2. CASE CallFree(c)
    <3>1. PICK p \in held : held' = held \ {p} /\ reg' = [reg EXCEPT ![c] = p]
      BY <2>2 DEF CallFree
    <3>2. /\ PoolRequest(c) = [op |-> "idle", page |-> NULL]
          /\ PoolRequest(c)' = [op |-> "free", page |-> p]
      BY <1>0, <2>2, <3>1 DEF CallFree, TypeOK
    <3>3. FreePages' = FreePages
      BY <1>0, <2>2, <3>1 DEF CallFree, TypeOK, FreePages, Carries
    <3>4. Pool!CallFree(c)
      BY <2>0, <3>1, <3>2, <3>3 DEF Pool!CallFree, Pool!Idle
    <3> QED
      BY <3>4 DEF Pool!Next
  <2>3. CASE UsePage(c)
    <3>1. PoolRequest(c)' = PoolRequest(c)
      BY <1>0, <2>3 DEF UsePage, FirstStep, AfterUnlock, TypeOK, PlaceInv, Ops
    <3>2. FreePages' = FreePages /\ held' = held
      BY <1>0, <2>3 DEF UsePage, FirstStep, AfterUnlock, TypeOK, PlaceInv, FreePages, Carries
    <3> QED
      BY <2>0, <3>1, <3>2 DEF Pool!vars
  <2>4. CASE TestAndSet(c)
    <3>1. PoolRequest(c)' = PoolRequest(c)
      BY <1>0, <2>4 DEF TestAndSet, FirstStep, AfterUnlock, TypeOK, PlaceInv, Ops
    <3>2. FreePages' = FreePages /\ held' = held
      BY <1>0, <2>4 DEF TestAndSet, FirstStep, AfterUnlock, TypeOK, PlaceInv, FreePages, Carries
    <3> QED
      BY <2>0, <3>1, <3>2 DEF Pool!vars
  <2>5. CASE SpinUntilFree(c)
    <3>1. PoolRequest(c)' = PoolRequest(c)
      BY <1>0, <2>5 DEF SpinUntilFree, FirstStep, AfterUnlock, TypeOK, PlaceInv, Ops
    <3>2. FreePages' = FreePages /\ held' = held
      BY <1>0, <2>5 DEF SpinUntilFree, FirstStep, AfterUnlock, TypeOK, PlaceInv, FreePages, Carries
    <3> QED
      BY <2>0, <3>1, <3>2 DEF Pool!vars
  <2>6. CASE Unlock(c)
    <3>1. PoolRequest(c)' = PoolRequest(c)
      BY <1>0, <2>6 DEF Unlock, FirstStep, AfterUnlock, TypeOK, PlaceInv, Ops
    <3>2. FreePages' = FreePages /\ held' = held
      BY <1>0, <2>6 DEF Unlock, FirstStep, AfterUnlock, TypeOK, PlaceInv, FreePages, Carries
    <3> QED
      BY <2>0, <3>1, <3>2 DEF Pool!vars
  <2>7. CASE ReadRoot(c)
    <3>1. FreePages' = FreePages /\ held' = held
      BY <1>0, <2>7 DEF ReadRoot, TypeOK, PlaceInv, FreePages, Carries, Pages, NULL
    <3>2. CASE root = NULL
      <4>1. /\ PoolRequest(c) = [op |-> "alloc", page |-> NULL]
            /\ PoolRequest(c)' = [op |-> "got", page |-> NULL]
        BY <1>0, <2>7, <3>2 DEF ReadRoot, TypeOK, PlaceInv
      <4>2. Pool!Allocate(c)
        BY <2>0, <3>1, <3>2, <4>1, EmptyStack DEF Pool!Allocate
      <4> QED
        BY <4>2 DEF Pool!Next
    <3>3. CASE root # NULL
      <4>1. PoolRequest(c)' = PoolRequest(c)
        BY <1>0, <2>7, <3>3 DEF ReadRoot, TypeOK, PlaceInv
      <4> QED
        BY <2>0, <3>1, <4>1 DEF Pool!vars
    <3> QED
      BY <3>2, <3>3
  <2>8. CASE PopRoot(c)
    <3>1. reg[c] = root /\ root \in FreePages /\ op[c] # "free"
      BY <1>0, <2>8, RootIsPage DEF PopRoot, PlaceInv
    <3>2. /\ PoolRequest(c) = [op |-> "alloc", page |-> NULL]
          /\ PoolRequest(c)' = [op |-> "got", page |-> root]
      BY <1>0, <2>8, <3>1 DEF PopRoot, TypeOK
    <3>3. FreePages' = FreePages \ {root} /\ held' = held
      BY <1>0, <2>8, <3>1 DEF PopRoot, TypeOK, FreePages, Carries
    <3>4. Pool!Allocate(c)
      BY <2>0, <3>1, <3>2, <3>3 DEF Pool!Allocate
    <3> QED
      BY <3>4 DEF Pool!Next
  <2>9. CASE ZeroFirst(c)
    <3>1. PoolRequest(c)' = PoolRequest(c)
      BY <1>0, <2>9 DEF ZeroFirst, FirstStep, AfterUnlock, TypeOK, PlaceInv, Ops
    <3>2. FreePages' = FreePages /\ held' = held
      BY <1>0, <2>9 DEF ZeroFirst, FirstStep, AfterUnlock, TypeOK, PlaceInv, FreePages, Carries
    <3> QED
      BY <2>0, <3>1, <3>2 DEF Pool!vars
  <2>10. CASE ZeroRest(c)
    <3>1. PoolRequest(c)' = PoolRequest(c)
      BY <1>0, <2>10 DEF ZeroRest, FirstStep, AfterUnlock, TypeOK, PlaceInv, Ops
    <3>2. FreePages' = FreePages /\ held' = held
      BY <1>0, <2>10 DEF ZeroRest, FirstStep, AfterUnlock, TypeOK, PlaceInv, FreePages, Carries
    <3> QED
      BY <2>0, <3>1, <3>2 DEF Pool!vars
  <2>11. CASE ReturnPage(c)
    <3>1. /\ PoolRequest(c) = [op |-> "got", page |-> reg[c]]
          /\ PoolRequest(c)' = [op |-> "idle", page |-> NULL]
      BY <1>0, <2>11 DEF ReturnPage, TypeOK, PlaceInv
    <3>2. FreePages' = FreePages
      BY <1>0, <2>11 DEF ReturnPage, TypeOK, PlaceInv, FreePages, Carries, Pages, NULL
    <3>3. Pool!ReturnPage(c)
      BY <2>0, <2>11, <3>1, <3>2 DEF ReturnPage, Pool!ReturnPage, Pool!Idle
    <3> QED
      BY <3>3 DEF Pool!Next
  <2>12. CASE LinkPage(c)
    <3>1. PoolRequest(c)' = PoolRequest(c)
      BY <1>0, <2>12 DEF LinkPage, FirstStep, AfterUnlock, TypeOK, PlaceInv, Ops
    <3>2. FreePages' = FreePages /\ held' = held
      BY <1>0, <2>12 DEF LinkPage, FirstStep, AfterUnlock, TypeOK, PlaceInv, FreePages, Carries
    <3> QED
      BY <2>0, <3>1, <3>2 DEF Pool!vars
  <2>13. CASE PushPage(c)
    <3>1. op[c] = "free" /\ reg[c] \in Pages /\ Carries(c, reg[c])
      BY <1>0, <2>13 DEF PushPage, TypeOK, PlaceInv, Pointers, Carries
    <3>2. /\ PoolRequest(c) = [op |-> "free", page |-> reg[c]]
          /\ PoolRequest(c)' = [op |-> "idle", page |-> NULL]
      BY <1>0, <2>13, <3>1 DEF PushPage, TypeOK
    <3>3. FreePages' = FreePages \cup {reg[c]} /\ held' = held
      <4>1. ASSUME NEW d \in CPUs, NEW p \in Pages
            PROVE  Carries(d, p)' <=> Carries(d, p) /\ d # c
        BY <1>0, <2>13, <3>1 DEF PushPage, Carries, TypeOK
      <4>2. held' = held /\ reg[c] \notin held
        BY <1>0, <2>13, <3>1 DEF PushPage, OneOwner
      <4>3. \A d \in CPUs : Carries(d, reg[c]) => d = c
        BY <1>0, <3>1 DEF OneOwner
      <4>4. \A p \in Pages : Carries(c, p) => p = reg[c]
        BY DEF Carries
      <4> QED
        BY <3>1, <4>1, <4>2, <4>3, <4>4 DEF FreePages
    <3>4. Pool!Free(c)
      BY <2>0, <2>13, <3>2, <3>3 DEF PushPage, Pool!Free, Pool!Idle
    <3> QED
      BY <3>4 DEF Pool!Next
  <2> QED
    BY <1>2, <2>1, <2>2, <2>3, <2>4, <2>5, <2>6, <2>7,
       <2>8, <2>9, <2>10, <2>11, <2>12, <2>13 DEF Run
<1> QED
  BY <1>1, <1>2 DEF Next

\* Every behaviour of the concurrent allocator is one of the pool in which each
\* call takes effect at once: KMemAllocate gives out a page nobody owns, and
\* fails only at a moment when no page is free.
THEOREM Refinement == Spec => ImplementsPool
BY PoolInit, PoolStep, AlwaysIInv, PTL DEF Spec, ImplementsPool, Pool!Spec
=============================================================================
