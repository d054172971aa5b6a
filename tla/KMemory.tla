------------------------------ MODULE KMemory ------------------------------
(***************************************************************************)
(* The kernel page allocator, src/kernel/src/kmemory.c, run by several     *)
(* processors at once, with the spinlock of include/atomic.h that guards   *)
(* it.  Free pages form a linked list threaded through their own first     *)
(* word; KMemStackRoot points at its head.  Every shared access of         *)
(* KMemAllocate, KMemZAllocate and KMemFree is a step of its own, so that  *)
(* whatever order the processors run in is an order of these steps.        *)
(* A page is known by its number in the region, 1 being the lowest.        *)
(***************************************************************************)
EXTENDS Naturals

CONSTANTS CPUs,      \* the processors
          NumPages,  \* length / 0x1000, the number of pages in the region
          Junk       \* whatever data the owner of a page writes in its first word

\* KMemInit asserts length > 0; the region lies in the 32-bit space.
ASSUME NumPagesAssumption == NumPages \in Nat \ {0}

NULL == 0
Pages == 1..NumPages
ASSUME JunkAssumption == Junk \notin Pages \cup {NULL}

VARIABLES
  root,    \* KMemStackRoot
  lock,    \* KMemStackLock.data
  word,    \* the first word of each page
  clear,   \* is the rest of the page all zero?
  pc,      \* where each processor is in kmemory.c
  op,      \* the function it is executing
  reg,     \* its newPage (allocate) or page (free)
  held     \* the pages owned by the kernel code that allocated them

vars == <<root, lock, word, clear, pc, op, reg, held>>

Pointers == Pages \cup {NULL}
Ops == {"allocate", "zallocate", "free"}
CriticalPCs == {"read", "pop", "link", "push", "unlock"}
PCs == {"idle", "lock", "spin", "zero", "zerorest", "return"} \cup CriticalPCs

TypeOK ==
  /\ root \in Pointers
  /\ lock \in {0, 1}
  /\ word \in [Pages -> Pointers \cup {Junk}]
  /\ clear \in [Pages -> BOOLEAN]
  /\ pc \in [CPUs -> PCs]
  /\ op \in [CPUs -> Ops]
  /\ reg \in [CPUs -> Pointers]
  /\ held \in SUBSET Pages

\* KMemInit chains every page to the one below it and starts at the top page.
Init ==
  /\ root = NumPages
  /\ lock = 0
  /\ word = [p \in Pages |-> p - 1]
  /\ clear = [p \in Pages |-> FALSE]
  /\ pc = [c \in CPUs |-> "idle"]
  /\ op = [c \in CPUs |-> "allocate"]
  /\ reg = [c \in CPUs |-> NULL]
  /\ held = {}

Goto(c, from, to) == pc[c] = from /\ pc' = [pc EXCEPT ![c] = to]

----------------------------------------------------------------------------
(* What the rest of the kernel does: call the allocator, use its pages.    *)

CallAllocate(c) ==
  /\ Goto(c, "idle", "lock")
  /\ \E o \in {"allocate", "zallocate"} : op' = [op EXCEPT ![c] = o]
  /\ reg' = [reg EXCEPT ![c] = NULL]
  /\ UNCHANGED <<root, lock, word, clear, held>>

\* Any processor may free a page, whoever allocated it.  KMemFree(NULL)
\* returns at once and is no step.
CallFree(c) ==
  /\ Goto(c, "idle", "lock")
  /\ \E p \in held :
       /\ held' = held \ {p}
       /\ reg' = [reg EXCEPT ![c] = p]
  /\ op' = [op EXCEPT ![c] = "free"]
  /\ UNCHANGED <<root, lock, word, clear>>

\* A page in use holds any data, even data that looks like a page address.
UsePage(c) ==
  /\ pc[c] = "idle"
  /\ \E p \in held, v \in {Junk, root} :
       /\ word' = [word EXCEPT ![p] = v]
       /\ clear' = [clear EXCEPT ![p] = FALSE]
  /\ UNCHANGED <<root, lock, pc, op, reg, held>>

----------------------------------------------------------------------------
(* AtomicLock and AtomicUnlock.                                            *)

FirstStep(c) == IF op[c] = "free" THEN "link" ELSE "read"

TestAndSet(c) ==
  /\ pc[c] = "lock"
  /\ pc' = [pc EXCEPT ![c] = IF lock = 0 THEN FirstStep(c) ELSE "spin"]
  /\ lock' = 1
  /\ UNCHANGED <<root, word, clear, op, reg, held>>

\* The inner loop only reads the lock, until it sees it released.
SpinUntilFree(c) ==
  /\ lock = 0
  /\ Goto(c, "spin", "lock")
  /\ UNCHANGED <<root, lock, word, clear, op, reg, held>>

\* Mutant of AfterUnlock: KMemZAllocate returns the page as it is.
AfterUnlockNoZero(c) == IF op[c] = "free" THEN "idle" ELSE "return"

AfterUnlock(c) ==
  IF op[c] = "free" THEN "idle"
  ELSE IF op[c] = "zallocate" /\ reg[c] # NULL THEN "zero" ELSE "return"

\* Mutant of Unlock: KMemAllocate returns without unlocking when memory is short.
UnlockOnlyOnSuccess(c) ==
  /\ Goto(c, "unlock", AfterUnlock(c))
  /\ lock' = IF reg[c] = NULL THEN lock ELSE 0
  /\ UNCHANGED <<root, word, clear, op, reg, held>>

Unlock(c) ==
  /\ Goto(c, "unlock", AfterUnlock(c))
  /\ lock' = 0
  /\ UNCHANGED <<root, word, clear, op, reg, held>>

----------------------------------------------------------------------------
(* KMemAllocate and KMemZAllocate.                                         *)

ReadRoot(c) ==
  /\ Goto(c, "read", IF root = NULL THEN "unlock" ELSE "pop")
  /\ reg' = [reg EXCEPT ![c] = root]
  /\ UNCHANGED <<root, lock, word, clear, op, held>>

\* Mutant of PopRoot: the page given out stays on the stack.
PopRootKeepsRoot(c) ==
  /\ Goto(c, "pop", "unlock")
  /\ UNCHANGED <<root, lock, word, clear, op, reg, held>>

\* KMemStackRoot is read a second time here.  NULL would be dereferenced:
\* PopReadsPage says that this never happens.
PopRoot(c) ==
  /\ Goto(c, "pop", "unlock")
  /\ root' = word[root]
  /\ UNCHANGED <<lock, word, clear, op, reg, held>>

\* memset runs without the lock.
ZeroFirst(c) ==
  /\ Goto(c, "zero", "zerorest")
  /\ word' = [word EXCEPT ![reg[c]] = 0]
  /\ UNCHANGED <<root, lock, clear, op, reg, held>>

ZeroRest(c) ==
  /\ Goto(c, "zerorest", "return")
  /\ clear' = [clear EXCEPT ![reg[c]] = TRUE]
  /\ UNCHANGED <<root, lock, word, op, reg, held>>

ReturnPage(c) ==
  /\ Goto(c, "return", "idle")
  /\ held' = held \cup ({reg[c]} \ {NULL})
  /\ UNCHANGED <<root, lock, word, clear, op, reg>>

----------------------------------------------------------------------------
(* KMemFree.                                                               *)

\* Mutant of LinkPage: the page is cut off from the rest of the stack.
LinkPageToNull(c) ==
  /\ Goto(c, "link", "push")
  /\ word' = [word EXCEPT ![reg[c]] = NULL]
  /\ UNCHANGED <<root, lock, clear, op, reg, held>>

LinkPage(c) ==
  /\ Goto(c, "link", "push")
  /\ word' = [word EXCEPT ![reg[c]] = root]
  /\ UNCHANGED <<root, lock, clear, op, reg, held>>

PushPage(c) ==
  /\ Goto(c, "push", "unlock")
  /\ root' = reg[c]
  /\ UNCHANGED <<lock, word, clear, op, reg, held>>

----------------------------------------------------------------------------
\* What a processor does once it has called: these steps it cannot refuse.
Run(c) == \/ TestAndSet(c) \/ SpinUntilFree(c) \/ Unlock(c)
          \/ ReadRoot(c) \/ PopRoot(c)
          \/ ZeroFirst(c) \/ ZeroRest(c) \/ ReturnPage(c)
          \/ LinkPage(c) \/ PushPage(c)

Next == \E c \in CPUs :
          CallAllocate(c) \/ CallFree(c) \/ UsePage(c) \/ Run(c)

Spec == Init /\ [][Next]_vars

\* Processors run on their own, with interrupts disabled, so each one that has
\* a step to take takes it.  Nothing makes a spinning one win the lock.
FairSpec == Spec /\ \A c \in CPUs : WF_vars(Run(c))

----------------------------------------------------------------------------
(* Properties.                                                             *)

\* Only one processor at a time is between AtomicLock and AtomicUnlock, and
\* the lock is set exactly while one is.
LockGuardsSection ==
  /\ \A c, d \in CPUs : pc[c] \in CriticalPCs /\ pc[d] \in CriticalPCs => c = d
  /\ lock = 1 <=> \E c \in CPUs : pc[c] \in CriticalPCs

\* Page p is in the hands of processor c inside the allocator: taken off the
\* stack and not returned yet, or given to KMemFree and not pushed yet.
Carries(c, p) ==
  /\ reg[c] = p
  /\ \/ op[c] = "free" /\ pc[c] \in {"lock", "spin", "link", "push"}
     \/ op[c] # "free" /\ pc[c] \in {"unlock", "zero", "zerorest", "return"}

FreePages == {p \in Pages : p \notin held /\ \A c \in CPUs : ~Carries(c, p)}

\* Following the list from KMemStackRoot meets s[n], s[n - 1], ..., s[1] and
\* then NULL.
IsStack(s, n) ==
  /\ s[0] = NULL
  /\ s[n] = root
  /\ \A i \in 1..n : s[i] \in FreePages /\ word[s[i]] = s[i - 1]
  /\ \A i, j \in 1..n : s[i] = s[j] => i = j
  /\ \A p \in FreePages : \E i \in 1..n : s[i] = p

\* No page is lost and none is listed twice: whatever the interleaving, the list
\* that KMemStackRoot starts ends in NULL and runs once through each of the
\* pages that nobody owns or carries, and through no other.
StackIsFreePages ==
  \E n \in 0..NumPages : \E s \in [0..n -> Pointers] : IsStack(s, n)

\* No page has two owners: one that a processor carries belongs to no caller and
\* is carried by no other processor.
OneOwner ==
  \A c, d \in CPUs, p \in Pages :
    Carries(c, p) => p \notin held /\ (Carries(d, p) => c = d)

\* The unguarded second read of KMemStackRoot in KMemAllocate finds the page
\* of the first one, never NULL.
PopReadsPage ==
  \A c \in CPUs : pc[c] = "pop" => root = reg[c] /\ root # NULL

\* The page KMemZAllocate returns is still all zero when it returns, although
\* it is cleared without the lock while other processors push and pop.
ZeroedOnReturn ==
  \A c \in CPUs :
    pc[c] = "return" /\ op[c] = "zallocate" /\ reg[c] # NULL
      => word[reg[c]] = 0 /\ clear[reg[c]]

\* Nobody but its owner writes a page: the allocator changes no byte of a page
\* that a caller owns, before, while or after it serves others.
OwnedPagesUntouched ==
  [][\A p \in held \cap held' :
       (\E c \in CPUs : Run(c)) => word'[p] = word[p] /\ clear'[p] = clear[p]]_vars

\* A processor that waits for the lock never waits for nothing: one that is in
\* or enters the section always leaves it, so that the lock is handed on.
LockHandedOn ==
  \A c \in CPUs :
    pc[c] \in {"lock", "spin"} ~> \E d \in CPUs : pc[d] = "unlock"

----------------------------------------------------------------------------
(* The allocator implements PagePool: an allocation takes effect when it   *)
(* pops the page or finds the stack empty, a free when it pushes the page. *)

PoolOp(c) ==
  IF op[c] = "free"
  THEN IF pc[c] \in {"lock", "spin", "link", "push"} THEN "free" ELSE "idle"
  ELSE IF pc[c] \in {"lock", "spin", "read", "pop"} THEN "alloc"
  ELSE IF pc[c] \in {"unlock", "zero", "zerorest", "return"} THEN "got" ELSE "idle"

PoolRequest(c) ==
  [op |-> PoolOp(c),
   page |-> IF PoolOp(c) \in {"got", "free"} THEN reg[c] ELSE NULL]

Pool == INSTANCE PagePool WITH
          free <- FreePages,
          request <- [c \in CPUs |-> PoolRequest(c)]

ImplementsPool == Pool!Spec
=============================================================================
