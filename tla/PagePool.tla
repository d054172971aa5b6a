------------------------------ MODULE PagePool ------------------------------
(***************************************************************************)
(* What the kernel page allocator of kmemory.c promises its callers        *)
(* (include/kmemory.h): a fixed set of pages, each of which is either free *)
(* or owned by the code that allocated it.  KMemAllocate returns a page    *)
(* nobody else owns and fails only when none is left; KMemFree gives one   *)
(* back.  Each request takes effect at one moment between its call and its *)
(* return.  KMemory is shown to implement this specification.              *)
(***************************************************************************)
CONSTANTS CPUs,     \* the processors that call the allocator
          Pages,    \* the pages of the region given to KMemInit
          NULL      \* the null pointer

VARIABLES free,     \* pages nobody owns
          held,     \* pages owned by the code that allocated them
          request   \* what each processor is asking for, or has been given

vars == <<free, held, request>>

Idle == [op |-> "idle", page |-> NULL]

Requests == [op : {"idle", "alloc", "got", "free"}, page : Pages \cup {NULL}]

TypeOK == /\ free \in SUBSET Pages
          /\ held \in SUBSET Pages
          /\ request \in [CPUs -> Requests]

Init == /\ free = Pages
        /\ held = {}
        /\ request = [c \in CPUs |-> Idle]

CallAllocate(c) ==
  /\ request[c] = Idle
  /\ request' = [request EXCEPT ![c] = [op |-> "alloc", page |-> NULL]]
  /\ UNCHANGED <<free, held>>

\* Out of memory is reported only when no page is free.
Allocate(c) ==
  /\ request[c].op = "alloc"
  /\ \/ \E p \in free :
          /\ free' = free \ {p}
          /\ request' = [request EXCEPT ![c] = [op |-> "got", page |-> p]]
     \/ /\ free = {}
        /\ request' = [request EXCEPT ![c] = [op |-> "got", page |-> NULL]]
        /\ UNCHANGED free
  /\ UNCHANGED held

ReturnPage(c) ==
  /\ request[c].op = "got"
  /\ held' = held \cup ({request[c].page} \ {NULL})
  /\ request' = [request EXCEPT ![c] = Idle]
  /\ UNCHANGED free

\* The caller of KMemFree gives up its page with the call.
CallFree(c) ==
  /\ request[c] = Idle
  /\ \E p \in held :
       /\ held' = held \ {p}
       /\ request' = [request EXCEPT ![c] = [op |-> "free", page |-> p]]
  /\ UNCHANGED free

Free(c) ==
  /\ request[c].op = "free"
  /\ free' = free \cup {request[c].page}
  /\ request' = [request EXCEPT ![c] = Idle]
  /\ UNCHANGED held

Next == \E c \in CPUs : \/ CallAllocate(c) \/ Allocate(c) \/ ReturnPage(c)
                        \/ CallFree(c) \/ Free(c)

Spec == Init /\ [][Next]_vars
=============================================================================
