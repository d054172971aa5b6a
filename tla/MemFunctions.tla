----------------------------- MODULE MemFunctions -----------------------------
(***************************************************************************)
(* memcpy, memset and memcmp, kernel/src/util.s: eight bytes at a time,    *)
(* then the rest.  Memory is a function from addresses to bytes.           *)
(***************************************************************************)
EXTENDS Integers, Sequences

Word == 8

\* rep movsq and rep movsb: n bytes from src to dest, ascending.
Moved(mem, dest, src, n) ==
  [a \in DOMAIN mem |-> IF a - dest \in 0..(n - 1) THEN mem[src + (a - dest)] ELSE mem[a]]

MemCpy(mem, dest, src, len) ==
  LET words == Word * (len \div Word)
  IN  Moved(Moved(mem, dest, src, words), dest + words, src + words, len % Word)

----------------------------------------------------------------------------
(* rax is the sequence of its bytes, al first.                             *)

Zeros(n) == [i \in 1..n |-> 0]
LowHalf(rax, n) == SubSeq(rax, 1, n)
Shl(rax, n) == Zeros(n) \o SubSeq(rax, 1, Word - n)
WithLow(rax, low) == low \o SubSeq(rax, Len(low) + 1, Word)

\* Mutant of Replicated: the last doubling is left out.
ReplicatedHalf(value) ==
  LET ax  == WithLow(Zeros(Word), <<value, value>>)
  IN  WithLow(Shl(ax, 2), LowHalf(ax, 2))

\* A byte in all places of rax, doubled three times.
Replicated(value) ==
  LET ax  == WithLow(Zeros(Word), <<value, value>>)
      eax == WithLow(Shl(ax, 2), LowHalf(ax, 2))
  IN  WithLow(Shl(eax, 4), LowHalf(eax, 4))

\* rep stosq and rep stosb.
StoreWords(mem, dest, rax, n) ==
  [a \in DOMAIN mem |->
     IF a - dest \in 0..(Word * n - 1) THEN rax[((a - dest) % Word) + 1] ELSE mem[a]]
StoreBytes(mem, dest, rax, n) ==
  [a \in DOMAIN mem |-> IF a - dest \in 0..(n - 1) THEN rax[1] ELSE mem[a]]

\* memset.large goes on into memset.small.
MemSetLarge(mem, dest, rax, len) ==
  StoreBytes(StoreWords(mem, dest, rax, len \div Word),
             dest + Word * (len \div Word), rax, len % Word)

MemSet(mem, dest, value, len) ==
  CASE value = 0 -> MemSetLarge(mem, dest, Zeros(Word), len)
    [] value # 0 /\ len < 2 * Word -> StoreBytes(mem, dest, <<value>>, len % Word)
    [] OTHER -> MemSetLarge(mem, dest, Replicated(value), len)

----------------------------------------------------------------------------
(* repe cmpsb stops after the first bytes that differ, and compares b to a. *)

Differ(mem, a, b, len) == {i \in 0..(len - 1) : mem[a + i] # mem[b + i]}
First(S) == CHOOSE i \in S : \A j \in S : i <= j

MemCmp(mem, a, b, len) ==
  LET d == Differ(mem, a, b, len)
  IN  IF d = {} THEN 0 ELSE IF mem[b + First(d)] < mem[a + First(d)] THEN 1 ELSE -1
=============================================================================
