------------------------------ MODULE Interrupts ------------------------------
(***************************************************************************)
(* Interrupts and exceptions of one processor, kernel/src/intr.c,          *)
(* intr_asm.s and the last part of cpu.c: the IDT, the entry code that     *)
(* saves the context on the stack, IntrHandler, and the end of interrupt.  *)
(*                                                                         *)
(* Nothing enables interrupts yet: what is interrupted here is the program *)
(* in user mode with interrupts enabled that the IDT, the flag mask of     *)
(* SYSCALL and the user segments are prepared for.  Hardware is external:  *)
(* the request and in-service registers of the local APIC (irr and isr),   *)
(* NMIs, exceptions, and what the processor pushes.                        *)
(***************************************************************************)
EXTENDS Integers, Sequences, FiniteSets

CONSTANTS
  Irqs,         \* vectors of the devices
  Exceptions,   \* vectors of exceptions that happen
  MaxEvents     \* bound: interrupts and exceptions in a behaviour

INTR_IRQ == 32
INTR_APIC_TIMER == 240
INTR_APIC_SPURIOUS == 255
NMI == 2

ASSUME IrqAssumption == Irqs \subseteq INTR_IRQ..(INTR_APIC_TIMER - 1)
ASSUME ExceptionAssumption == Exceptions \subseteq 0..19 /\ MaxEvents \in Nat

VARIABLES
  irr, isr,   \* local APIC: requested, in service
  at,         \* place in the code, with a number that is at hand there
  cs,         \* "user" or "kernel"
  intr,       \* are interrupts enabled (RFLAGS.IF)?
  reg,        \* registers that a C function does not save
  stack,
  inNmi,      \* are NMIs blocked, until the next IRETQ?
  frames,     \* history: the vectors taken and not left, with what was interrupted
  count

cpu == <<at, cs, intr, reg, stack>>
vars == <<irr, isr, cpu, inNmi, frames, count>>

----------------------------------------------------------------------------
(* The code.                                                               *)

\* The order of pushing; IntrContext and popping have the reverse.
Pushed == <<"r11", "r10", "r9", "r8", "rdi", "rsi", "rdx", "rcx", "rax">>
Popped == <<"rax", "rcx", "rdx", "rsi", "rdi", "r8", "r9", "r10", "r11">>
Saved == {Pushed[i] : i \in 1..Len(Pushed)}

\* Stubs that push a zero where others find an error code.
IsrNormal == {0, 1, 3, 6, 7, 8, 10, 16, 18, 19, INTR_IRQ, INTR_APIC_TIMER}
IsrErrorCode == {11, 12, 13, 14, 17}

Ignored == {NMI, 4, 5, 9, 15, 20, INTR_APIC_SPURIOUS}

\* IntrInitIdt: the code that a vector leads to.
Idt(v) ==
  CASE v \in INTR_IRQ..(INTR_APIC_TIMER - 1) -> <<"stub", INTR_IRQ>>
    [] v \in IsrNormal \cup IsrErrorCode     -> <<"stub", v>>
    [] v \in Ignored                         -> <<"IntrIsrIgnore", 0>>
    [] OTHER                                 -> <<"unset", v>>

Run == <<"run", 0>>
Panicked == <<"Panic", 0>>

Highest(S) == CHOOSE v \in S : \A w \in S : w <= v

\* Mutant of CpuGetHardwareIntr: the offset of the register is forgotten.
CpuGetHardwareIntrNoOffset ==
  IF isr = {} THEN -1
  ELSE LET r == Highest({v \div 32 : v \in isr})
       IN  Highest({v % 32 : v \in {w \in isr : w \div 32 = r}}) - INTR_IRQ

\* The highest bit of the highest in-service register that has any.
CpuGetHardwareIntr ==
  IF isr = {} THEN -1
  ELSE LET r == Highest({v \div 32 : v \in isr})
       IN  Highest({v % 32 : v \in {w \in isr : w \div 32 = r}}) + 32 * r - INTR_IRQ

Panics(n, from) ==
  \/ n \in {1, 8, 10, 18} \/ n \notin IsrNormal \cup IsrErrorCode
  \/ n \in {0, 3, 6, 11, 12, 13, 16, 17, 19} /\ from = "kernel"

\* Mutant of Handled: the end of interrupt is sent whatever the number.
HandledEndsAll(n, from) == IF Panics(n, from) THEN Panicked ELSE <<"irq", 0>>

\* Where IntrHandler goes with a number: to Panic, to the interrupt of a device, or
\* back.
Handled(n, from) ==
  CASE Panics(n, from) -> Panicked
    [] n = INTR_IRQ    -> <<"irq", 0>>
    [] OTHER           -> <<"leave", 0>>

\* The word of IntrContext n words from its start.
Context(n) == stack[Len(stack) - n]

----------------------------------------------------------------------------
(* The processor.                                                          *)

HasErrorCode == {8, 10, 11, 12, 13, 14, 17}

\* Vector v is taken: the processor saves where it is and goes where the IDT says.
\* The gates are interrupt gates.
Take(v) ==
  /\ stack' = stack \o <<"ss", Len(stack), intr, cs, at>>
                    \o (IF v \in HasErrorCode THEN <<"error">> ELSE <<>>)
  /\ at' = Idt(v) /\ cs' = "kernel" /\ intr' = FALSE
  /\ frames' = Append(frames, [vector |-> v, at |-> at, cs |-> cs, intr |-> intr,
                               reg |-> reg, depth |-> Len(stack)])
  /\ UNCHANGED reg

\* IRETQ of the frame that ends with word n.
Iret(n) ==
  /\ at' = stack[n] /\ cs' = stack[n - 1] /\ intr' = stack[n - 2]
  /\ stack' = SubSeq(stack, 1, stack[n - 3])
  /\ inNmi' = FALSE
  /\ frames' = SubSeq(frames, 1, Len(frames) - 1)

\* The local APIC hands over a request whose class is above all in service.
Class(v) == v \div 16
Pending ==
  {v \in irr : (\A w \in irr : w <= v) /\ \A w \in isr : Class(w) < Class(v)}
Accept ==
  /\ intr /\ at # Panicked
  /\ \E v \in Pending : Take(v) /\ irr' = irr \ {v} /\ isr' = isr \cup {v}
  /\ UNCHANGED <<inNmi, count>>

Event == count < MaxEvents /\ count' = count + 1 /\ at # Panicked
Raise(v) == Event /\ v \notin irr /\ irr' = irr \cup {v} /\ UNCHANGED <<isr, cpu, inNmi, frames>>

TakeNmi == Event /\ ~inNmi /\ inNmi' = TRUE /\ Take(NMI) /\ UNCHANGED <<irr, isr>>
Spurious == Event /\ intr /\ Take(INTR_APIC_SPURIOUS) /\ UNCHANGED <<irr, isr, inNmi>>

\* An exception of the program, or of IntrHandler; a request comes before the next
\* instruction.
Except(v) ==
  /\ Event
  /\ at = Run \/ at[1] \in {"handler", "irq", "eoi"}
  /\ intr => Pending = {}
  /\ Take(v)
  /\ UNCHANGED <<irr, isr, inNmi>>

----------------------------------------------------------------------------
(* The entry code and IntrHandler.                                         *)

Stub ==
  /\ at[1] = "stub"
  /\ stack' = stack \o (IF at[2] \in IsrNormal THEN <<0>> ELSE <<>>) \o <<at[2]>>
  /\ at' = <<"entry", 0>>
  /\ UNCHANGED <<irr, isr, cs, intr, reg, inNmi, frames, count>>

Ignore ==
  /\ at[1] = "IntrIsrIgnore"
  /\ Iret(Len(stack))
  /\ UNCHANGED <<irr, isr, reg, count>>

IntrEntry ==
  /\ at[1] = "entry"
  /\ stack' = stack \o [i \in 1..Len(Pushed) |-> reg[Pushed[i]]]
  /\ at' = <<"handler", 0>>
  /\ UNCHANGED <<irr, isr, cs, intr, reg, inNmi, frames, count>>

IntrHandler ==
  /\ at[1] = "handler"
  /\ at' = Handled(Context(9), Context(12))
  /\ reg' = [r \in Saved |-> "used"]
  /\ UNCHANGED <<irr, isr, cs, intr, stack, inNmi, frames, count>>

GetIrq ==
  /\ at[1] = "irq"
  /\ at' = <<"eoi", CpuGetHardwareIntr>>
  /\ UNCHANGED <<irr, isr, cs, intr, reg, stack, inNmi, frames, count>>

\* Mutant of CpuSendEoi: only for an IRQ number above zero.
CpuSendEoiSkipsZero ==
  /\ at[1] = "eoi"
  /\ isr' = IF isr = {} \/ at[2] = 0 THEN isr ELSE isr \ {Highest(isr)}
  /\ at' = <<"leave", 0>>
  /\ UNCHANGED <<irr, cs, intr, reg, stack, inNmi, frames, count>>

\* The local APIC takes the highest vector out of service.
CpuSendEoi ==
  /\ at[1] = "eoi"
  /\ isr' = IF isr = {} THEN isr ELSE isr \ {Highest(isr)}
  /\ at' = <<"leave", 0>>
  /\ UNCHANGED <<irr, cs, intr, reg, stack, inNmi, frames, count>>

\* Mutant of PopRegs: popped in the order of pushing.
PopRegsInOrder ==
  /\ at[1] = "leave"
  /\ reg' = [r \in Saved |-> Context((CHOOSE i \in 1..Len(Pushed) : Pushed[i] = r) - 1)]
  /\ stack' = SubSeq(stack, 1, Len(stack) - Len(Popped))
  /\ at' = <<"drop", 0>>
  /\ UNCHANGED <<irr, isr, cs, intr, inNmi, frames, count>>

PopRegs ==
  /\ at[1] = "leave"
  /\ reg' = [r \in Saved |-> Context((CHOOSE i \in 1..Len(Popped) : Popped[i] = r) - 1)]
  /\ stack' = SubSeq(stack, 1, Len(stack) - Len(Popped))
  /\ at' = <<"drop", 0>>
  /\ UNCHANGED <<irr, isr, cs, intr, inNmi, frames, count>>

\* Number and error code are dropped.
Leave ==
  /\ at[1] = "drop"
  /\ Iret(Len(stack) - 2)
  /\ UNCHANGED <<irr, isr, reg, count>>

----------------------------------------------------------------------------
Init ==
  /\ irr = {} /\ isr = {}
  /\ at = Run /\ cs = "user" /\ intr = TRUE
  /\ reg = [r \in Saved |-> r] /\ stack = <<>>
  /\ inNmi = FALSE /\ frames = <<>> /\ count = 0

Code == Stub \/ Ignore \/ IntrEntry \/ IntrHandler \/ GetIrq \/ CpuSendEoi \/ PopRegs \/ Leave
Hardware ==
  \/ Accept \/ TakeNmi \/ Spurious
  \/ \E v \in Irqs \cup {INTR_APIC_TIMER} : Raise(v)
  \/ \E v \in Exceptions : Except(v)
Next == Hardware \/ Code

\* The processor goes on, and takes a request that it may take.
Spec == Init /\ [][Next]_vars /\ WF_vars(Code) /\ WF_vars(Accept)

----------------------------------------------------------------------------
(* Properties.                                                             *)

\* The number that CpuGetHardwareIntr finds in the in-service registers is that of the
\* interrupt whose handler asks, also when an NMI or an exception came in between.
OwnIrqFound ==
  at[1] = "eoi" => /\ frames # <<>>
                   /\ at[2] = frames[Len(frames)].vector - INTR_IRQ

\* An end of interrupt takes out of service the vector of the handler that sends it, and
\* of no handler below it on the stack.
EndsOwn ==
  [][isr' \subseteq isr /\ isr' # isr =>
       isr \ isr' = {frames[Len(frames)].vector}]_vars

\* IRETQ goes back to where the processor was, with its registers, interrupt flag and
\* stack (every vector that does not panic pushes as much as the entry code drops).
ReturnsExactly ==
  [][Len(frames') < Len(frames) =>
       LET f == frames[Len(frames)]
       IN  <<at', cs', intr', reg', Len(stack')>> = <<f.at, f.cs, f.intr, f.reg, f.depth>>]_vars

\* Every request of a device is served and its vector leaves service, unless the kernel
\* panics or the timer has fired, after which nothing is delivered any more.
Served ==
  \A v \in Irqs :
    v \in irr \cup isr ~> v \notin irr \cup isr \/ at = Panicked \/ INTR_APIC_TIMER \in isr
=============================================================================
