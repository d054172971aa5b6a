-------------------------- MODULE Interrupts_proofs --------------------------
(***************************************************************************)
(* Proofs about Interrupts: for any devices and exceptions, nested to any  *)
(* depth, an end of interrupt is for the interrupt whose handler sends it  *)
(* and IRETQ returns exactly to what was interrupted.                      *)
(***************************************************************************)
EXTENDS Interrupts, SequenceTheorems, TLAPS

----------------------------------------------------------------------------
(* Types.                                                                  *)

Vectors == 0..INTR_APIC_SPURIOUS
DeviceVectors == INTR_IRQ..(INTR_APIC_TIMER - 1)
Taken == Irqs \cup Exceptions \cup {INTR_APIC_TIMER, NMI, INTR_APIC_SPURIOUS}
Number(v) == Idt(v)[2]

PlaceNames ==
  {"run", "Panic", "stub", "IntrIsrIgnore", "unset", "entry", "handler", "irq", "eoi",
   "leave", "drop"}
Places == PlaceNames \X Int
Values == Saved \cup {"used"}
Registers == [Saved -> Values]
Frames == [vector : Taken, at : Places, cs : {"user", "kernel"}, intr : BOOLEAN,
           reg : Registers, depth : Nat]
Words == {"ss", "error"} \cup {"user", "kernel"} \cup BOOLEAN \cup Int \cup Places \cup Values

TypeInv ==
  /\ irr \subseteq Irqs \cup {INTR_APIC_TIMER}
  /\ isr \subseteq Irqs \cup {INTR_APIC_TIMER}
  /\ at \in Places
  /\ cs \in {"user", "kernel"}
  /\ intr \in BOOLEAN
  /\ reg \in Registers
  /\ stack \in Seq(Words)
  /\ inNmi \in BOOLEAN
  /\ frames \in Seq(Frames)
  /\ count \in Nat

----------------------------------------------------------------------------
(* The inductive invariant.                                                *)

\* Words that the processor and the stub push above the five of every frame.
ErrorWords(v) == IF v \in HasErrorCode THEN 1 ELSE 0
ZeroWords(v) == IF Number(v) \in IsrNormal THEN 1 ELSE 0
Pads(v) == ErrorWords(v) + ZeroWords(v)

\* What the processor saved of frame f is on stack s.
SavedBy(f, s) ==
  /\ s[f.depth + 2] = f.depth /\ s[f.depth + 3] = f.intr
  /\ s[f.depth + 4] = f.cs /\ s[f.depth + 5] = f.at

\* The context of frame f is on top of the stack s of length len.
ContextOf(f, len, s) ==
  /\ len = f.depth + 15 + Pads(f.vector)
  /\ s[len - 9] = Number(f.vector)
  /\ \A i \in 1..9 : s[len - 9 + i] = f.reg[Pushed[i]]

\* The code that serves frame f is at place, with registers rg and len words on stack s.
Ignoring(f, place, len, rg) ==
  /\ f.vector \in Ignored /\ place = <<"IntrIsrIgnore", 0>>
  /\ len = f.depth + 5 /\ rg = f.reg
Stubbing(f, place, len, rg) ==
  /\ f.vector \notin Ignored /\ place = <<"stub", Number(f.vector)>>
  /\ len = f.depth + 5 + ErrorWords(f.vector) /\ rg = f.reg
Entering(f, place, len, rg, s) ==
  /\ f.vector \notin Ignored /\ place[1] = "entry"
  /\ len = f.depth + 6 + Pads(f.vector) /\ s[len] = Number(f.vector) /\ rg = f.reg
Handling(f, place, len, s) ==
  /\ f.vector \notin Ignored /\ place[1] = "handler"
  /\ ContextOf(f, len, s)
EndingIrq(f, place, len, s) ==
  /\ f.vector \in DeviceVectors
  /\ place[1] = "irq" \/ place = <<"eoi", f.vector - INTR_IRQ>>
  /\ ContextOf(f, len, s)
Leaving(f, place, len, s) ==
  /\ f.vector \notin Ignored /\ place[1] = "leave"
  /\ Pads(f.vector) = 1 /\ ContextOf(f, len, s)
Dropping(f, place, len, rg) ==
  /\ f.vector \notin Ignored /\ place[1] = "drop"
  /\ len = f.depth + 7 /\ rg = f.reg
Serving(f, place, len, rg, s) ==
  /\ SavedBy(f, s)
  /\ \/ Ignoring(f, place, len, rg)
     \/ Stubbing(f, place, len, rg)
     \/ Entering(f, place, len, rg, s)
     \/ Handling(f, place, len, s)
     \/ EndingIrq(f, place, len, s)
     \/ Leaving(f, place, len, s)
     \/ Dropping(f, place, len, rg)

\* Frame k is served by what frame k + 1 interrupted, the last one by what runs now.
PlaceAt(k) == IF k = Len(frames) THEN at ELSE frames[k + 1].at
LenAt(k) == IF k = Len(frames) THEN Len(stack) ELSE frames[k + 1].depth
RegAt(k) == IF k = Len(frames) THEN reg ELSE frames[k + 1].reg
IntrAt(k) == IF k = Len(frames) THEN intr ELSE frames[k + 1].intr

\* Every frame is served, with interrupts disabled, and the program below all of them runs.
ServedInv ==
  /\ \A k \in 1..Len(frames) :
       Serving(frames[k], PlaceAt(k), LenAt(k), RegAt(k), stack) /\ IntrAt(k) = FALSE
  /\ PlaceAt(0) = Run /\ LenAt(0) = 0
\* Frames lie on the stack in the order they were made.
OrderInv ==
  /\ \A j, k \in 1..Len(frames) : j <= k => frames[j].depth <= frames[k].depth
  /\ \A k \in 1..Len(frames) : frames[k].depth + 5 <= Len(stack)

\* The first frame is of a device whose vector is still in service.
BeforeEoi(f, place) ==
  f.vector \in DeviceVectors /\ place[1] \in {"stub", "entry", "handler", "irq", "eoi"}
IsrInv ==
  /\ \A k \in 2..Len(frames) : frames[k].vector \in Exceptions \cup {NMI}
  /\ IF frames # <<>> /\ BeforeEoi(frames[1], PlaceAt(1)) THEN isr = {frames[1].vector}
     ELSE isr \in {{}, {INTR_APIC_TIMER}}

Live == TypeInv /\ ServedInv /\ OrderInv /\ IsrInv
IInv == TypeInv /\ (at # Panicked => Live)

----------------------------------------------------------------------------
(* Vectors, sequences and registers.                                       *)

\* What the IDT says of every vector there is.
LEMMA IdtFacts ==
  ASSUME NEW v \in Taken
  PROVE  /\ v \in Ignored => Idt(v) = <<"IntrIsrIgnore", 0>> /\ ErrorWords(v) = 0
         /\ v \notin Ignored => /\ Idt(v) = <<"stub", Number(v)>>
                                /\ Number(v) \in IsrNormal \cup IsrErrorCode
         /\ Number(v) \in Int
         /\ v \in DeviceVectors <=> Number(v) = INTR_IRQ
         /\ v \in DeviceVectors => v \notin Ignored /\ Pads(v) = 1
         /\ v \notin Ignored /\ Number(v) \notin {8, 10} => Pads(v) = 1
         /\ ErrorWords(v) \in {0, 1} /\ ZeroWords(v) \in {0, 1}
<1>0. v \in Vectors /\ (v \in 0..19 \/ v \in DeviceVectors \/ v \in {240, 255})
  BY IrqAssumption, ExceptionAssumption
     DEF Taken, Vectors, DeviceVectors, INTR_IRQ, INTR_APIC_TIMER, INTR_APIC_SPURIOUS, NMI
<1>1. CASE v \in DeviceVectors
  <2>0. v \notin Ignored /\ (v \in IsrNormal \cup IsrErrorCode => v = INTR_IRQ)
    BY <1>1 DEF IsrNormal, IsrErrorCode, Ignored, DeviceVectors, INTR_IRQ, INTR_APIC_TIMER,
       INTR_APIC_SPURIOUS, NMI
  <2>1. Idt(v) = <<"stub", INTR_IRQ>>
    BY <1>1, <2>0, Zenon DEF Idt, DeviceVectors
  <2> QED
    BY <1>1, <2>1 DEF Number, Pads, ErrorWords, ZeroWords, IsrNormal, IsrErrorCode, Ignored,
       HasErrorCode, DeviceVectors, INTR_IRQ, INTR_APIC_TIMER, INTR_APIC_SPURIOUS, NMI
<1>2. CASE v \in IsrNormal \cup IsrErrorCode /\ v \notin DeviceVectors
  <2>1. Idt(v) = <<"stub", v>>
    <3>1. v \notin Ignored
      BY <1>2 DEF IsrNormal, IsrErrorCode, Ignored, DeviceVectors, INTR_IRQ, INTR_APIC_TIMER,
         INTR_APIC_SPURIOUS, NMI
    <3> QED  BY <1>2, <3>1, Zenon DEF Idt, DeviceVectors
  <2>2. v \notin Ignored /\ v # 32 /\ v \in 0..240
    BY <1>2 DEF IsrNormal, IsrErrorCode, Ignored, DeviceVectors, INTR_IRQ, INTR_APIC_TIMER,
       INTR_APIC_SPURIOUS, NMI
  <2> QED
    BY <1>2, <2>1, <2>2 DEF Number, Pads, ErrorWords, ZeroWords, IsrNormal, IsrErrorCode,
       HasErrorCode, INTR_IRQ, INTR_APIC_TIMER
<1>3. CASE v \in Ignored /\ v \notin DeviceVectors
  <2>1. v \notin IsrNormal \cup IsrErrorCode /\ v \notin HasErrorCode
    BY <1>3 DEF IsrNormal, IsrErrorCode, Ignored, HasErrorCode, INTR_IRQ, INTR_APIC_TIMER,
       INTR_APIC_SPURIOUS, NMI
  <2>2. Idt(v) = <<"IntrIsrIgnore", 0>>
    BY <1>3, <2>1, Zenon DEF Idt, DeviceVectors
  <2> QED
    BY <1>3, <2>1, <2>2 DEF Number, Pads, ErrorWords, ZeroWords, INTR_IRQ, INTR_APIC_TIMER
<1> QED
  BY <1>0, <1>1, <1>2, <1>3 DEF IsrNormal, IsrErrorCode, Ignored, NMI, INTR_APIC_TIMER,
     INTR_APIC_SPURIOUS

\* A vector that does not panic pushes one word beside the five and its number.
LEMMA PadsOfHandled ==
  ASSUME NEW v \in Taken, NEW from, v \notin Ignored, Handled(Number(v), from) # Panicked
  PROVE  /\ Pads(v) = 1
         /\ IF v \in DeviceVectors THEN Handled(Number(v), from) = <<"irq", 0>>
            ELSE Handled(Number(v), from) = <<"leave", 0>>
  BY IdtFacts DEF Handled, Panics, Panicked

\* Two sequences of words, one after the other.
LEMMA Concat ==
  ASSUME NEW s \in Seq(Words), NEW t \in Seq(Words)
  PROVE  /\ s \o t \in Seq(Words) /\ Len(s \o t) = Len(s) + Len(t)
         /\ \A i \in 1..Len(s) : (s \o t)[i] = s[i]
         /\ \A i \in 1..Len(t) : (s \o t)[Len(s) + i] = t[i]
  BY ConcatProperties

\* The same with three.
LEMMA ConcatTwice ==
  ASSUME NEW s \in Seq(Words), NEW t \in Seq(Words), NEW u \in Seq(Words),
         NEW r, r = s \o t \o u
  PROVE  /\ r \in Seq(Words) /\ Len(r) = Len(s) + Len(t) + Len(u)
         /\ \A i \in 1..Len(s) : r[i] = s[i]
         /\ \A i \in 1..Len(t) : r[Len(s) + i] = t[i]
         /\ \A i \in 1..Len(u) : r[Len(s) + Len(t) + i] = u[i]
<1> DEFINE q == s \o t
<1>1. /\ q \in Seq(Words) /\ Len(q) = Len(s) + Len(t)
      /\ \A i \in 1..Len(s) : q[i] = s[i]
      /\ \A i \in 1..Len(t) : q[Len(s) + i] = t[i]
  BY Concat
<1>2. \A i \in 1..Len(s) : i \in 1..Len(q)
  BY <1>1
<1>3. \A i \in 1..Len(t) : Len(s) + i \in 1..Len(q)
  BY <1>1
<1> HIDE DEF q
<1>4. /\ q \o u \in Seq(Words) /\ Len(q \o u) = Len(q) + Len(u)
      /\ \A i \in 1..Len(q) : (q \o u)[i] = q[i]
      /\ \A i \in 1..Len(u) : (q \o u)[Len(q) + i] = u[i]
  BY <1>1, Concat
<1> QED  BY <1>1, <1>2, <1>3, <1>4 DEF q

\* A function from the first positions is a sequence.
LEMMA FunctionAsSeq ==
  ASSUME NEW S, NEW n \in Nat, NEW q \in [1..n -> S]
  PROVE  q \in Seq(S) /\ Len(q) = n
<1>1. q \in Seq(S)  BY SeqDef
<1>2. 1..Len(q) = 1..n /\ Len(q) \in Nat  BY <1>1, LenProperties
<1> QED  BY <1>1, <1>2

\* The start of a sequence.
LEMMA Start ==
  ASSUME NEW S, NEW s \in Seq(S), NEW n \in 0..Len(s)
  PROVE  /\ SubSeq(s, 1, n) \in Seq(S) /\ Len(SubSeq(s, 1, n)) = n
         /\ \A i \in 1..n : SubSeq(s, 1, n)[i] = s[i]
  OBVIOUS

\* PopRegs takes every register from where IntrEntry pushed it.
LEMMA PoppedAsPushed ==
  ASSUME NEW r \in Saved
  PROVE  LET i == CHOOSE i \in 1..Len(Popped) : Popped[i] = r
         IN  i \in 1..9 /\ Pushed[10 - i] = r
<1>1. Len(Popped) = 9 /\ Len(Pushed) = 9
  BY DEF Popped, Pushed
<1>2. \E i \in 1..9 : Popped[i] = r
  BY <1>1 DEF Saved, Popped, Pushed
<1>3. \A i \in 1..9 : Popped[i] = Pushed[10 - i]
  BY DEF Popped, Pushed
<1> DEFINE i == CHOOSE i \in 1..Len(Popped) : Popped[i] = r
<1>4. i \in 1..9 /\ Popped[i] = r
  BY <1>1, <1>2
<1> QED  BY <1>3, <1>4

\* The entry code pushes nine registers.
LEMMA SavedNames == /\ \A i \in 1..9 : Pushed[i] \in Saved
                    /\ Len(Pushed) = 9 /\ Len(Popped) = 9
                    /\ Pushed \in Seq(Saved)
<1>1. Len(Pushed) = 9 /\ Len(Popped) = 9  BY DEF Pushed, Popped
<1>2. \A i \in 1..9 : Pushed[i] \in Saved  BY <1>1 DEF Saved
<1>3. Pushed \in Seq(Saved)  BY <1>1, <1>2 DEF Pushed
<1> QED  BY <1>1, <1>2, <1>3

----------------------------------------------------------------------------
(* What a step leaves alone.                                               *)

\* The service of a frame depends only on the words below its length.
LEMMA ServingKept ==
  ASSUME NEW f \in Frames, NEW place, NEW len \in Nat, NEW rg, NEW s, NEW t,
         f.depth + 5 <= len, \A i \in 1..len : s[i] = t[i],
         Serving(f, place, len, rg, s)
  PROVE  Serving(f, place, len, rg, t)
<1>0. f.depth \in Nat /\ f.vector \in Taken /\ Pads(f.vector) \in 0..2
  BY IdtFacts DEF Frames, Pads
<1>1. SavedBy(f, t)
  BY <1>0 DEF Serving, SavedBy
<1>2. ASSUME ContextOf(f, len, s) PROVE ContextOf(f, len, t)
  BY <1>0, <1>2 DEF ContextOf
<1>3. ASSUME Entering(f, place, len, rg, s) PROVE Entering(f, place, len, rg, t)
  BY <1>0, <1>3 DEF Entering
<1> QED
  BY <1>1, <1>2, <1>3 DEF Serving, Handling, EndingIrq, Leaving

\* The code of a frame has what the processor saved on the stack.
LEMMA ServedLength ==
  ASSUME NEW f \in Frames, NEW place, NEW len, NEW rg, NEW s,
         Serving(f, place, len, rg, s)
  PROVE  len \in Nat /\ f.depth + 5 <= len
<1>0. f.depth \in Nat /\ f.vector \in Taken
      /\ Pads(f.vector) \in 0..2 /\ ErrorWords(f.vector) \in 0..1
  BY IdtFacts DEF Frames, Pads
<1> QED
  BY <1>0 DEF Serving, Ignoring, Stubbing, Entering, Handling, EndingIrq, Leaving, Dropping,
     ContextOf

\* The parts of a frame have their types.
LEMMA FrameTypes ==
  ASSUME TypeInv, NEW k \in 1..Len(frames)
  PROVE  /\ frames[k] \in Frames /\ frames[k].depth \in Nat /\ frames[k].vector \in Taken
         /\ frames[k].at \in Places /\ frames[k].intr \in BOOLEAN
         /\ frames[k].cs \in {"user", "kernel"} /\ frames[k].reg \in Registers
<1>1. frames[k] \in Frames  BY ElementOfSeq DEF TypeInv
<1> QED  BY <1>1 DEF Frames

\* The frames below the last keep being served when the last one's code works above its
\* frame.
LEMMA OnlyTop ==
  ASSUME TypeInv, ServedInv, OrderInv, frames # <<>>, frames' = frames,
         stack' \in Seq(Words), frames[Len(frames)].depth + 5 <= Len(stack'),
         \A i \in 1..frames[Len(frames)].depth : stack'[i] = stack[i],
         intr' = FALSE,
         Serving(frames[Len(frames)], at', Len(stack'), reg', stack')
  PROVE  ServedInv' /\ OrderInv'
<1> DEFINE n == Len(frames)
<1>0. n \in Nat /\ n > 0  BY DEF TypeInv
<1>1. \A k \in 1..n : frames[k].depth \in Nat  BY FrameTypes
<1>2. ASSUME NEW k \in 1..n, k # n
      PROVE  /\ Serving(frames[k], PlaceAt(k), LenAt(k), RegAt(k), stack') /\ IntrAt(k) = FALSE
             /\ PlaceAt(k)' = PlaceAt(k) /\ LenAt(k)' = LenAt(k) /\ RegAt(k)' = RegAt(k)
             /\ IntrAt(k)' = IntrAt(k)
  <2>0. k + 1 \in 1..n  BY <1>0, <1>2
  <2>1. /\ PlaceAt(k)' = PlaceAt(k) /\ LenAt(k)' = LenAt(k) /\ RegAt(k)' = RegAt(k)
        /\ IntrAt(k)' = IntrAt(k)
    BY <1>0, <1>2 DEF PlaceAt, LenAt, RegAt, IntrAt
  <2>2. LenAt(k) \in Nat /\ LenAt(k) <= frames[n].depth
    BY <1>0, <1>1, <1>2, <2>0 DEF LenAt, OrderInv
  <2>3. Serving(frames[k], PlaceAt(k), LenAt(k), RegAt(k), stack) /\ IntrAt(k) = FALSE
    BY <1>2 DEF ServedInv
  <2>4. frames[k].depth + 5 <= LenAt(k)
    BY <2>3, ServedLength, FrameTypes
  <2>5. \A i \in 1..LenAt(k) : stack[i] = stack'[i]
    BY <1>0, <1>1, <2>2
  <2>6. frames[k] \in Frames  BY FrameTypes
  <2> HIDE DEF n
  <2>7. Serving(frames[k], PlaceAt(k), LenAt(k), RegAt(k), stack')
    BY <2>2, <2>3, <2>4, <2>5, <2>6, ServingKept
  <2> QED  BY <2>1, <2>3, <2>7
<1>3. Serving(frames[n], PlaceAt(n)', LenAt(n)', RegAt(n)', stack') /\ IntrAt(n)' = FALSE
  BY DEF PlaceAt, LenAt, RegAt, IntrAt
<1>4. PlaceAt(0)' = Run /\ LenAt(0)' = 0
  BY <1>0 DEF ServedInv, PlaceAt, LenAt
<1>5. ServedInv'
  BY <1>2, <1>3, <1>4 DEF ServedInv
<1>6. OrderInv'
  BY <1>0, <1>1 DEF OrderInv
<1> QED  BY <1>5, <1>6

----------------------------------------------------------------------------
(* A vector is taken.                                                      *)

NewFrame(v) == [vector |-> v, at |-> at, cs |-> cs, intr |-> intr, reg |-> reg,
                depth |-> Len(stack)]

\* The processor's words on the stack and the code it begins serve the new frame.
LEMMA TakeServes ==
  ASSUME TypeInv, NEW v \in Taken, Take(v)
  PROVE  /\ NewFrame(v) \in Frames
         /\ frames' = Append(frames, NewFrame(v)) /\ frames' \in Seq(Frames)
         /\ stack' \in Seq(Words) /\ Len(stack') >= Len(stack) + 5
         /\ \A i \in 1..Len(stack) : stack'[i] = stack[i]
         /\ Serving(NewFrame(v), at', Len(stack'), reg', stack')
         /\ at' = Idt(v) /\ at' \in Places /\ cs' = "kernel" /\ intr' = FALSE /\ reg' = reg
<1> DEFINE saved == <<"ss", Len(stack), intr, cs, at>>
           error == IF v \in HasErrorCode THEN <<"error">> ELSE <<>>
<1>0. stack \in Seq(Words) /\ Len(stack) \in Nat  BY DEF TypeInv
<1>1. saved \in Seq(Words) /\ Len(saved) = 5
  <2>1. "ss" \in Words /\ Len(stack) \in Words
    BY <1>0 DEF Words
  <2>2. intr \in Words /\ cs \in Words /\ at \in Words
    BY Zenon DEF TypeInv, Words
  <2> QED  BY <2>1, <2>2
<1>2. error \in Seq(Words) /\ Len(error) = ErrorWords(v)
  <2>1. "error" \in Words  BY DEF Words
  <2> QED  BY <2>1 DEF ErrorWords
<1>3. /\ saved[2] = Len(stack) /\ saved[3] = intr /\ saved[4] = cs /\ saved[5] = at
  OBVIOUS
<1>4. stack' = stack \o saved \o error
  BY DEF Take
<1> HIDE DEF saved, error
<1>5. /\ stack' \in Seq(Words) /\ Len(stack') = Len(stack) + 5 + ErrorWords(v)
      /\ \A i \in 1..Len(stack) : stack'[i] = stack[i]
      /\ \A i \in 1..5 : stack'[Len(stack) + i] = saved[i]
  <2>1. ASSUME NEW r, r = stack \o saved \o error
        PROVE  /\ r \in Seq(Words) /\ Len(r) = Len(stack) + Len(saved) + Len(error)
               /\ \A i \in 1..Len(stack) : r[i] = stack[i]
               /\ \A i \in 1..Len(saved) : r[Len(stack) + i] = saved[i]
    <3>1. /\ stack \in Seq(Words) /\ saved \in Seq(Words) /\ error \in Seq(Words)
      BY <1>0, <1>1, <1>2
    <3> QED  BY <2>1, <3>1, ConcatTwice
  <2> QED  BY <1>1, <1>2, <1>4, <2>1, Zenon
<1>7. /\ \A i \in 1..Len(stack) : stack'[i] = stack[i]
      /\ stack'[Len(stack) + 2] = Len(stack) /\ stack'[Len(stack) + 3] = intr
      /\ stack'[Len(stack) + 4] = cs /\ stack'[Len(stack) + 5] = at
  BY <1>0, <1>3, <1>5
<1>8. NewFrame(v) \in Frames
  BY <1>0 DEF NewFrame, Frames, TypeInv
<1>9. frames' = Append(frames, NewFrame(v)) /\ frames' \in Seq(Frames)
  BY <1>8 DEF Take, NewFrame, TypeInv
<1>10. at' = Idt(v) /\ cs' = "kernel" /\ intr' = FALSE /\ reg' = reg
  BY DEF Take
<1>11. at' \in Places
  BY <1>10, IdtFacts DEF Places, PlaceNames
<1>12. SavedBy(NewFrame(v), stack')
  BY <1>7 DEF SavedBy, NewFrame
<1>13. CASE v \in Ignored
  <2>1. Ignoring(NewFrame(v), at', Len(stack'), reg')
    BY <1>5, <1>10, <1>13, IdtFacts DEF Ignoring, NewFrame
  <2> QED  BY <1>5, <1>7, <1>8, <1>9, <1>10, <1>11, <1>12, <2>1, IdtFacts DEF Serving
<1>14. CASE v \notin Ignored
  <2>1. Stubbing(NewFrame(v), at', Len(stack'), reg')
    BY <1>5, <1>10, <1>14, IdtFacts DEF Stubbing, NewFrame
  <2> QED  BY <1>5, <1>7, <1>8, <1>9, <1>10, <1>11, <1>12, <2>1, IdtFacts DEF Serving
<1> QED  BY <1>13, <1>14

\* All frames are served after that.
LEMMA TakeKeeps ==
  ASSUME TypeInv, ServedInv, OrderInv, NEW v \in Taken, Take(v)
  PROVE  ServedInv' /\ OrderInv'
<1> DEFINE n == Len(frames)
<1>0. /\ n \in Nat /\ Len(frames') = n + 1 /\ frames'[n + 1] = NewFrame(v)
      /\ \A k \in 1..n : frames'[k] = frames[k]
      /\ Len(stack) \in Nat
  <2>1. /\ frames \in Seq(Frames) /\ frames' = Append(frames, NewFrame(v))
        /\ NewFrame(v) \in Frames /\ Len(stack) \in Nat
    <3>1. frames \in Seq(Frames) /\ Len(stack) \in Nat  BY DEF TypeInv
    <3>2. frames' = Append(frames, NewFrame(v)) /\ NewFrame(v) \in Frames  BY TakeServes
    <3> QED  BY <3>1, <3>2
  <2> QED  BY <2>1, AppendProperties
<1>1. /\ stack' \in Seq(Words) /\ Len(stack') >= Len(stack) + 5
      /\ \A i \in 1..Len(stack) : stack'[i] = stack[i]
      /\ Serving(NewFrame(v), at', Len(stack'), reg', stack') /\ intr' = FALSE
  BY TakeServes
<1>2. NewFrame(v).at = at /\ NewFrame(v).depth = Len(stack) /\ NewFrame(v).reg = reg
      /\ NewFrame(v).intr = intr
  BY DEF NewFrame
<1> HIDE DEF n
<1>3. ASSUME NEW k \in 0..n
      PROVE  /\ PlaceAt(k)' = PlaceAt(k) /\ LenAt(k)' = LenAt(k) /\ RegAt(k)' = RegAt(k)
             /\ IntrAt(k)' = IntrAt(k)
  <2>1. CASE k = n
    BY <1>0, <1>2, <2>1 DEF n, PlaceAt, LenAt, RegAt, IntrAt
  <2>2. CASE k # n
    <3>1. k + 1 \in 1..n /\ k # n + 1  BY <1>0, <2>2
    <3> QED  BY <1>0, <2>2, <3>1 DEF n, PlaceAt, LenAt, RegAt, IntrAt
  <2> QED  BY <2>1, <2>2
<1>4. \A k \in 1..n : frames[k] \in Frames /\ frames[k].depth \in Nat
  BY FrameTypes DEF n
<1>5. ASSUME NEW k \in 1..n
      PROVE  /\ Serving(frames'[k], PlaceAt(k)', LenAt(k)', RegAt(k)', stack')
             /\ IntrAt(k)' = FALSE
  <2>1. Serving(frames[k], PlaceAt(k), LenAt(k), RegAt(k), stack) /\ IntrAt(k) = FALSE
    BY DEF ServedInv, n
  <2>2. LenAt(k) \in Nat /\ frames[k].depth + 5 <= LenAt(k)
    BY <1>4, <2>1, ServedLength
  <2>3. LenAt(k) <= Len(stack)
    <3>1. CASE k = n  BY <1>0, <3>1 DEF LenAt, n
    <3>2. CASE k # n
      <4>1. k + 1 \in 1..n  BY <1>0, <3>2
      <4>2. frames[k + 1].depth + 5 <= Len(stack)  BY <4>1 DEF OrderInv, n
      <4> QED  BY <1>0, <1>4, <3>2, <4>1, <4>2 DEF LenAt, n
    <3> QED  BY <3>1, <3>2
  <2>4. \A i \in 1..LenAt(k) : stack[i] = stack'[i]
    BY <1>0, <1>1, <2>2, <2>3
  <2>5. Serving(frames[k], PlaceAt(k), LenAt(k), RegAt(k), stack')
    BY <1>4, <2>1, <2>2, <2>4, ServingKept
  <2>6. k \in 0..n  BY <1>0
  <2> QED  BY <1>0, <1>3, <2>1, <2>5, <2>6
<1>6. ASSUME NEW k, k = n + 1
      PROVE  /\ Serving(frames'[k], PlaceAt(k)', LenAt(k)', RegAt(k)', stack')
             /\ IntrAt(k)' = FALSE
  BY <1>0, <1>1, <1>6 DEF PlaceAt, LenAt, RegAt, IntrAt
<1>7. PlaceAt(0)' = Run /\ LenAt(0)' = 0
  BY <1>0, <1>3 DEF ServedInv
<1>8. ServedInv'
  <2>1. ASSUME NEW k \in 1..(n + 1)
        PROVE  /\ Serving(frames'[k], PlaceAt(k)', LenAt(k)', RegAt(k)', stack')
             /\ IntrAt(k)' = FALSE
    <3>1. k \in 1..n \/ k = n + 1  BY <1>0
    <3> QED  BY <1>5, <1>6, <3>1
  <2> QED  BY <1>0, <1>7, <2>1 DEF ServedInv
<1>9. OrderInv'
  <2>1. \A k \in 1..n : frames[k].depth <= Len(stack)
    BY <1>0, <1>4 DEF OrderInv, n
  <2>2. \A j, k \in 1..(n + 1) : j <= k => frames'[j].depth <= frames'[k].depth
    <3> SUFFICES ASSUME NEW j \in 1..(n + 1), NEW k \in 1..(n + 1), j <= k
                 PROVE  frames'[j].depth <= frames'[k].depth
      OBVIOUS
    <3>1. CASE k \in 1..n
      BY <1>0, <3>1 DEF OrderInv, n
    <3>2. CASE k = n + 1 /\ j \in 1..n
      BY <1>0, <1>2, <2>1, <3>2
    <3>3. CASE k = n + 1 /\ j = n + 1
      BY <1>0, <1>2, <3>3
    <3> QED  BY <1>0, <3>1, <3>2, <3>3
  <2>3. \A k \in 1..(n + 1) : frames'[k].depth + 5 <= Len(stack')
    <3> SUFFICES ASSUME NEW k \in 1..(n + 1) PROVE frames'[k].depth + 5 <= Len(stack')
      OBVIOUS
    <3>0. Len(stack') \in Nat  BY <1>1
    <3>1. CASE k \in 1..n  BY <1>0, <1>1, <1>4, <2>1, <3>0, <3>1
    <3>2. CASE k = n + 1  BY <1>0, <1>1, <1>2, <3>2
    <3> QED  BY <1>0, <3>1, <3>2
  <2> QED  BY <1>0, <2>2, <2>3 DEF OrderInv
<1> QED  BY <1>8, <1>9

----------------------------------------------------------------------------
(* The code that runs belongs to the last frame.                           *)

\* When the code of the kernel runs, it serves the last frame with interrupts disabled.
LEMMA Top ==
  ASSUME TypeInv, ServedInv, at # Run
  PROVE  /\ Len(frames) \in Nat /\ Len(frames) > 0 /\ frames # <<>>
         /\ frames[Len(frames)] \in Frames
         /\ Serving(frames[Len(frames)], at, Len(stack), reg, stack)
         /\ intr = FALSE
         /\ frames[Len(frames)].depth + 5 <= Len(stack)
<1>1. Len(frames) \in Nat  BY DEF TypeInv
<1>2. Len(frames) # 0
  BY DEF ServedInv, PlaceAt
<1>3. Len(frames) \in 1..Len(frames)  BY <1>1, <1>2
<1>4. frames[Len(frames)] \in Frames  BY <1>3, FrameTypes
<1>5. Serving(frames[Len(frames)], at, Len(stack), reg, stack) /\ intr = FALSE
  BY <1>3 DEF ServedInv, PlaceAt, LenAt, RegAt, IntrAt
<1> QED  BY <1>1, <1>2, <1>4, <1>5, ServedLength

\* The place of the code tells how far it has got with its frame.
LEMMA TopCode ==
  ASSUME NEW f \in Frames, NEW place, NEW len, NEW rg, NEW s, Serving(f, place, len, rg, s)
  PROVE  /\ place[1] = "IntrIsrIgnore" => Ignoring(f, place, len, rg)
         /\ place[1] = "stub" => Stubbing(f, place, len, rg)
         /\ place[1] = "entry" => Entering(f, place, len, rg, s)
         /\ place[1] = "handler" => Handling(f, place, len, s)
         /\ place[1] \in {"irq", "eoi"} => EndingIrq(f, place, len, s)
         /\ place[1] = "leave" => Leaving(f, place, len, s)
         /\ place[1] = "drop" => Dropping(f, place, len, rg)
  BY DEF Serving, Ignoring, Stubbing, Entering, Handling, EndingIrq, Leaving, Dropping

----------------------------------------------------------------------------
(* IRETQ.                                                                  *)

\* IRETQ with the stack and the registers as they were when the last frame was made.
IretOfLast == Iret(frames[Len(frames)].depth + 5) /\ reg' = frames[Len(frames)].reg

\* It restores what the processor saved of the last frame, and leaves the frames below as
\* they were.
LEMMA IretReturns ==
  ASSUME TypeInv, ServedInv, OrderInv, at # Run,
         IretOfLast
  PROVE  LET f == frames[Len(frames)]
         IN  /\ at' = f.at /\ cs' = f.cs /\ intr' = f.intr /\ reg' = f.reg
             /\ stack' = SubSeq(stack, 1, f.depth) /\ f.depth \in 0..Len(stack)
             /\ Len(stack') = f.depth /\ stack' \in Seq(Words)
             /\ Len(frames') = Len(frames) - 1 /\ frames' \in Seq(Frames)
             /\ \A k \in 1..(Len(frames) - 1) : frames'[k] = frames[k]
             /\ \A i \in 1..f.depth : stack'[i] = stack[i]
<1> DEFINE f == frames[Len(frames)]
<1>1. /\ Len(frames) \in Nat /\ Len(frames) > 0 /\ f \in Frames
      /\ Serving(f, at, Len(stack), reg, stack) /\ f.depth + 5 <= Len(stack)
  BY Top
<1>2. f.depth \in Nat /\ stack \in Seq(Words) /\ frames \in Seq(Frames) /\ Len(stack) \in Nat
  BY <1>1 DEF Frames, TypeInv
<1> HIDE DEF f
<1>3. SavedBy(f, stack)
  BY <1>1 DEF Serving
<1>4. /\ at' = stack[f.depth + 5] /\ cs' = stack[f.depth + 4] /\ intr' = stack[f.depth + 3]
      /\ stack' = SubSeq(stack, 1, stack[f.depth + 2])
      /\ frames' = SubSeq(frames, 1, Len(frames) - 1)
  <2>1. /\ (f.depth + 5) - 1 = f.depth + 4 /\ (f.depth + 5) - 2 = f.depth + 3
        /\ (f.depth + 5) - 3 = f.depth + 2
    BY <1>2
  <2>2. Iret(f.depth + 5)  BY DEF f, IretOfLast
  <2> QED  BY <2>1, <2>2, Zenon DEF Iret
<1>5. /\ at' = f.at /\ cs' = f.cs /\ intr' = f.intr /\ stack' = SubSeq(stack, 1, f.depth)
  BY <1>3, <1>4 DEF SavedBy
<1>6. f.depth \in 0..Len(stack) /\ Len(frames) - 1 \in 0..Len(frames)
  BY <1>1, <1>2
<1>7. /\ stack' \in Seq(Words) /\ Len(stack') = f.depth
      /\ \A i \in 1..f.depth : stack'[i] = stack[i]
  BY <1>2, <1>5, <1>6, Start
<1>8. /\ frames' \in Seq(Frames) /\ Len(frames') = Len(frames) - 1
      /\ \A k \in 1..(Len(frames) - 1) : frames'[k] = frames[k]
  BY <1>2, <1>4, <1>6, Start
<1>9. reg' = f.reg  BY DEF f, IretOfLast
<1> QED  BY <1>5, <1>6, <1>7, <1>8, <1>9 DEF f

\* So every frame that is left is served by what it was served by.
LEMMA IretKeeps ==
  ASSUME TypeInv, ServedInv, OrderInv, at # Run,
         IretOfLast
  PROVE  /\ ServedInv' /\ OrderInv'
         /\ \A k \in 0..(Len(frames) - 1) : PlaceAt(k)' = PlaceAt(k)
<1> DEFINE n == Len(frames)
           f == frames[n]
<1>1. /\ n \in Nat /\ n > 0 /\ f \in Frames
      /\ Serving(f, at, Len(stack), reg, stack) /\ f.depth + 5 <= Len(stack)
  BY Top
<1>2. /\ at' = f.at /\ intr' = f.intr /\ reg' = f.reg
      /\ Len(stack') = f.depth
      /\ Len(frames') = n - 1
      /\ \A k \in 1..(n - 1) : frames'[k] = frames[k]
      /\ \A i \in 1..f.depth : stack'[i] = stack[i]
  BY IretReturns
<1>3. \A k \in 1..n : frames[k] \in Frames /\ frames[k].depth \in Nat
  BY FrameTypes
<1> HIDE DEF n
<1>4. ASSUME NEW k \in 0..(n - 1)
      PROVE  /\ PlaceAt(k)' = PlaceAt(k) /\ LenAt(k)' = LenAt(k) /\ RegAt(k)' = RegAt(k)
             /\ IntrAt(k)' = IntrAt(k)
  <2>1. CASE k = n - 1
    BY <1>1, <1>2, <2>1 DEF n, PlaceAt, LenAt, RegAt, IntrAt
  <2>2. CASE k # n - 1
    <3>1. k + 1 \in 1..(n - 1) /\ k # n  BY <1>1, <2>2
    <3> QED  BY <1>2, <2>2, <3>1 DEF n, PlaceAt, LenAt, RegAt, IntrAt
  <2> QED  BY <2>1, <2>2
<1>5. ASSUME NEW k \in 1..(n - 1)
      PROVE  /\ Serving(frames'[k], PlaceAt(k)', LenAt(k)', RegAt(k)', stack')
             /\ IntrAt(k)' = FALSE
  <2>0. k \in 1..n /\ k + 1 \in 1..n /\ k \in 0..(n - 1) /\ n \in 1..n  BY <1>1
  <2>1. Serving(frames[k], PlaceAt(k), LenAt(k), RegAt(k), stack) /\ IntrAt(k) = FALSE
    BY <2>0 DEF ServedInv, n
  <2>2. LenAt(k) \in Nat /\ frames[k].depth + 5 <= LenAt(k)
    BY <1>3, <2>0, <2>1, ServedLength
  <2>3. LenAt(k) <= f.depth
    BY <1>1, <1>3, <2>0 DEF LenAt, OrderInv, n
  <2>4. \A i \in 1..LenAt(k) : stack[i] = stack'[i]
    BY <1>2, <1>1, <1>3, <2>0, <2>2, <2>3
  <2>5. Serving(frames[k], PlaceAt(k), LenAt(k), RegAt(k), stack')
    BY <1>3, <2>0, <2>1, <2>2, <2>4, ServingKept
  <2> QED  BY <1>2, <1>4, <2>0, <2>1, <2>5
<1>6. PlaceAt(0)' = Run /\ LenAt(0)' = 0
  BY <1>1, <1>4 DEF ServedInv
<1>7. ServedInv'
  BY <1>2, <1>5, <1>6 DEF ServedInv
<1>8. OrderInv'
  <2>1. \A j, k \in 1..(n - 1) : j <= k => frames'[j].depth <= frames'[k].depth
    <3>1. \A k \in 1..(n - 1) : k \in 1..n  BY <1>1
    <3> QED  BY <1>2, <3>1 DEF OrderInv, n
  <2>2. ASSUME NEW k \in 1..(n - 1) PROVE frames'[k].depth + 5 <= Len(stack')
    <3>1. k \in 1..n /\ k + 1 \in 1..n /\ n \in 1..n /\ k # n  BY <1>1
    <3>2. Serving(frames[k], PlaceAt(k), LenAt(k), RegAt(k), stack)
      BY <3>1 DEF ServedInv, n
    <3>3. frames[k].depth + 5 <= LenAt(k)
      BY <1>3, <3>1, <3>2, ServedLength
    <3>4. LenAt(k) <= f.depth
      BY <1>1, <3>1 DEF LenAt, OrderInv, n
    <3>5. LenAt(k) \in Nat /\ f.depth \in Nat /\ frames[k].depth \in Nat
      BY <1>3, <3>1 DEF LenAt, n
    <3> QED  BY <1>2, <3>3, <3>4, <3>5
  <2> QED  BY <1>2, <2>1, <2>2 DEF OrderInv
<1> QED  BY <1>4, <1>7, <1>8 DEF n

----------------------------------------------------------------------------
(* The in-service registers.                                               *)

\* With one vector in service, its number is found.
LEMMA OneInService ==
  ASSUME NEW v \in Vectors, isr = {v}
  PROVE  CpuGetHardwareIntr = v - INTR_IRQ /\ Highest(isr) = v
<1>1. \A x \in Int : Highest({x}) = x
  BY DEF Highest
<1>2. v \in Int /\ v \div 32 \in Int /\ v % 32 \in Int /\ (v % 32) + 32 * (v \div 32) = v
  BY DEF Vectors, INTR_APIC_SPURIOUS
<1>3. {w \div 32 : w \in isr} = {v \div 32}
  OBVIOUS
<1>4. {w % 32 : w \in {u \in isr : u \div 32 = v \div 32}} = {v % 32}
  OBVIOUS
<1>5. CpuGetHardwareIntr = (v % 32) + 32 * (v \div 32) - INTR_IRQ
  <2>1. Highest({w \div 32 : w \in isr}) = v \div 32  BY <1>1, <1>2, <1>3
  <2>2. Highest({w % 32 : w \in {u \in isr : u \div 32 = v \div 32}}) = v % 32
    BY <1>1, <1>2, <1>4
  <2>3. isr # {}  OBVIOUS
  <2> QED  BY <2>1, <2>2, <2>3, Zenon DEF CpuGetHardwareIntr
<1> QED  BY <1>1, <1>2, <1>5 DEF INTR_IRQ

\* Vectors that interrupt the code are not of devices.
LEMMA NotOfDevice == \A w \in Exceptions \cup {NMI} : w \notin DeviceVectors
<1>1. \A w \in DeviceVectors : w \in Nat /\ w >= 32
  BY DEF DeviceVectors, INTR_IRQ, INTR_APIC_TIMER
<1>2. \A w \in Exceptions : w \in 0..19  BY ExceptionAssumption
<1>3. NMI \in 0..19  BY DEF NMI
<1> QED  BY <1>1, <1>2, <1>3

\* Only the first frame can be of a device, and then nothing else is in service.
LEMMA OnlyFirst ==
  ASSUME TypeInv, IsrInv, NEW k \in 1..Len(frames), frames[k].vector \in DeviceVectors
  PROVE  k = 1
<1>1. Len(frames) \in Nat  BY DEF TypeInv
<1>2. CASE k \in 2..Len(frames)
  <2>1. frames[k].vector \in Exceptions \cup {NMI}  BY <1>2 DEF IsrInv
  <2> QED  BY <2>1, NotOfDevice, Zenon
<1>3. CASE k \notin 2..Len(frames)
  BY <1>1, <1>3
<1> QED  BY <1>2, <1>3

\* A step that leaves the registers alone, and the service of the first frame on its side
\* of the end of interrupt.
LEMMA IsrKept ==
  ASSUME IsrInv, isr' = isr,
         \A k \in 2..Len(frames') : frames'[k].vector \in Exceptions \cup {NMI},
         frames # <<>> /\ frames' # <<>>, frames'[1] = frames[1],
         BeforeEoi(frames[1], PlaceAt(1)) <=> BeforeEoi(frames[1], PlaceAt(1)')
  PROVE  IsrInv'
<1>1. BeforeEoi(frames[1], PlaceAt(1))' <=> BeforeEoi(frames[1], PlaceAt(1))
  BY DEF BeforeEoi
<1> QED  BY <1>1 DEF IsrInv

\* The code of the last frame goes on without an end of interrupt.
LEMMA IsrTop ==
  ASSUME TypeInv, IsrInv, isr' = isr, frames' = frames, frames # <<>>,
         BeforeEoi(frames[Len(frames)], at) <=> BeforeEoi(frames[Len(frames)], at')
  PROVE  IsrInv'
<1>1. Len(frames) \in Nat /\ Len(frames) > 0  BY DEF TypeInv
<1>2. \A k \in 2..Len(frames') : frames'[k].vector \in Exceptions \cup {NMI}
  BY DEF IsrInv
<1>3. BeforeEoi(frames[1], PlaceAt(1)) <=> BeforeEoi(frames[1], PlaceAt(1)')
  <2>1. CASE Len(frames) = 1
    <3>1. PlaceAt(1) = at /\ PlaceAt(1)' = at'  BY <2>1 DEF PlaceAt
    <3> QED  BY <2>1, <3>1
  <2>2. CASE Len(frames) # 1
    <3>1. PlaceAt(1)' = PlaceAt(1)  BY <2>2 DEF PlaceAt
    <3> QED  BY <3>1
  <2> QED  BY <2>1, <2>2
<1> QED  BY <1>2, <1>3, IsrKept

\* A vector is taken that no device asked for.
LEMMA IsrTake ==
  ASSUME TypeInv, IsrInv, isr' = isr, NEW v \in Taken, Take(v), v \notin DeviceVectors,
         frames = <<>> \/ v \in Exceptions \cup {NMI}
  PROVE  IsrInv'
<1>1. frames \in Seq(Frames) /\ Len(frames) \in Nat  BY DEF TypeInv
<1>2. /\ frames' = Append(frames, NewFrame(v)) /\ NewFrame(v) \in Frames
  BY TakeServes
<1>3. NewFrame(v).vector = v /\ NewFrame(v).at = at  BY DEF NewFrame
<1>4. /\ Len(frames') = Len(frames) + 1 /\ frames'[Len(frames) + 1] = NewFrame(v)
      /\ \A k \in 1..Len(frames) : frames'[k] = frames[k]
  BY <1>1, <1>2, AppendProperties
<1>5. CASE frames = <<>>
  <2>1. Len(frames') = 1 /\ frames'[1] = NewFrame(v) /\ frames' # <<>>  BY <1>1, <1>4, <1>5
  <2>2. isr \in {{}, {INTR_APIC_TIMER}}  BY <1>5 DEF IsrInv
  <2>3. ~BeforeEoi(frames[1], PlaceAt(1))'
    BY <1>3, <2>1 DEF BeforeEoi
  <2>4. \A k \in 2..Len(frames') : FALSE  BY <2>1
  <2> QED  BY <2>1, <2>2, <2>3, <2>4 DEF IsrInv
<1>6. CASE frames # <<>> /\ v \in Exceptions \cup {NMI}
  <2>1. Len(frames) > 0 /\ frames' # <<>>  BY <1>1, <1>4, <1>6
  <2>2. frames'[1] = frames[1]  BY <1>1, <1>4, <2>1
  <2>3. PlaceAt(1)' = PlaceAt(1)
    <3>1. CASE Len(frames) = 1  BY <1>3, <1>4, <3>1 DEF PlaceAt
    <3>2. CASE Len(frames) # 1
      <4>0. Len(frames) \in Nat /\ Len(frames') = Len(frames) + 1  BY <1>1, <1>4
      <4>1. 2 \in 1..Len(frames) /\ Len(frames') # 1  BY <2>1, <3>2, <4>0
      <4> QED  BY <1>4, <3>2, <4>1 DEF PlaceAt
    <3> QED  BY <3>1, <3>2
  <2>4. ASSUME NEW k \in 2..Len(frames')
        PROVE  frames'[k].vector \in Exceptions \cup {NMI}
    <3>1. CASE k = Len(frames) + 1  BY <1>3, <1>4, <1>6, <3>1
    <3>2. CASE k # Len(frames) + 1
      <4>1. k \in 2..Len(frames) /\ k \in 1..Len(frames)  BY <1>1, <1>4, <3>2
      <4> QED  BY <1>4, <4>1 DEF IsrInv
    <3> QED  BY <3>1, <3>2
  <2> QED  BY <1>6, <2>1, <2>2, <2>3, <2>4, IsrKept
<1> QED  BY <1>5, <1>6

\* IRETQ comes after the end of interrupt.
LEMMA IsrIret ==
  ASSUME TypeInv, ServedInv, OrderInv, IsrInv, at # Run, isr' = isr,
         ~BeforeEoi(frames[Len(frames)], at),
         IretOfLast
  PROVE  IsrInv'
<1>1. frames # <<>> /\ Len(frames) \in Nat /\ Len(frames) > 0  BY Top
<1>2. /\ Len(frames') = Len(frames) - 1 /\ frames' \in Seq(Frames)
      /\ \A k \in 1..(Len(frames) - 1) : frames'[k] = frames[k]
  BY IretReturns
<1>3. CASE Len(frames) = 1
  <2>1. frames' = <<>> /\ Len(frames') = 0  BY <1>2, <1>3
  <2>2. PlaceAt(1) = at  BY <1>3 DEF PlaceAt
  <2>3. ~BeforeEoi(frames[1], PlaceAt(1))  BY <1>3, <2>2
  <2>4. isr \in {{}, {INTR_APIC_TIMER}}  BY <2>3 DEF IsrInv
  <2> QED  BY <2>1, <2>4 DEF IsrInv
<1>4. CASE Len(frames) # 1
  <2>1. frames' # <<>> /\ frames'[1] = frames[1]  BY <1>1, <1>2, <1>4
  <2>2. PlaceAt(1)' = PlaceAt(1)
    <3>1. 1 \in 0..(Len(frames) - 1)  BY <1>1, <1>4
    <3> QED  BY <3>1, IretKeeps
  <2>3. ASSUME NEW k \in 2..Len(frames') PROVE frames'[k].vector \in Exceptions \cup {NMI}
    <3>1. k \in 2..Len(frames) /\ k \in 1..(Len(frames) - 1)  BY <1>1, <1>2
    <3> QED  BY <1>2, <3>1 DEF IsrInv
  <2> QED  BY <1>1, <2>1, <2>2, <2>3, IsrKept
<1> QED  BY <1>3, <1>4

\* Interrupts are enabled only below all frames.
LEMMA IntrOnlyBelow ==
  ASSUME TypeInv, ServedInv, intr
  PROVE  frames = <<>>
<1>1. frames \in Seq(Frames) /\ Len(frames) \in Nat  BY DEF TypeInv
<1>2. intr = TRUE  BY DEF TypeInv
<1>3. CASE Len(frames) > 0
  <2>1. Len(frames) \in 1..Len(frames)  BY <1>1, <1>3
  <2> QED  BY <1>2, <2>1 DEF ServedInv, IntrAt
<1> QED  BY <1>1, <1>3

\* A device's vector is taken only when nothing else is in service.
LEMMA AcceptServes ==
  ASSUME TypeInv, ServedInv, IsrInv, Accept
  PROVE  \E v \in Irqs \cup {INTR_APIC_TIMER} :
           /\ Take(v) /\ isr' = {v} /\ isr = {} /\ frames = <<>>
<1>1. PICK v \in Pending : Take(v) /\ irr' = irr \ {v} /\ isr' = isr \cup {v}
  BY DEF Accept
<1>2. v \in irr /\ \A w \in isr : Class(w) < Class(v)
  BY DEF Pending
<1>3. v \in Irqs \cup {INTR_APIC_TIMER}  BY <1>2 DEF TypeInv
<1>4. frames = <<>>
  BY IntrOnlyBelow DEF Accept
<1>5. isr \in {{}, {INTR_APIC_TIMER}}
  BY <1>4 DEF IsrInv
<1>6. isr # {INTR_APIC_TIMER}
  <2> SUFFICES ASSUME isr = {INTR_APIC_TIMER} PROVE FALSE
    OBVIOUS
  <2>1. Class(INTR_APIC_TIMER) < Class(v)  BY <1>2
  <2>2. v \in 32..240  BY <1>3, IrqAssumption DEF INTR_IRQ, INTR_APIC_TIMER
  <2> QED  BY <2>1, <2>2 DEF Class, INTR_APIC_TIMER
<1> QED  BY <1>1, <1>3, <1>4, <1>5, <1>6

----------------------------------------------------------------------------
(* The hardware keeps the invariant.                                       *)

\* What taking a vector leaves to show.
LEMMA TakeLive ==
  ASSUME Live, NEW v \in Taken, Take(v), IsrInv',
         irr' \subseteq Irqs \cup {INTR_APIC_TIMER}, isr' \subseteq Irqs \cup {INTR_APIC_TIMER},
         inNmi' \in BOOLEAN, count' \in Nat
  PROVE  Live'
<1>1. TypeInv /\ ServedInv /\ OrderInv  BY DEF Live
<1>2. ServedInv' /\ OrderInv'  BY <1>1, TakeKeeps
<1>3. /\ at' \in Places /\ cs' \in {"user", "kernel"} /\ intr' \in BOOLEAN
      /\ stack' \in Seq(Words) /\ frames' \in Seq(Frames) /\ reg' = reg
  BY <1>1, TakeServes
<1>4. reg' \in Registers  BY <1>1, <1>3 DEF TypeInv
<1>5. TypeInv'  BY <1>3, <1>4 DEF TypeInv
<1> QED  BY <1>2, <1>5 DEF Live

\* The local APIC hands over a vector.
LEMMA AcceptLive ==
  ASSUME Live, Accept
  PROVE  Live'
<1>1. TypeInv /\ ServedInv /\ IsrInv  BY DEF Live
<1>2. PICK v \in Irqs \cup {INTR_APIC_TIMER} :
        Take(v) /\ isr' = {v} /\ isr = {} /\ frames = <<>>
  BY <1>1, AcceptServes
<1>3. v \in Taken  BY DEF Taken
<1>4. irr' \subseteq irr /\ inNmi' = inNmi /\ count' = count  BY DEF Accept
<1>5. /\ irr' \subseteq Irqs \cup {INTR_APIC_TIMER} /\ isr' \subseteq Irqs \cup {INTR_APIC_TIMER}
      /\ inNmi' \in BOOLEAN /\ count' \in Nat
  BY <1>1, <1>2, <1>4 DEF TypeInv
<1>6. /\ Len(frames') = 1 /\ frames'[1] = NewFrame(v) /\ frames' # <<>>
      /\ NewFrame(v).vector = v /\ at' = Idt(v)
  <2>1. frames' = Append(frames, NewFrame(v)) /\ at' = Idt(v)  BY <1>1, <1>2, <1>3, TakeServes
  <2>2. frames' = <<NewFrame(v)>>  BY <1>2, <2>1
  <2>3. NewFrame(v).vector = v  BY DEF NewFrame
  <2> QED  BY <2>1, <2>2, <2>3
<1>7. PlaceAt(1)' = Idt(v)  BY <1>6 DEF PlaceAt
<1>8. v \in DeviceVectors \/ v = INTR_APIC_TIMER
  BY IrqAssumption DEF DeviceVectors
<1>9. v \in DeviceVectors <=> BeforeEoi(frames[1], PlaceAt(1))'
  <2>1. v \in DeviceVectors => Idt(v)[1] = "stub"
    BY <1>3, IdtFacts
  <2> QED  BY <1>6, <1>7, <2>1 DEF BeforeEoi
<1>10. \A k \in 2..Len(frames') : FALSE  BY <1>6
<1>11. IsrInv'
  BY <1>2, <1>6, <1>8, <1>9, <1>10 DEF IsrInv
<1> QED  BY <1>2, <1>3, <1>5, <1>11, TakeLive

\* A device, or the timer, asks for its interrupt.
LEMMA RaiseLive ==
  ASSUME Live, NEW v \in Irqs \cup {INTR_APIC_TIMER}, Raise(v)
  PROVE  Live'
<1>1. /\ irr' = irr \cup {v} /\ isr' = isr /\ at' = at /\ cs' = cs /\ intr' = intr /\ reg' = reg
      /\ stack' = stack /\ inNmi' = inNmi /\ frames' = frames /\ count' = count + 1
  BY DEF Raise, Event, cpu
<1>2. TypeInv'  BY <1>1 DEF Live, TypeInv
<1>3. ServedInv'
  BY <1>1 DEF Live, ServedInv, PlaceAt, LenAt, RegAt, IntrAt
<1>4. OrderInv'  BY <1>1 DEF Live, OrderInv
<1>5. IsrInv'  BY <1>1 DEF Live, IsrInv, BeforeEoi, PlaceAt
<1> QED  BY <1>2, <1>3, <1>4, <1>5 DEF Live

\* An NMI is taken, wherever the code is.
LEMMA TakeNmiLive ==
  ASSUME Live, TakeNmi
  PROVE  Live'
<1>1. Take(NMI) /\ irr' = irr /\ isr' = isr /\ inNmi' = TRUE /\ count' = count + 1
  BY DEF TakeNmi, Event
<1>2. NMI \in Taken /\ NMI \notin DeviceVectors
  BY DEF Taken, DeviceVectors, NMI, INTR_IRQ, INTR_APIC_TIMER
<1>3. /\ irr' \subseteq Irqs \cup {INTR_APIC_TIMER} /\ isr' \subseteq Irqs \cup {INTR_APIC_TIMER}
      /\ inNmi' \in BOOLEAN /\ count' \in Nat
  BY <1>1 DEF Live, TypeInv
<1>4. IsrInv'  BY <1>1, <1>2, IsrTake DEF Live
<1> QED  BY <1>1, <1>2, <1>3, <1>4, TakeLive

\* A spurious interrupt is taken, which nothing has put in service.
LEMMA SpuriousLive ==
  ASSUME Live, Spurious
  PROVE  Live'
<1>1. /\ Take(INTR_APIC_SPURIOUS) /\ irr' = irr /\ isr' = isr /\ inNmi' = inNmi
      /\ count' = count + 1 /\ intr
  BY DEF Spurious, Event
<1>2. INTR_APIC_SPURIOUS \in Taken /\ INTR_APIC_SPURIOUS \notin DeviceVectors
  BY DEF Taken, DeviceVectors, INTR_IRQ, INTR_APIC_TIMER, INTR_APIC_SPURIOUS
<1>3. /\ irr' \subseteq Irqs \cup {INTR_APIC_TIMER} /\ isr' \subseteq Irqs \cup {INTR_APIC_TIMER}
      /\ inNmi' \in BOOLEAN /\ count' \in Nat
  BY <1>1 DEF Live, TypeInv
<1>4. frames = <<>>  BY <1>1, IntrOnlyBelow DEF Live
<1>5. IsrInv'  BY <1>1, <1>2, <1>4, IsrTake DEF Live
<1> QED  BY <1>1, <1>2, <1>3, <1>5, TakeLive

\* An exception is taken, of the program or of IntrHandler.
LEMMA ExceptLive ==
  ASSUME Live, NEW v \in Exceptions, Except(v)
  PROVE  Live'
<1>1. Take(v) /\ irr' = irr /\ isr' = isr /\ inNmi' = inNmi /\ count' = count + 1
  BY DEF Except, Event
<1>2. v \in Taken /\ v \notin DeviceVectors
  BY ExceptionAssumption DEF Taken, DeviceVectors, INTR_IRQ
<1>3. /\ irr' \subseteq Irqs \cup {INTR_APIC_TIMER} /\ isr' \subseteq Irqs \cup {INTR_APIC_TIMER}
      /\ inNmi' \in BOOLEAN /\ count' \in Nat
  BY <1>1 DEF Live, TypeInv
<1>4. IsrInv'  BY <1>1, <1>2, IsrTake DEF Live
<1> QED  BY <1>1, <1>2, <1>3, <1>4, TakeLive

----------------------------------------------------------------------------
(* The code keeps the invariant.                                           *)

\* A step of the last frame's code that leaves what the processor saved, and all below.
WorksAbove ==
  /\ frames' = frames /\ isr' \subseteq isr
  /\ irr' = irr /\ cs' = cs /\ intr' = intr /\ inNmi' = inNmi /\ count' = count
  /\ stack' \in Seq(Words) /\ frames[Len(frames)].depth + 5 <= Len(stack')
  /\ \A i \in 1..(frames[Len(frames)].depth + 5) : stack'[i] = stack[i]

\* What such a step leaves to show.
LEMMA CodeLive ==
  ASSUME Live, at # Run, WorksAbove, IsrInv', at' \in Places, reg' \in Registers,
         SavedBy(frames[Len(frames)], stack') =>
           Serving(frames[Len(frames)], at', Len(stack'), reg', stack')
  PROVE  Live'
<1> DEFINE f == frames[Len(frames)]
<1>1. TypeInv /\ ServedInv /\ OrderInv  BY DEF Live
<1>2. /\ frames # <<>> /\ f \in Frames /\ intr = FALSE
      /\ Serving(f, at, Len(stack), reg, stack)
  BY <1>1, Top
<1>3. f.depth \in Nat  BY <1>2 DEF Frames
<1>4. /\ stack' \in Seq(Words) /\ f.depth + 5 <= Len(stack')
      /\ \A i \in 1..(f.depth + 5) : stack'[i] = stack[i]
  BY DEF WorksAbove
<1> HIDE DEF f
<1>5. SavedBy(f, stack')
  <2>1. SavedBy(f, stack)  BY <1>2 DEF Serving
  <2>2. \A i \in 2..5 : f.depth + i \in 1..(f.depth + 5)  BY <1>3
  <2>3. \A i \in 2..5 : stack'[f.depth + i] = stack[f.depth + i]  BY <1>4, <2>2
  <2>4. /\ stack'[f.depth + 2] = stack[f.depth + 2] /\ stack'[f.depth + 3] = stack[f.depth + 3]
        /\ stack'[f.depth + 4] = stack[f.depth + 4] /\ stack'[f.depth + 5] = stack[f.depth + 5]
    BY <2>3
  <2> QED  BY <2>1, <2>4, Zenon DEF SavedBy
<1>6. \A i \in 1..f.depth : stack'[i] = stack[i]  BY <1>3, <1>4
<1>7. Serving(f, at', Len(stack'), reg', stack')  BY <1>5 DEF f
<1>8. frames' = frames /\ intr' = FALSE  BY <1>2 DEF WorksAbove
<1>9. ServedInv' /\ OrderInv'
  BY <1>1, <1>2, <1>4, <1>6, <1>7, <1>8, OnlyTop DEF f
<1>10. TypeInv'
  BY <1>1, <1>4 DEF TypeInv, WorksAbove
<1> QED  BY <1>9, <1>10 DEF Live

\* The stub pushes a zero where there is no error code, and the number.
LEMMA StubLive ==
  ASSUME Live, Stub
  PROVE  Live'
<1> DEFINE f == frames[Len(frames)]
           v == f.vector
           zero == IF at[2] \in IsrNormal THEN <<0>> ELSE <<>>
           number == <<at[2]>>
<1>1. TypeInv /\ ServedInv /\ IsrInv /\ at # Run /\ at[1] = "stub"
  BY DEF Live, Stub, Run
<1>2. /\ frames # <<>> /\ f \in Frames /\ f.depth + 5 <= Len(stack)
      /\ Serving(f, at, Len(stack), reg, stack)
  BY <1>1, Top
<1>3. Stubbing(f, at, Len(stack), reg)  BY <1>1, <1>2, TopCode
<1>4. /\ v \notin Ignored /\ at[2] = Number(v) /\ reg = f.reg
      /\ Len(stack) = f.depth + 5 + ErrorWords(v)
  BY <1>3 DEF Stubbing
<1>5. v \in Taken /\ f.depth \in Nat  BY <1>2 DEF Frames
<1>6. Number(v) \in Int /\ ErrorWords(v) \in {0, 1}
  BY <1>5, IdtFacts
<1>7. /\ at' = <<"entry", 0>> /\ stack' = stack \o zero \o number /\ reg' = reg
      /\ frames' = frames /\ isr' = isr /\ irr' = irr /\ cs' = cs /\ intr' = intr
      /\ inNmi' = inNmi /\ count' = count
  BY DEF Stub
<1>8. stack \in Seq(Words) /\ reg \in Registers  BY <1>1 DEF TypeInv
<1>9. zero \in Seq(Words) /\ Len(zero) = ZeroWords(v)
  <2>1. 0 \in Words  BY DEF Words
  <2> QED  BY <1>4, <2>1 DEF ZeroWords
<1>10. number \in Seq(Words) /\ Len(number) = 1 /\ number[1] = Number(v)
  <2>1. Number(v) \in Words  BY <1>6, Zenon DEF Words
  <2> QED  BY <1>4, <2>1
<1> HIDE DEF f, v, zero, number
<1>11. /\ stack' \in Seq(Words) /\ Len(stack') = Len(stack) + Len(zero) + Len(number)
       /\ \A i \in 1..Len(stack) : stack'[i] = stack[i]
       /\ \A i \in 1..Len(number) : stack'[Len(stack) + Len(zero) + i] = number[i]
  <2>1. ASSUME NEW r, r = stack \o zero \o number
        PROVE  /\ r \in Seq(Words) /\ Len(r) = Len(stack) + Len(zero) + Len(number)
               /\ \A i \in 1..Len(stack) : r[i] = stack[i]
               /\ \A i \in 1..Len(number) : r[Len(stack) + Len(zero) + i] = number[i]
    <3>1. stack \in Seq(Words) /\ zero \in Seq(Words) /\ number \in Seq(Words)
      BY <1>8, <1>9, <1>10
    <3> QED  BY <2>1, <3>1, ConcatTwice
  <2> QED  BY <1>7, <2>1, Zenon
<1>12. ZeroWords(v) \in {0, 1} /\ Len(stack) \in Nat
  BY <1>8 DEF ZeroWords
<1>13. Len(stack') = f.depth + 6 + Pads(v) /\ stack'[Len(stack')] = Number(v)
  BY <1>4, <1>5, <1>6, <1>9, <1>10, <1>11, <1>12 DEF Pads
<1>14. Entering(f, at', Len(stack'), reg', stack')
  BY <1>4, <1>7, <1>13 DEF Entering, v
<1>15. WorksAbove
  <2>1. f.depth + 5 <= Len(stack')  BY <1>5, <1>6, <1>12, <1>13 DEF Pads
  <2>2. \A i \in 1..(f.depth + 5) : stack'[i] = stack[i]
    BY <1>2, <1>5, <1>11, <1>12
  <2>3. isr' \subseteq isr  BY <1>7
  <2> QED  BY <1>7, <1>11, <2>1, <2>2, <2>3, Zenon DEF WorksAbove, f
<1>16. IsrInv'
  <2>1. BeforeEoi(f, at) <=> BeforeEoi(f, at')
    BY <1>1, <1>7 DEF BeforeEoi
  <2> QED  BY <1>1, <1>2, <1>7, <2>1, IsrTop DEF f
<1>17. at' \in Places /\ reg' \in Registers
  BY <1>7, <1>8 DEF Places, PlaceNames
<1>18. SavedBy(f, stack') => Serving(f, at', Len(stack'), reg', stack')
  BY <1>14 DEF Serving
<1> QED  BY <1>1, <1>15, <1>16, <1>17, <1>18, CodeLive DEF f

\* The entry code pushes the registers: the frame has its context.
LEMMA IntrEntryLive ==
  ASSUME Live, IntrEntry
  PROVE  Live'
<1> DEFINE f == frames[Len(frames)]
           v == f.vector
           regs == [i \in 1..Len(Pushed) |-> reg[Pushed[i]]]
<1>1. TypeInv /\ ServedInv /\ IsrInv /\ at # Run /\ at[1] = "entry"
  BY DEF Live, IntrEntry, Run
<1>2. /\ frames # <<>> /\ f \in Frames /\ f.depth + 5 <= Len(stack)
      /\ Serving(f, at, Len(stack), reg, stack)
  BY <1>1, Top
<1>3. Entering(f, at, Len(stack), reg, stack)  BY <1>1, <1>2, TopCode
<1>4. /\ v \notin Ignored /\ reg = f.reg /\ stack[Len(stack)] = Number(v)
      /\ Len(stack) = f.depth + 6 + Pads(v)
  BY <1>3 DEF Entering
<1>5. v \in Taken /\ f.depth \in Nat  BY <1>2 DEF Frames
<1>6. Pads(v) \in 0..2
  BY <1>5, IdtFacts DEF Pads
<1>7. /\ at' = <<"handler", 0>> /\ stack' = stack \o regs /\ reg' = reg
      /\ frames' = frames /\ isr' = isr /\ irr' = irr /\ cs' = cs /\ intr' = intr
      /\ inNmi' = inNmi /\ count' = count
  BY DEF IntrEntry
<1>8. stack \in Seq(Words) /\ reg \in Registers /\ Len(stack) \in Nat  BY <1>1 DEF TypeInv
<1>9. regs \in Seq(Words) /\ Len(regs) = 9 /\ \A i \in 1..9 : regs[i] = reg[Pushed[i]]
  <2>1. Len(Pushed) = 9 /\ \A i \in 1..9 : Pushed[i] \in Saved  BY SavedNames
  <2>2. \A i \in 1..9 : reg[Pushed[i]] \in Words
    BY <1>8, <2>1 DEF Registers, Words
  <2>3. regs = [i \in 1..9 |-> reg[Pushed[i]]]  BY <2>1
  <2> HIDE DEF regs
  <2>4. regs \in [1..9 -> Words]  BY <2>2, <2>3
  <2>5. regs \in Seq(Words) /\ Len(regs) = 9
    BY <2>4, FunctionAsSeq
  <2> QED  BY <2>3, <2>5
<1> HIDE DEF f, v, regs
<1>10. /\ stack' \in Seq(Words) /\ Len(stack') = Len(stack) + 9
       /\ \A i \in 1..Len(stack) : stack'[i] = stack[i]
       /\ \A i \in 1..9 : stack'[Len(stack) + i] = reg[Pushed[i]]
  <2>1. /\ stack \o regs \in Seq(Words) /\ Len(stack \o regs) = Len(stack) + Len(regs)
        /\ \A i \in 1..Len(stack) : (stack \o regs)[i] = stack[i]
        /\ \A i \in 1..Len(regs) : (stack \o regs)[Len(stack) + i] = regs[i]
    BY <1>8, <1>9, Concat
  <2> QED  BY <1>7, <1>9, <2>1
<1>11. Handling(f, at', Len(stack'), stack')
  <2>0. Len(stack) = f.depth + 6 + Pads(v) /\ Len(stack') = Len(stack) + 9  BY <1>4, <1>10
  <2>1. Len(stack') = f.depth + 15 + Pads(v) /\ Len(stack') - 9 = Len(stack)
    BY <1>5, <1>6, <2>0
  <2>2. stack'[Len(stack') - 9] = Number(v)
    <3>1. Len(stack) \in 1..Len(stack)  BY <1>4, <1>5, <1>6
    <3> QED  BY <1>4, <1>10, <2>1, <3>1
  <2>3. \A i \in 1..9 : stack'[Len(stack') - 9 + i] = f.reg[Pushed[i]]
    BY <1>4, <1>10, <2>1
  <2>4. ContextOf(f, Len(stack'), stack')
    BY <2>1, <2>2, <2>3 DEF ContextOf, v
  <2> QED  BY <1>4, <1>7, <2>4 DEF Handling, v
<1>12. WorksAbove
  <2>1. f.depth + 5 <= Len(stack')  BY <1>2, <1>5, <1>8, <1>10
  <2>2. \A i \in 1..(f.depth + 5) : stack'[i] = stack[i]
    BY <1>2, <1>5, <1>8, <1>10
  <2>3. isr' \subseteq isr  BY <1>7
  <2> QED  BY <1>7, <1>10, <2>1, <2>2, <2>3, Zenon DEF WorksAbove, f
<1>13. IsrInv'
  <2>1. BeforeEoi(f, at) <=> BeforeEoi(f, at')
    BY <1>1, <1>7 DEF BeforeEoi
  <2> QED  BY <1>1, <1>2, <1>7, <2>1, IsrTop DEF f
<1>14. at' \in Places /\ reg' \in Registers
  BY <1>7, <1>8 DEF Places, PlaceNames
<1>15. SavedBy(f, stack') => Serving(f, at', Len(stack'), reg', stack')
  BY <1>11 DEF Serving
<1> QED  BY <1>1, <1>12, <1>13, <1>14, <1>15, CodeLive DEF f

\* A step that only changes the place and the registers.
LEMMA InPlace ==
  ASSUME Live, at # Run, UNCHANGED <<irr, cs, intr, stack, inNmi, frames, count>>,
         isr' \subseteq isr
  PROVE  WorksAbove
<1>1. /\ TypeInv /\ frames[Len(frames)] \in Frames
      /\ frames[Len(frames)].depth + 5 <= Len(stack)
  BY Top DEF Live
<1>2. stack' \in Seq(Words) /\ Len(stack') = Len(stack) /\ stack' = stack
  BY <1>1 DEF TypeInv
<1> QED  BY <1>1, <1>2 DEF WorksAbove

\* IntrHandler goes on only with a vector that pushed what is popped, or panics.
LEMMA IntrHandlerLive ==
  ASSUME Live, IntrHandler
  PROVE  TypeInv' /\ (at' # Panicked => Live')
<1> DEFINE f == frames[Len(frames)]
           v == f.vector
<1>1. TypeInv /\ ServedInv /\ IsrInv /\ at # Run /\ at[1] = "handler"
  BY DEF Live, IntrHandler, Run
<1>2. frames # <<>> /\ f \in Frames /\ Serving(f, at, Len(stack), reg, stack)
  BY <1>1, Top
<1>3. v \notin Ignored /\ ContextOf(f, Len(stack), stack)
  BY <1>1, <1>2, TopCode DEF Handling
<1>4. v \in Taken  BY <1>2 DEF Frames
<1>5. /\ at' = Handled(Context(9), Context(12)) /\ reg' = [r \in Saved |-> "used"]
      /\ UNCHANGED <<irr, cs, intr, stack, inNmi, frames, count>> /\ isr' = isr
  BY DEF IntrHandler
<1> HIDE DEF f, v
<1>6. Context(9) = Number(v)
  BY <1>3 DEF Context, ContextOf, v
<1>7. reg' \in Registers  BY <1>5 DEF Registers, Values
<1>8. CASE at' = Panicked
  <2>1. at' \in Places  BY <1>8 DEF Panicked, Places, PlaceNames
  <2> QED  BY <1>1, <1>5, <1>7, <1>8, <2>1 DEF TypeInv
<1>9. CASE at' # Panicked
  <2>1. at' = Handled(Number(v), Context(12))  BY <1>5, <1>6
  <2>2. /\ Pads(v) = 1
        /\ IF v \in DeviceVectors THEN at' = <<"irq", 0>> ELSE at' = <<"leave", 0>>
    BY <1>3, <1>4, <1>9, <2>1, PadsOfHandled
  <2>3. at' \in Places  BY <2>2 DEF Places, PlaceNames
  <2>4. WorksAbove  BY <1>1, <1>5, InPlace
  <2>5. BeforeEoi(f, at) <=> BeforeEoi(f, at')
    BY <1>1, <2>2 DEF BeforeEoi, v
  <2>6. IsrInv'  BY <1>1, <1>2, <1>5, <2>5, IsrTop DEF f
  <2>7. EndingIrq(f, at', Len(stack), stack) \/ Leaving(f, at', Len(stack), stack)
    BY <1>3, <2>2 DEF EndingIrq, Leaving, v
  <2>8. SavedBy(f, stack') => Serving(f, at', Len(stack'), reg', stack')
    BY <1>5, <2>7 DEF Serving
  <2>9. Live'  BY <1>1, <1>7, <2>3, <2>4, <2>6, <2>8, CodeLive DEF f
  <2> QED  BY <2>9 DEF Live
<1> QED  BY <1>8, <1>9

\* The handler of a device's interrupt runs while only its vector is in service.
LEMMA InService ==
  ASSUME Live, at[1] \in {"irq", "eoi"}
  PROVE  /\ at # Run /\ Len(frames) = 1 /\ frames # <<>> /\ frames[1] \in Frames
         /\ Serving(frames[1], at, Len(stack), reg, stack)
         /\ EndingIrq(frames[1], at, Len(stack), stack)
         /\ frames[1].vector \in DeviceVectors /\ isr = {frames[1].vector}
<1>1. TypeInv /\ ServedInv /\ IsrInv /\ at # Run
  BY DEF Live, Run
<1>2. /\ frames # <<>> /\ frames[Len(frames)] \in Frames
      /\ Len(frames) \in Nat /\ Len(frames) > 0
      /\ Serving(frames[Len(frames)], at, Len(stack), reg, stack)
  BY <1>1, Top
<1>3. EndingIrq(frames[Len(frames)], at, Len(stack), stack)
  BY <1>2, TopCode
<1>4. frames[Len(frames)].vector \in DeviceVectors  BY <1>3 DEF EndingIrq
<1>5. Len(frames) = 1
  <2>1. Len(frames) \in 1..Len(frames)  BY <1>2
  <2> QED  BY <1>1, <1>4, <2>1, OnlyFirst
<1>6. PlaceAt(1) = at  BY <1>5 DEF PlaceAt
<1>7. BeforeEoi(frames[1], PlaceAt(1))  BY <1>4, <1>5, <1>6 DEF BeforeEoi
<1>8. isr = {frames[1].vector}  BY <1>1, <1>2, <1>7 DEF IsrInv
<1> QED  BY <1>1, <1>2, <1>3, <1>4, <1>5, <1>8

\* CpuGetHardwareIntr finds the number of the only vector in service.
LEMMA GetIrqLive ==
  ASSUME Live, GetIrq
  PROVE  Live'
<1> DEFINE f == frames[1]
<1>1. at[1] = "irq" /\ TypeInv /\ IsrInv  BY DEF GetIrq, Live
<1>2. /\ at # Run /\ Len(frames) = 1 /\ frames # <<>>
      /\ EndingIrq(f, at, Len(stack), stack)
      /\ f.vector \in DeviceVectors /\ isr = {f.vector}
  BY <1>1, InService
<1>3. /\ at' = <<"eoi", CpuGetHardwareIntr>> /\ reg' = reg
      /\ UNCHANGED <<irr, cs, intr, stack, inNmi, frames, count>> /\ isr' = isr
  BY DEF GetIrq
<1> HIDE DEF f
<1>4. f.vector \in Vectors
  BY <1>2 DEF DeviceVectors, Vectors, INTR_IRQ, INTR_APIC_TIMER, INTR_APIC_SPURIOUS
<1>5. at' = <<"eoi", f.vector - INTR_IRQ>>
  BY <1>2, <1>3, <1>4, OneInService
<1>6. at' \in Places
  <2>1. f.vector - INTR_IRQ \in Int  BY <1>4 DEF Vectors, INTR_IRQ
  <2> QED  BY <1>5, <2>1 DEF Places, PlaceNames
<1>7. WorksAbove  BY <1>2, <1>3, InPlace
<1>8. IsrInv'
  <2>1. BeforeEoi(f, at) <=> BeforeEoi(f, at')
    BY <1>1, <1>5 DEF BeforeEoi
  <2> QED  BY <1>1, <1>2, <1>3, <2>1, IsrTop DEF f
<1>9. SavedBy(f, stack') => Serving(f, at', Len(stack'), reg', stack')
  <2>1. EndingIrq(f, at', Len(stack), stack)
    BY <1>2, <1>5, Zenon DEF EndingIrq
  <2> QED  BY <1>3, <2>1 DEF Serving
<1>10. reg' \in Registers  BY <1>1, <1>3 DEF TypeInv
<1> QED  BY <1>2, <1>6, <1>7, <1>8, <1>9, <1>10, CodeLive DEF f

\* The end of interrupt leaves nothing in service.
LEMMA CpuSendEoiLive ==
  ASSUME Live, CpuSendEoi
  PROVE  Live' /\ isr' = {}
<1> DEFINE f == frames[1]
<1>1. at[1] = "eoi" /\ TypeInv /\ IsrInv  BY DEF CpuSendEoi, Live
<1>2. /\ at # Run /\ Len(frames) = 1 /\ frames # <<>> /\ f \in Frames
      /\ EndingIrq(f, at, Len(stack), stack)
      /\ f.vector \in DeviceVectors /\ isr = {f.vector}
  BY <1>1, InService
<1>3. /\ at' = <<"leave", 0>> /\ reg' = reg
      /\ UNCHANGED <<irr, cs, intr, stack, inNmi, frames, count>>
      /\ isr' = IF isr = {} THEN isr ELSE isr \ {Highest(isr)}
  BY DEF CpuSendEoi
<1> HIDE DEF f
<1>4. f.vector \in Vectors
  BY <1>2 DEF DeviceVectors, Vectors, INTR_IRQ, INTR_APIC_TIMER, INTR_APIC_SPURIOUS
<1>5. isr' = {}
  <2>1. Highest(isr) = f.vector  BY <1>2, <1>4, OneInService
  <2> QED  BY <1>2, <1>3, <2>1
<1>6. at' \in Places /\ reg' \in Registers
  BY <1>1, <1>3 DEF TypeInv, Places, PlaceNames
<1>7. WorksAbove  BY <1>2, <1>3, <1>5, InPlace
<1>8. IsrInv'
  <2>1. PlaceAt(1)' = at'  BY <1>2, <1>3 DEF PlaceAt
  <2>2. ~BeforeEoi(frames[1], PlaceAt(1))'  BY <1>3, <2>1 DEF BeforeEoi
  <2>3. Len(frames') = 1  BY <1>2, <1>3
  <2>4. \A k \in 2..Len(frames') : FALSE  BY <2>3
  <2> QED  BY <1>5, <2>2, <2>4 DEF IsrInv
<1>9. SavedBy(f, stack') => Serving(f, at', Len(stack'), reg', stack')
  <2>1. f.vector \in Taken  BY <1>2 DEF Frames
  <2>2. f.vector \notin Ignored /\ Pads(f.vector) = 1  BY <1>2, <2>1, IdtFacts
  <2>3. Leaving(f, at', Len(stack), stack)
    BY <1>2, <1>3, <2>2 DEF Leaving, EndingIrq
  <2> QED  BY <1>3, <2>3 DEF Serving
<1> QED  BY <1>2, <1>5, <1>6, <1>7, <1>8, <1>9, CodeLive DEF f

\* The registers get back what they had when the vector was taken.
LEMMA PopRegsLive ==
  ASSUME Live, PopRegs
  PROVE  Live'
<1> DEFINE f == frames[Len(frames)]
           v == f.vector
           place(r) == CHOOSE i \in 1..Len(Popped) : Popped[i] = r
<1>1. TypeInv /\ ServedInv /\ IsrInv /\ at # Run /\ at[1] = "leave"
  BY DEF Live, PopRegs, Run
<1>2. /\ frames # <<>> /\ f \in Frames /\ f.depth + 5 <= Len(stack)
      /\ Serving(f, at, Len(stack), reg, stack)
  BY <1>1, Top
<1>3. v \notin Ignored /\ Pads(v) = 1 /\ ContextOf(f, Len(stack), stack)
  BY <1>1, <1>2, TopCode DEF Leaving
<1>4. f.depth \in Nat /\ f.reg \in Registers  BY <1>2 DEF Frames
<1>5. /\ at' = <<"drop", 0>> /\ reg' = [r \in Saved |-> Context(place(r) - 1)]
      /\ stack' = SubSeq(stack, 1, Len(stack) - Len(Popped))
      /\ UNCHANGED <<irr, isr, cs, intr, inNmi, frames, count>>
  BY DEF PopRegs
<1>6. \A r \in Saved : place(r) \in 1..9 /\ Pushed[10 - place(r)] = r
  BY PoppedAsPushed
<1>7. stack \in Seq(Words) /\ Len(stack) \in Nat  BY <1>1 DEF TypeInv
<1> HIDE DEF f, v, place
<1>8. Len(stack) = f.depth + 16
  <2>1. Len(stack) = f.depth + 15 + Pads(v)  BY <1>3 DEF ContextOf, v
  <2> QED  BY <1>3, <1>4, <2>1
<1>9. \A i \in 1..9 : stack[Len(stack) - 9 + i] = f.reg[Pushed[i]]
  BY <1>3 DEF ContextOf
<1>10. reg' = f.reg
  <2>1. ASSUME NEW r \in Saved PROVE Context(place(r) - 1) = f.reg[r]
    <3>1. place(r) \in 1..9 /\ Pushed[10 - place(r)] = r  BY <1>6
    <3>2. 10 - place(r) \in 1..9  BY <3>1
    <3>3. Len(stack) - (place(r) - 1) = Len(stack) - 9 + (10 - place(r))  BY <1>7, <3>1
    <3> QED  BY <1>9, <3>1, <3>2, <3>3 DEF Context
  <2>2. reg' = [r \in Saved |-> f.reg[r]]  BY <1>5, <2>1
  <2>3. f.reg = [r \in Saved |-> f.reg[r]]  BY <1>4 DEF Registers
  <2> QED  BY <2>2, <2>3
<1>11. /\ stack' \in Seq(Words) /\ Len(stack') = f.depth + 7
       /\ \A i \in 1..(f.depth + 7) : stack'[i] = stack[i]
  <2>1. Len(stack) - Len(Popped) = f.depth + 7 /\ f.depth + 7 \in 0..Len(stack)
    BY <1>4, <1>8, SavedNames
  <2> QED  BY <1>5, <1>7, <2>1, Start
<1>12. WorksAbove
  <2>1. f.depth + 5 <= Len(stack')  BY <1>4, <1>11
  <2>2. \A i \in 1..(f.depth + 5) : stack'[i] = stack[i]  BY <1>4, <1>11
  <2>3. isr' \subseteq isr  BY <1>5
  <2> QED  BY <1>5, <1>11, <2>1, <2>2, <2>3, Zenon DEF WorksAbove, f
<1>13. Dropping(f, at', Len(stack'), reg')
  BY <1>3, <1>5, <1>10, <1>11 DEF Dropping, v
<1>14. IsrInv'
  <2>1. BeforeEoi(f, at) <=> BeforeEoi(f, at')
    BY <1>1, <1>5 DEF BeforeEoi
  <2> QED  BY <1>1, <1>2, <1>5, <2>1, IsrTop DEF f
<1>15. at' \in Places /\ reg' \in Registers
  BY <1>4, <1>5, <1>10 DEF Places, PlaceNames
<1>16. SavedBy(f, stack') => Serving(f, at', Len(stack'), reg', stack')
  BY <1>13 DEF Serving
<1> QED  BY <1>1, <1>12, <1>14, <1>15, <1>16, CodeLive DEF f

\* IRETQ is reached only with the stack and the registers of the frame's beginning.
LEMMA IretReached ==
  ASSUME Live, Ignore \/ Leave
  PROVE  IretOfLast /\ at # Run /\ ~BeforeEoi(frames[Len(frames)], at)
<1> DEFINE f == frames[Len(frames)]
<1>1. TypeInv /\ ServedInv /\ at # Run /\ at[1] \in {"IntrIsrIgnore", "drop"}
  BY DEF Live, Ignore, Leave, Run
<1>2. f \in Frames /\ Serving(f, at, Len(stack), reg, stack)
  BY <1>1, Top
<1>3. f.depth \in Nat  BY <1>2 DEF Frames
<1> HIDE DEF f
<1>4. CASE Ignore
  <2>1. at[1] = "IntrIsrIgnore" /\ Iret(Len(stack)) /\ reg' = reg  BY <1>4 DEF Ignore
  <2>2. Len(stack) = f.depth + 5 /\ reg = f.reg
    BY <1>2, <2>1, TopCode DEF Ignoring
  <2> QED  BY <1>1, <2>1, <2>2 DEF IretOfLast, BeforeEoi, f
<1>5. CASE Leave
  <2>1. at[1] = "drop" /\ Iret(Len(stack) - 2) /\ reg' = reg  BY <1>5 DEF Leave
  <2>2. Len(stack) = f.depth + 7 /\ reg = f.reg
    BY <1>2, <2>1, TopCode DEF Dropping
  <2>3. Len(stack) - 2 = f.depth + 5  BY <1>3, <2>2
  <2> QED  BY <1>1, <2>1, <2>2, <2>3 DEF IretOfLast, BeforeEoi, f
<1> QED  BY <1>4, <1>5

\* IRETQ leaves the frames below, and the processor as the last frame has it.
LEMMA IretLive ==
  ASSUME Live, Ignore \/ Leave
  PROVE  Live'
<1> DEFINE f == frames[Len(frames)]
<1>1. /\ TypeInv /\ ServedInv /\ OrderInv /\ IsrInv
      /\ IretOfLast /\ at # Run /\ ~BeforeEoi(f, at)
  BY IretReached DEF Live
<1>2. /\ at' = f.at /\ cs' = f.cs /\ intr' = f.intr /\ reg' = f.reg
      /\ stack' \in Seq(Words) /\ frames' \in Seq(Frames)
  BY <1>1, IretReturns
<1>3. f \in Frames  BY <1>1, Top
<1>4. /\ at' \in Places /\ cs' \in {"user", "kernel"} /\ intr' \in BOOLEAN /\ reg' \in Registers
  BY <1>2, <1>3 DEF Frames
<1>5. irr' = irr /\ isr' = isr /\ count' = count /\ inNmi' = FALSE
  BY DEF Ignore, Leave, Iret
<1>6. TypeInv'  BY <1>1, <1>2, <1>4, <1>5 DEF TypeInv
<1>7. ServedInv' /\ OrderInv'  BY <1>1, IretKeeps
<1>8. IsrInv'  BY <1>1, <1>5, IsrIret
<1> QED  BY <1>6, <1>7, <1>8 DEF Live

----------------------------------------------------------------------------
(* The theorems.                                                           *)

\* The invariant holds at the start: the program runs and nothing is taken.
LEMMA InitInv == Init => IInv
<1> SUFFICES ASSUME Init PROVE IInv
  OBVIOUS
<1>1. /\ irr = {} /\ isr = {} /\ at = Run /\ cs = "user" /\ intr = TRUE
      /\ reg = [r \in Saved |-> r] /\ stack = <<>> /\ inNmi = FALSE /\ frames = <<>> /\ count = 0
  BY DEF Init
<1>2. TypeInv
  <2>1. at \in Places  BY <1>1 DEF Run, Places, PlaceNames
  <2>2. reg \in Registers  BY <1>1 DEF Registers, Values
  <2>3. stack \in Seq(Words) /\ frames \in Seq(Frames)  BY <1>1
  <2> QED  BY <1>1, <2>1, <2>2, <2>3 DEF TypeInv
<1>3. Len(frames) = 0 /\ Len(stack) = 0  BY <1>1
<1>4. ServedInv  BY <1>1, <1>3 DEF ServedInv, PlaceAt, LenAt
<1>5. OrderInv  BY <1>3 DEF OrderInv
<1>6. IsrInv  BY <1>1, <1>3 DEF IsrInv
<1> QED  BY <1>2, <1>4, <1>5, <1>6 DEF IInv, Live

\* The kernel stays where it panicked, and nothing is taken any more.
LEMMA PanicStays == IInv /\ Next => at # Panicked /\ Live
<1> SUFFICES ASSUME IInv, Next PROVE at # Panicked
  BY DEF IInv
<1>1. ASSUME Code PROVE at # Panicked
  BY <1>1 DEF Code, Stub, Ignore, IntrEntry, IntrHandler, GetIrq, CpuSendEoi, PopRegs, Leave,
     Panicked
<1>2. ASSUME Hardware PROVE at # Panicked
  BY <1>2 DEF Hardware, Accept, TakeNmi, Spurious, Raise, Except, Event
<1> QED  BY <1>1, <1>2 DEF Next

\* Every step keeps the invariant.
LEMMA NextInv == IInv /\ [Next]_vars => IInv'
<1> SUFFICES ASSUME IInv, [Next]_vars PROVE IInv'
  OBVIOUS
<1>1. CASE Next
  <2>0. Live  BY <1>1, PanicStays
  <2>1. CASE Accept  BY <2>0, <2>1, AcceptLive DEF IInv, Live
  <2>2. CASE TakeNmi  BY <2>0, <2>2, TakeNmiLive DEF IInv, Live
  <2>3. CASE Spurious  BY <2>0, <2>3, SpuriousLive DEF IInv, Live
  <2>4. CASE \E v \in Irqs \cup {INTR_APIC_TIMER} : Raise(v)
    BY <2>0, <2>4, RaiseLive DEF IInv, Live
  <2>5. CASE \E v \in Exceptions : Except(v)
    BY <2>0, <2>5, ExceptLive DEF IInv, Live
  <2>6. CASE Stub  BY <2>0, <2>6, StubLive DEF IInv, Live
  <2>7. CASE Ignore \/ Leave  BY <2>0, <2>7, IretLive DEF IInv, Live
  <2>8. CASE IntrEntry  BY <2>0, <2>8, IntrEntryLive DEF IInv, Live
  <2>9. CASE IntrHandler  BY <2>0, <2>9, IntrHandlerLive DEF IInv
  <2>10. CASE GetIrq  BY <2>0, <2>10, GetIrqLive DEF IInv, Live
  <2>11. CASE CpuSendEoi  BY <2>0, <2>11, CpuSendEoiLive DEF IInv, Live
  <2>12. CASE PopRegs  BY <2>0, <2>12, PopRegsLive DEF IInv, Live
  <2> QED
    BY <1>1, <2>1, <2>2, <2>3, <2>4, <2>5, <2>6, <2>7, <2>8, <2>9, <2>10, <2>11, <2>12, Zenon
       DEF Next, Hardware, Code
<1>2. CASE UNCHANGED vars
  <2>1. /\ irr' = irr /\ isr' = isr /\ at' = at /\ cs' = cs /\ intr' = intr /\ reg' = reg
        /\ stack' = stack /\ inNmi' = inNmi /\ frames' = frames /\ count' = count
    BY <1>2 DEF vars, cpu
  <2>2. TypeInv'  BY <2>1 DEF IInv, TypeInv
  <2>3. ASSUME Live PROVE Live'
    <3>1. ServedInv'  BY <2>1, <2>3 DEF Live, ServedInv, PlaceAt, LenAt, RegAt, IntrAt
    <3>2. OrderInv'  BY <2>1, <2>3 DEF Live, OrderInv
    <3>3. IsrInv'  BY <2>1, <2>3 DEF Live, IsrInv, BeforeEoi, PlaceAt
    <3> QED  BY <2>2, <3>1, <3>2, <3>3 DEF Live
  <2> QED  BY <2>1, <2>2, <2>3 DEF IInv
<1> QED  BY <1>1, <1>2

\* Every frame on the stack is served as far as its code has got, and only the vector of
\* the first is in service.
THEOREM FramesServed == Spec => []IInv
<1> QED  BY InitInv, NextInv, PTL DEF Spec

\* The end of interrupt is for the device whose handler asks, however many NMIs and
\* exceptions came in between and whatever the devices are.
THEOREM OwnIrqAlwaysFound == Spec => []OwnIrqFound
<1>1. IInv => OwnIrqFound
  <2> SUFFICES ASSUME IInv, at[1] = "eoi"
               PROVE  frames # <<>> /\ at[2] = frames[Len(frames)].vector - INTR_IRQ
    BY DEF OwnIrqFound
  <2>1. Live  BY DEF IInv, Panicked
  <2>2. Len(frames) = 1 /\ frames # <<>> /\ EndingIrq(frames[1], at, Len(stack), stack)
    BY <2>1, InService
  <2>3. at = <<"eoi", frames[1].vector - INTR_IRQ>>  BY <2>2 DEF EndingIrq
  <2> QED  BY <2>2, <2>3
<1> QED  BY <1>1, FramesServed, PTL

\* An end of interrupt takes out of service the vector of the handler that sends it.
THEOREM EndOfInterruptIsOwn == Spec => EndsOwn
<1>1. IInv /\ [Next]_vars =>
        [isr' \subseteq isr /\ isr' # isr => isr \ isr' = {frames[Len(frames)].vector}]_vars
  <2> SUFFICES ASSUME IInv, Next, isr' \subseteq isr, isr' # isr
               PROVE  isr \ isr' = {frames[Len(frames)].vector}
    OBVIOUS
  <2>0. Live  BY PanicStays
  <2>1. CASE CpuSendEoi
    <3>1. at[1] = "eoi"  BY <2>1 DEF CpuSendEoi
    <3>2. Len(frames) = 1 /\ isr = {frames[1].vector}  BY <2>0, <3>1, InService
    <3>3. isr' = {}  BY <2>0, <2>1, CpuSendEoiLive
    <3> QED  BY <3>2, <3>3
  <2>2. CASE Accept
    <3>1. PICK v \in Irqs \cup {INTR_APIC_TIMER} : isr' = {v} /\ isr = {}
      BY <2>0, <2>2, AcceptServes DEF Live
    <3> QED  BY <3>1
  <2>3. CASE ~CpuSendEoi /\ ~Accept
    BY <2>3 DEF Next, Hardware, Code, TakeNmi, Spurious, Raise, Except, Stub, Ignore, IntrEntry,
       IntrHandler, GetIrq, PopRegs, Leave
  <2> QED  BY <2>1, <2>2, <2>3
<1> QED  BY <1>1, FramesServed, PTL DEF Spec, EndsOwn

\* Whatever came in between, IRETQ returns to the very state that was interrupted.
THEOREM IretReturnsExactly == Spec => ReturnsExactly
<1> DEFINE Returned == LET f == frames[Len(frames)]
                       IN  <<at', cs', intr', reg', Len(stack')>>
                             = <<f.at, f.cs, f.intr, f.reg, f.depth>>
<1>1. IInv /\ [Next]_vars => [Len(frames') < Len(frames) => Returned]_vars
  <2> SUFFICES ASSUME IInv, Next, Len(frames') < Len(frames) PROVE Returned
    OBVIOUS
  <2>0. Live /\ TypeInv /\ ServedInv /\ OrderInv  BY PanicStays DEF Live
  <2>1. CASE Ignore \/ Leave
    <3>1. IretOfLast /\ at # Run  BY <2>0, <2>1, IretReached
    <3> QED  BY <2>0, <3>1, IretReturns
  <2>2. ASSUME NEW v \in Taken, Take(v) PROVE FALSE
    <3>1. frames \in Seq(Frames) /\ frames' = Append(frames, NewFrame(v)) /\ NewFrame(v) \in Frames
      BY <2>0, <2>2, TakeServes DEF TypeInv
    <3>2. Len(frames') = Len(frames) + 1 /\ Len(frames) \in Nat  BY <3>1, AppendProperties
    <3> QED  BY <3>2
  <2>3. ASSUME frames' = frames PROVE FALSE
    <3>1. Len(frames') = Len(frames) /\ Len(frames) \in Nat  BY <2>0, <2>3 DEF TypeInv
    <3> QED  BY <3>1
  <2>4. Hardware => frames' = frames \/ \E v \in Taken : Take(v)
    <3>1. Accept => \E v \in Taken : Take(v)
      BY <2>0, AcceptServes DEF Taken, Live
    <3>2. TakeNmi \/ Spurious => \E v \in Taken : Take(v)
      BY DEF TakeNmi, Spurious, Taken
    <3>3. ASSUME NEW v \in Irqs \cup {INTR_APIC_TIMER}, Raise(v) PROVE frames' = frames
      BY <3>3 DEF Raise
    <3>4. ASSUME NEW v \in Exceptions, Except(v) PROVE \E w \in Taken : Take(w)
      BY <3>4 DEF Except, Taken
    <3> QED  BY <3>1, <3>2, <3>3, <3>4 DEF Hardware
  <2>5. Code => Ignore \/ Leave \/ frames' = frames
    BY DEF Code, Stub, IntrEntry, IntrHandler, GetIrq, CpuSendEoi, PopRegs
  <2> QED  BY <2>1, <2>2, <2>3, <2>4, <2>5 DEF Next
<1> QED  BY <1>1, FramesServed, PTL DEF Spec, ReturnsExactly
=============================================================================
