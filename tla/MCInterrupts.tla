---------------------------- MODULE MCInterrupts ----------------------------
(* An instance of Interrupts for TLC. *)
EXTENDS Interrupts

\* Two devices of one class, the first of all and one of another register.
Devices == {32, 33, 70}
\* One that panics, one that does in the kernel, with an error code, and two that
\* return.
SomeExceptions == {1, 7, 13, 14}
=============================================================================
