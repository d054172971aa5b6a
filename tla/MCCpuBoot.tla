----------------------------- MODULE MCCpuBoot -----------------------------
(***************************************************************************)
(* Instances of CpuBoot for TLC: a boot processor, two or three others,    *)
(* and a page for each.                                                    *)
(***************************************************************************)
EXTENDS CpuBoot

CONSTANTS bsp, a1, a2, a3, p1, p2, p3, p4

ThreeApics == {bsp, a1, a2}
ThreePages == {p1, p2, p3}
FourApics == ThreeApics \cup {a3}
FourPages == ThreePages \cup {p4}
=============================================================================
