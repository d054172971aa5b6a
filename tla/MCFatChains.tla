---------------------------- MODULE MCFatChains ----------------------------
(* Instances of FatChains for TLC. *)
EXTENDS FatChains
=============================================================================
