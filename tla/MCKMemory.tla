----------------------------- MODULE MCKMemory -----------------------------
(* Instances of KMemory for TLC. *)
EXTENDS KMemory
=============================================================================
