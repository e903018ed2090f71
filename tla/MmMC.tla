-------------------------------- MODULE MmMC --------------------------------
(* Instances of Mm for TLC: Init and two or three entries for its children. *)
EXTENDS Mm, TLC
=============================================================================
