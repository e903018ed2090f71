------------------------------- MODULE TtyMC -------------------------------
(* Instances of Tty for TLC.                                               *)
EXTENDS Tty
=============================================================================
