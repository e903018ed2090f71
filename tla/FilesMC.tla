------------------------------ MODULE FilesMC ------------------------------
(* Instances of Files for TLC.                                             *)
EXTENDS Files, TLC

CONSTANTS p1, p2
TwoProcs == {p1, p2}

(* A device, the file there is, a new one: with five places the last entry *)
(* and the holes below it move about.                                      *)
SomePaths == {"dev_tty0", "cmd.tar", "a"}
=============================================================================
