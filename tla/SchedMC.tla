------------------------------- MODULE SchedMC -------------------------------
(* Sched for TLC: a driver, the manager, an idle process, a user and a     *)
(* free entry.  All refills but the manager's are two ticks, so that an    *)
(* entry found by schedule() can be charged and then be beaten by another; *)
(* the waits counted are those of the idle process.                        *)
EXTENDS Sched, TLC

MCpriority == (0 :> 2) @@ (1 :> 1) @@ (2 :> 2) @@ (3 :> 2) @@ (4 :> 2)
=============================================================================
