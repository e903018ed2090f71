-------------------------------- MODULE IpcMC --------------------------------
(***************************************************************************)
(* Ipc for TLC: a driver task, two processes that call, one that idles.    *)
(* Three callers make queues of three and send cycles of two and three.    *)
(***************************************************************************)
EXTENDS Ipc

CONSTANTS tty, a, b, idle

MCProc == {tty, a, b, idle}
MCDrivers == {tty}
MCIdle == {idle}
=============================================================================
