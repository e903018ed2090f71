----------------------------- MODULE Namespace -----------------------------
(***************************************************************************)
(* What processes expect of the names and handles of files: a name leads   *)
(* to a file until it is removed, a handle to the file it was opened on    *)
(* until it is closed, a child has the handles of its parent, a new file   *)
(* is nobody else's, and no file goes while somebody has it open.  Nothing *)
(* here counts references or has tables.                                   *)
(***************************************************************************)
EXTENDS Naturals

CONSTANTS Proc, FIRST, Fds, Names, File,
          Lasting,     \* files that are not removed: devices, directories
          Given,       \* where the names lead at the start
          None         \* not a file

VARIABLES alive,       \* processes that can call
          names,       \* of a name: its file, or None
          open         \* of a process and a handle: the file it is open on, or None

vars == <<alive, names, open>>

HasOpen(f) == {h \in alive \X Fds : open[h[1]][h[2]] = f}
Unused(f) == HasOpen(f) = {} /\ \A n \in Names : names[n] # f

Init ==
  /\ alive = {FIRST}
  /\ names = Given
  /\ open = [p \in Proc |-> [fd \in Fds |-> None]]

Open(p, fd, n) ==
  /\ p \in alive /\ open[p][fd] = None
  /\ names[n] # None
  /\ open' = [open EXCEPT ![p][fd] = names[n]]
  /\ UNCHANGED <<alive, names>>

Create(p, fd, n, f) ==
  /\ p \in alive /\ open[p][fd] = None
  /\ names[n] = None
  /\ names' = [names EXCEPT ![n] = f]
  /\ open' = [open EXCEPT ![p][fd] = f]
  /\ UNCHANGED alive

Close(p, fd) ==
  /\ p \in alive /\ open[p][fd] # None
  /\ open' = [open EXCEPT ![p][fd] = None]
  /\ UNCHANGED <<alive, names>>

Remove(n) ==
  /\ names[n] \notin Lasting \cup {None}
  /\ HasOpen(names[n]) = {}
  /\ names' = [names EXCEPT ![n] = None]
  /\ UNCHANGED <<alive, open>>

Fork(p, c) ==
  /\ p \in alive /\ c \notin alive
  /\ alive' = alive \cup {c}
  /\ open' = [open EXCEPT ![c] = open[p]]
  /\ UNCHANGED names

Exit(p) ==
  /\ p \in alive
  /\ alive' = alive \ {p}
  /\ open' = [open EXCEPT ![p] = [fd \in Fds |-> None]]
  /\ UNCHANGED names

(* A call that is refused, or none of these.                               *)
Other == UNCHANGED vars

Next ==
  \/ Other
  \/ \E p \in alive :
       \/ Exit(p)
       \/ \E c \in Proc : Fork(p, c)
       \/ \E fd \in Fds : Close(p, fd) \/ \E n \in Names : Open(p, fd, n)
  \/ \E f \in File : /\ Unused(f)
                     /\ \E p \in alive, fd \in Fds, n \in Names : Create(p, fd, n, f)
  \/ \E n \in Names : Remove(n)

Spec == Init /\ [][Next]_vars
=============================================================================
