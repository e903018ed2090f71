------------------------------- MODULE Family -------------------------------
(***************************************************************************)
(* What processes expect of fork, exit and wait: who lives, whose child it *)
(* is, and who is told of its end.  A child that ends goes at once when    *)
(* its parent waits for it, otherwise it stays until its parent, or Init   *)
(* after the parent's own end, asks.  Each of this is one step: there are  *)
(* no messages, no flags and no half-done calls.                           *)
(***************************************************************************)
EXTENDS Naturals

CONSTANTS Pid, INIT,
          Nobody       \* not a process

VARIABLES state,       \* of an entry: "free", "live", or "dead" and not yet told of
          parent,      \* of an entry that is not free, else Nobody
          waiting      \* those blocked in wait()

vars == <<state, parent, waiting>>

Init ==
  /\ state = [p \in Pid |-> IF p = INIT THEN "live" ELSE "free"]
  /\ parent = [p \in Pid |-> Nobody]
  /\ waiting = {}

Acts(p) == state[p] = "live" /\ p \notin waiting

(* p is told of the end of c: now, or from its wait().                     *)
Told(p, c) ==
  /\ state' = [state EXCEPT ![c] = "free"]
  /\ parent' = [parent EXCEPT ![c] = Nobody]
  /\ waiting' = waiting \ {p}

Fork(p, c) ==
  /\ Acts(p) /\ state[c] = "free"
  /\ state' = [state EXCEPT ![c] = "live"]
  /\ parent' = [parent EXCEPT ![c] = p]
  /\ UNCHANGED waiting

Exit(c) ==
  /\ Acts(c) /\ c # INIT
  /\ \/ parent[c] \in waiting /\ Told(parent[c], c)
     \/ /\ parent[c] \notin waiting
        /\ state' = [state EXCEPT ![c] = "dead"]
        /\ UNCHANGED <<parent, waiting>>

(* Init takes the children of those that have ended.                       *)
Adopt(c) ==
  /\ parent[c] \in Pid /\ state[parent[c]] # "live"
  /\ \/ state[c] = "dead" /\ INIT \in waiting /\ Told(INIT, c)
     \/ /\ ~ (state[c] = "dead" /\ INIT \in waiting)
        /\ parent' = [parent EXCEPT ![c] = INIT]
        /\ UNCHANGED <<state, waiting>>

Wait(p) ==
  /\ Acts(p)
  /\ \/ \E c \in Pid : state[c] = "dead" /\ parent[c] = p /\ Told(p, c)
     \/ /\ \A c \in Pid : ~ (state[c] = "dead" /\ parent[c] = p)
        /\ waiting' = waiting \cup {p}
        /\ UNCHANGED <<state, parent>>

(* A call that is refused, or none of these.                               *)
Other == UNCHANGED vars

Next ==
  \/ Other
  \/ \E p \in Pid : Exit(p) \/ Adopt(p) \/ Wait(p) \/ \E c \in Pid : Fork(p, c)

Spec == Init /\ [][Next]_vars
=============================================================================
