----------------------------- MODULE Rendezvous -----------------------------
(***************************************************************************)
(* What the kernel's message passing promises to the tasks and processes   *)
(* that use it (send_msg, recv_msg and info_task of kernel/proc.c), with   *)
(* every operation a single step.  Sending is synchronous: a sender whose  *)
(* receiver is not waiting for it is queued on the receiver, first come    *)
(* first served, and stays blocked until the receiver takes its message.   *)
(* A hardware notification is one pending bit per process.  Nothing here   *)
(* says how the kernel does it or who holds the processor.                 *)
(***************************************************************************)
EXTENDS Sequences, Integers, SequencesExt

CONSTANTS Proc,        \* the process table entries in use
          Drivers,     \* the processes an interrupt handler may notify
          ANY, INTERRUPT, NO_TASK

VARIABLES mode,        \* mode[p]: "ready", "sending" or "receiving"
          partner,     \* whom p is sending to / is willing to hear from
          waiting,     \* waiting[p]: the senders blocked on p, oldest first
          mail,        \* the source field of the message in p's buffer
          notified     \* a hardware notification p has not yet taken

vars == <<mode, partner, waiting, mail, notified>>

Init ==
  /\ mode = [p \in Proc |-> "ready"]
  /\ partner = [p \in Proc |-> NO_TASK]
  /\ waiting = [p \in Proc |-> <<>>]
  /\ mail = [p \in Proc |-> p]
  /\ notified = [p \in Proc |-> FALSE]

Listening(r, s) == mode[r] = "receiving" /\ partner[r] \in {s, ANY}

(* A ready process fills in its own message, stamped with its own number.  *)
Compose(p) ==
  /\ mode[p] = "ready"
  /\ mail' = [mail EXCEPT ![p] = p]
  /\ UNCHANGED <<mode, partner, waiting, notified>>

(* The receiver is waiting for this sender: the message changes hands and  *)
(* both may go on.                                                         *)
Deliver(s, r) ==
  /\ mode[s] = "ready" /\ r # s /\ Listening(r, s)
  /\ mail' = [mail EXCEPT ![s] = s, ![r] = s]
  /\ mode' = [mode EXCEPT ![r] = "ready"]
  /\ partner' = [partner EXCEPT ![r] = NO_TASK]
  /\ UNCHANGED <<waiting, notified>>

Enqueue(s, r) ==
  /\ mode[s] = "ready" /\ r # s /\ ~ Listening(r, s)
  /\ mail' = [mail EXCEPT ![s] = s]
  /\ mode' = [mode EXCEPT ![s] = "sending"]
  /\ partner' = [partner EXCEPT ![s] = r]
  /\ waiting' = [waiting EXCEPT ![r] = Append(@, s)]
  /\ UNCHANGED notified

(* A notification is taken before any queued message.                      *)
TakeNotification(r) ==
  /\ mode[r] = "ready" /\ notified[r]
  /\ mail' = [mail EXCEPT ![r] = INTERRUPT]
  /\ notified' = [notified EXCEPT ![r] = FALSE]
  /\ UNCHANGED <<mode, partner, waiting>>

(* RECEIVE from ANY takes the oldest sender, from s takes s.               *)
TakeMessage(r, src) ==
  \E i \in DOMAIN waiting[r] :
    LET s == waiting[r][i] IN
    /\ mode[r] = "ready"
    /\ IF src = ANY THEN i = 1 /\ ~ notified[r] ELSE s = src
    /\ mail' = [mail EXCEPT ![r] = s]
    /\ mode' = [mode EXCEPT ![s] = "ready"]
    /\ partner' = [partner EXCEPT ![s] = NO_TASK]
    /\ waiting' = [waiting EXCEPT ![r] = RemoveAt(@, i)]
    /\ UNCHANGED notified

(* Nothing to take: wait.  A process never goes to sleep on a sender or a  *)
(* notification that is already there.                                     *)
Await(r, src) ==
  /\ mode[r] = "ready" /\ src # r
  /\ IF src = ANY THEN waiting[r] = <<>> ELSE src \notin ToSet(waiting[r])
  /\ src \in {ANY, INTERRUPT} => ~ notified[r]
  /\ mail' = [mail EXCEPT ![r] = r]
  /\ mode' = [mode EXCEPT ![r] = "receiving"]
  /\ partner' = [partner EXCEPT ![r] = src]
  /\ UNCHANGED <<waiting, notified>>

(* An interrupt handler notifies t: a process waiting for it wakes now,    *)
(* any other finds the notification at its next RECEIVE.                   *)
Notify(t) ==
  IF mode[t] = "receiving" /\ partner[t] \in {ANY, INTERRUPT}
  THEN /\ mail' = [mail EXCEPT ![t] = INTERRUPT]
       /\ mode' = [mode EXCEPT ![t] = "ready"]
       /\ partner' = [partner EXCEPT ![t] = NO_TASK]
       /\ UNCHANGED <<waiting, notified>>
  ELSE /\ notified' = [notified EXCEPT ![t] = TRUE]
       /\ UNCHANGED <<mode, partner, waiting, mail>>

Next ==
  \/ \E p \in Proc : Compose(p) \/ TakeNotification(p)
  \/ \E s, r \in Proc : Deliver(s, r) \/ Enqueue(s, r)
  \/ \E r \in Proc, src \in Proc \cup {ANY, INTERRUPT} :
       TakeMessage(r, src) \/ Await(r, src)
  \/ \E t \in Drivers : Notify(t)

Spec == Init /\ [][Next]_vars
=============================================================================
