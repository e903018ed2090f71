--------------------------------- MODULE Ipc ---------------------------------
(***************************************************************************)
(* The kernel's message passing, kernel/proc.c, as it runs: sys_call of    *)
(* kernel/kernel.asm enables interrupts before it calls the handler        *)
(* (kernel.asm:315), so an interrupt handler may call info_task between    *)
(* any two statements of send_msg and recv_msg.  A system call is cut into *)
(* steps where an interrupt can change what the rest of the call reads;    *)
(* statements between two cuts are one step.  Only one process is in the   *)
(* kernel at a time: the clock reschedules only at user level              *)
(* (clock.c:19) and block() is the last thing a call does.                 *)
(*                                                                         *)
(* A message is abstracted to its source field, the linked list of blocked *)
(* senders to a sequence, the buffer pointer p_msg to "not null", and the  *)
(* choice schedule() makes among the runnable processes to any of them     *)
(* (module Sched has the choice).                                          *)
(***************************************************************************)
EXTENDS Sequences, Integers, FiniteSets, SequencesExt

CONSTANTS Proc,        \* the process table entries in use
          Drivers,     \* the tasks an interrupt handler notifies (TTY, HD)
          Idle,        \* processes that never make a system call (TestA..C)
          ANY, INTERRUPT, NO_TASK

ASSUME ProcAssumption ==
  /\ {ANY, INTERRUPT, NO_TASK} \cap Proc = {}
  /\ ANY # INTERRUPT /\ ANY # NO_TASK /\ INTERRUPT # NO_TASK
ASSUME TableAssumption == IsFiniteSet(Proc)
ASSUME RoleAssumption ==
  /\ Drivers \subseteq Proc
  /\ Idle \subseteq Proc \ Drivers
  /\ Idle # {}

SENDING == "SENDING"
RECEIVING == "RECEIVING"

VARIABLES
  p_flags, p_msg, p_recvfrom, p_sendto, has_int_msg, q_sending,
  mail,          \* the source field of the message buffer p uses
  p_proc_ready,  \* the process that runs, or whose call the kernel serves
  pc,            \* where the kernel is; "user" when it is not in a call
  peer           \* the src_dest argument of the call being served

procVars == <<p_flags, p_msg, p_recvfrom, p_sendto, has_int_msg, q_sending>>
vars == <<procVars, mail, p_proc_ready, pc, peer>>

SendSteps == {"send_assert", "send_copy", "send_clear", "send_wake"}
RecvSteps == {"recv_setflag", "recv_setfrom"}
BlockSteps == {"send_block", "recv_block"}
StopSteps == {"panic", "assert"}
Steps == {"user"} \cup SendSteps \cup RecvSteps \cup BlockSteps \cup StopSteps

TypeOK ==
  /\ p_flags \in [Proc -> SUBSET {SENDING, RECEIVING}]
  /\ p_msg \in [Proc -> BOOLEAN]
  /\ p_recvfrom \in [Proc -> Proc \cup {ANY, INTERRUPT, NO_TASK}]
  /\ p_sendto \in [Proc -> Proc \cup {NO_TASK}]
  /\ has_int_msg \in [Proc -> BOOLEAN]
  /\ q_sending \in [Proc -> Seq(Proc)]
  /\ mail \in [Proc -> Proc \cup {INTERRUPT}]
  /\ p_proc_ready \in Proc
  /\ pc \in Steps
  /\ peer \in Proc \cup {ANY, INTERRUPT, NO_TASK}

(* kernel_main, main.c:131-151.                                            *)
Init ==
  /\ p_flags = [p \in Proc |-> {}]
  /\ p_msg = [p \in Proc |-> FALSE]
  /\ p_recvfrom = [p \in Proc |-> NO_TASK]
  /\ p_sendto = [p \in Proc |-> NO_TASK]
  /\ has_int_msg = [p \in Proc |-> FALSE]
  /\ q_sending = [p \in Proc |-> <<>>]
  /\ mail = [p \in Proc |-> p]
  /\ p_proc_ready \in Proc
  /\ pc = "user"
  /\ peer = NO_TASK

Runnable(p) == p_flags[p] = {}

(* The walk of deadlock() from dest along p_sendto reaches src.  The set   *)
(* the walk visits is the least one that holds dest and, with each process *)
(* in SENDING, the process it sends to.                                    *)
SendClosed(S) == \A p \in S : SENDING \in p_flags[p] => p_sendto[p] \in S

(* Mutant: deadlock() without its loop.                                    *)
Deadlock_OneHop(src, dest) == SENDING \in p_flags[dest] /\ p_sendto[dest] = src

Deadlock(src, dest) ==
  \A S \in SUBSET Proc : dest \in S /\ SendClosed(S) => src \in S

(* Mutant: send_msg does not look at whom the receiver waits for.          *)
Accepts_Anybody(dest, sender) == RECEIVING \in p_flags[dest]

Accepts(dest, sender) ==
  RECEIVING \in p_flags[dest] /\ p_recvfrom[dest] \in {sender, ANY}

-----------------------------------------------------------------------------
(* SEND.  sys_sendrec stamps the caller's own buffer with its number       *)
(* (proc.c:252); send_msg panics if the send would close a cycle.          *)
EnterSend(dest) ==
  /\ pc = "user"
  /\ p_proc_ready \notin Idle
  /\ dest # p_proc_ready
  /\ mail' = [mail EXCEPT ![p_proc_ready] = p_proc_ready]
  /\ peer' = dest
  /\ UNCHANGED p_proc_ready

SendPanics(dest) ==
  /\ EnterSend(dest)
  /\ Deadlock(p_proc_ready, dest)
  /\ pc' = "panic"
  /\ UNCHANGED procVars

SendDirect(dest) ==
  /\ EnterSend(dest)
  /\ ~ Deadlock(p_proc_ready, dest)
  /\ Accepts(dest, p_proc_ready)
  /\ pc' = "send_assert"
  /\ UNCHANGED procVars

(* Mutant: a sender goes to the head of the queue.                         *)
SendQueued_First(dest) ==
  /\ EnterSend(dest)
  /\ ~ Deadlock(p_proc_ready, dest)
  /\ ~ Accepts(dest, p_proc_ready)
  /\ p_flags' = [p_flags EXCEPT ![p_proc_ready] = @ \cup {SENDING}]
  /\ p_sendto' = [p_sendto EXCEPT ![p_proc_ready] = dest]
  /\ p_msg' = [p_msg EXCEPT ![p_proc_ready] = TRUE]
  /\ q_sending' = [q_sending EXCEPT ![dest] = <<p_proc_ready>> \o @]
  /\ pc' = "send_block"
  /\ UNCHANGED <<p_recvfrom, has_int_msg>>

SendQueued(dest) ==
  /\ EnterSend(dest)
  /\ ~ Deadlock(p_proc_ready, dest)
  /\ ~ Accepts(dest, p_proc_ready)
  /\ p_flags' = [p_flags EXCEPT ![p_proc_ready] = @ \cup {SENDING}]
  /\ p_sendto' = [p_sendto EXCEPT ![p_proc_ready] = dest]
  /\ p_msg' = [p_msg EXCEPT ![p_proc_ready] = TRUE]
  /\ q_sending' = [q_sending EXCEPT ![dest] = Append(@, p_proc_ready)]
  /\ pc' = "send_block"
  /\ UNCHANGED <<p_recvfrom, has_int_msg>>

(* assert(p_dest->p_msg), proc.c:97.                                       *)
SendAssert ==
  /\ pc = "send_assert"
  /\ pc' = IF p_msg[peer] THEN "send_copy" ELSE "assert"
  /\ UNCHANGED <<procVars, mail, p_proc_ready, peer>>

(* phy_cpy, proc.c:100: with p_msg null the copy lands at address 0 of the *)
(* receiver's segment, not in its buffer.                                  *)
SendCopy ==
  /\ pc = "send_copy"
  /\ mail' = IF p_msg[peer] THEN [mail EXCEPT ![peer] = p_proc_ready] ELSE mail
  /\ pc' = "send_clear"
  /\ UNCHANGED <<procVars, p_proc_ready, peer>>

(* Mutant: the receiver keeps its buffer pointer.                          *)
SendClear_KeepsBuffer ==
  /\ pc = "send_clear"
  /\ pc' = "send_wake"
  /\ UNCHANGED <<procVars, mail, p_proc_ready, peer>>

SendClear ==
  /\ pc = "send_clear"
  /\ p_msg' = [p_msg EXCEPT ![peer] = FALSE]
  /\ pc' = "send_wake"
  /\ UNCHANGED <<p_flags, p_recvfrom, p_sendto, has_int_msg, q_sending,
                 mail, p_proc_ready, peer>>

(* What send_msg asserts of the two processes when it is done, 105-113.    *)
Settled(p) == /\ p_flags'[p] = {} /\ p_recvfrom'[p] = NO_TASK
              /\ ~ p_msg[p] /\ p_sendto[p] = NO_TASK

(* Mutant: p_recvfrom is not reset, and nobody asserts that it is.         *)
SendWake_KeepsRecvfrom ==
  /\ pc = "send_wake"
  /\ p_flags' = [p_flags EXCEPT ![peer] = @ \ {RECEIVING}]
  /\ pc' = "user"
  /\ UNCHANGED <<p_msg, p_recvfrom, p_sendto, has_int_msg, q_sending,
                 mail, p_proc_ready, peer>>

SendWake ==
  /\ pc = "send_wake"
  /\ p_flags' = [p_flags EXCEPT ![peer] = @ \ {RECEIVING}]
  /\ p_recvfrom' = [p_recvfrom EXCEPT ![peer] = NO_TASK]
  /\ pc' = IF Settled(peer) /\ Settled(p_proc_ready) THEN "user" ELSE "assert"
  /\ UNCHANGED <<p_msg, p_sendto, has_int_msg, q_sending,
                 mail, p_proc_ready, peer>>

-----------------------------------------------------------------------------
(* RECEIVE.  A pending notification is taken first when the caller asks    *)
(* for ANY or INTERRUPT; then a queued sender; else the caller blocks.     *)
EnterReceive(src) ==
  /\ pc = "user"
  /\ p_proc_ready \notin Idle
  /\ src # p_proc_ready
  /\ peer' = src
  /\ UNCHANGED p_proc_ready

(* Mutant: only RECEIVE from INTERRUPT takes a pending notification.       *)
TakesInterrupt_NotAny(src) == has_int_msg[p_proc_ready] /\ src = INTERRUPT

TakesInterrupt(src) == has_int_msg[p_proc_ready] /\ src \in {ANY, INTERRUPT}

(* proc.c:173-213.  For src = INTERRUPT the code looks at                  *)
(* proc_table[-10], memory no process table entry occupies.                *)
HasSender(src) ==
  IF src = ANY THEN q_sending[p_proc_ready] # <<>>
  ELSE /\ src \in Proc
       /\ SENDING \in p_flags[src] /\ p_sendto[src] = p_proc_ready

(* Mutant: the notification is handed over without its source.             *)
RecvInterrupt_NoSource(src) ==
  /\ EnterReceive(src)
  /\ TakesInterrupt(src)
  /\ mail' = [mail EXCEPT ![p_proc_ready] = NO_TASK]
  /\ has_int_msg' = [has_int_msg EXCEPT ![p_proc_ready] = FALSE]
  /\ UNCHANGED <<p_flags, p_msg, p_recvfrom, p_sendto, q_sending, pc>>

RecvInterrupt(src) ==
  /\ EnterReceive(src)
  /\ TakesInterrupt(src)
  /\ mail' = [mail EXCEPT ![p_proc_ready] = INTERRUPT]
  /\ has_int_msg' = [has_int_msg EXCEPT ![p_proc_ready] = FALSE]
  /\ UNCHANGED <<p_flags, p_msg, p_recvfrom, p_sendto, q_sending, pc>>

(* Mutant: the head of the queue is removed, whoever was taken.            *)
RecvCopy_DropsHead(src) ==
  /\ EnterReceive(src)
  /\ ~ TakesInterrupt(src)
  /\ HasSender(src)
  /\ \E i \in DOMAIN q_sending[p_proc_ready] :
       LET from == q_sending[p_proc_ready][i] IN
       /\ IF src = ANY THEN i = 1 ELSE from = src
       /\ q_sending' = [q_sending EXCEPT ![p_proc_ready] = Tail(@)]
       /\ mail' = [mail EXCEPT ![p_proc_ready] = from]
       /\ p_msg' = [p_msg EXCEPT ![from] = FALSE]
       /\ p_sendto' = [p_sendto EXCEPT ![from] = NO_TASK]
       /\ p_flags' = [p_flags EXCEPT ![from] = @ \ {SENDING}]
  /\ UNCHANGED <<p_recvfrom, has_int_msg, pc>>

RecvCopy(src) ==
  /\ EnterReceive(src)
  /\ ~ TakesInterrupt(src)
  /\ HasSender(src)
  /\ \E i \in DOMAIN q_sending[p_proc_ready] :
       LET from == q_sending[p_proc_ready][i] IN
       /\ IF src = ANY THEN i = 1 ELSE from = src
       /\ q_sending' = [q_sending EXCEPT ![p_proc_ready] = RemoveAt(@, i)]
       /\ mail' = [mail EXCEPT ![p_proc_ready] = from]
       /\ p_msg' = [p_msg EXCEPT ![from] = FALSE]
       /\ p_sendto' = [p_sendto EXCEPT ![from] = NO_TASK]
       /\ p_flags' = [p_flags EXCEPT ![from] = @ \ {SENDING}]
  /\ UNCHANGED <<p_recvfrom, has_int_msg, pc>>

RecvMustWait(src) ==
  /\ EnterReceive(src)
  /\ ~ TakesInterrupt(src)
  /\ ~ HasSender(src)
  /\ mail' = [mail EXCEPT ![p_proc_ready] = p_proc_ready]
  /\ pc' = "recv_setflag"
  /\ UNCHANGED procVars

RecvSetFlag ==
  /\ pc = "recv_setflag"
  /\ p_flags' = [p_flags EXCEPT ![p_proc_ready] = @ \cup {RECEIVING}]
  /\ p_msg' = [p_msg EXCEPT ![p_proc_ready] = TRUE]
  /\ pc' = "recv_setfrom"
  /\ UNCHANGED <<p_recvfrom, p_sendto, has_int_msg, q_sending,
                 mail, p_proc_ready, peer>>

RecvSetFrom ==
  /\ pc = "recv_setfrom"
  /\ p_recvfrom' = [p_recvfrom EXCEPT ![p_proc_ready] = peer]
  /\ pc' = "recv_block"
  /\ UNCHANGED <<p_flags, p_msg, p_sendto, has_int_msg, q_sending,
                 mail, p_proc_ready, peer>>

-----------------------------------------------------------------------------
(* block(): assert(p->p_flags), then schedule() picks a runnable process;  *)
(* a sender's asserts 133-136 follow.                                      *)
BlockHolds ==
  /\ p_flags[p_proc_ready] # {}
  /\ pc = "send_block" =>
       /\ p_flags[p_proc_ready] = {SENDING} /\ p_msg[p_proc_ready]
       /\ p_sendto[p_proc_ready] = peer /\ p_recvfrom[p_proc_ready] = NO_TASK

Block ==
  /\ pc \in BlockSteps
  /\ BlockHolds
  /\ \E p \in Proc : Runnable(p) /\ p_proc_ready' = p
  /\ pc' = "user"
  /\ UNCHANGED <<procVars, mail, peer>>

BlockAsserts ==
  /\ pc \in BlockSteps
  /\ ~ BlockHolds
  /\ pc' = "assert"
  /\ UNCHANGED <<procVars, mail, p_proc_ready, peer>>

(* The clock interrupt reschedules, at user level only.                    *)
Preempt ==
  /\ pc = "user"
  /\ \E p \in Proc : Runnable(p) /\ p_proc_ready' = p
  /\ UNCHANGED <<procVars, mail, pc, peer>>

(* info_task, called by the clock for the TTY and by the disk interrupt    *)
(* for HD, at any moment.  It may write through a null p_msg, and then the *)
(* buffer does not change.                                                 *)
InfoTask(t) ==
  /\ pc \notin StopSteps
  /\ IF p_flags[t] = {RECEIVING} /\ p_recvfrom[t] \in {INTERRUPT, ANY}
     THEN /\ p_flags' = [p_flags EXCEPT ![t] = {}]
          /\ mail' = IF p_msg[t] THEN [mail EXCEPT ![t] = INTERRUPT] ELSE mail
          /\ p_msg' = [p_msg EXCEPT ![t] = FALSE]
          /\ p_recvfrom' = [p_recvfrom EXCEPT ![t] = NO_TASK]
          /\ p_sendto' = [p_sendto EXCEPT ![t] = NO_TASK]
          /\ has_int_msg' = [has_int_msg EXCEPT ![t] = FALSE]
     ELSE /\ has_int_msg' = [has_int_msg EXCEPT ![t] = TRUE]
          /\ UNCHANGED <<p_flags, mail, p_msg, p_recvfrom, p_sendto>>
  /\ UNCHANGED <<q_sending, p_proc_ready, pc, peer>>

-----------------------------------------------------------------------------
Sends == \E dest \in Proc : SendPanics(dest) \/ SendDirect(dest) \/ SendQueued(dest)
Receives == \E src \in Proc \cup {ANY, INTERRUPT} :
              RecvInterrupt(src) \/ RecvCopy(src) \/ RecvMustWait(src)
KernelStep == \/ SendAssert \/ SendCopy \/ SendClear \/ SendWake
              \/ RecvSetFlag \/ RecvSetFrom
              \/ Block \/ BlockAsserts

Next == \/ Sends \/ Receives \/ KernelStep \/ Preempt
        \/ \E t \in Drivers : InfoTask(t)

Spec == Init /\ [][Next]_vars /\ WF_vars(KernelStep)

-----------------------------------------------------------------------------
(* The moments at which an interrupt for t meets a half-done call: t is    *)
(* about to block for a notification it no longer looks for, or a sender   *)
(* has already decided that t is waiting for it.                           *)
InWindow(t) ==
  \/ /\ pc \in RecvSteps \cup {"recv_block"}
     /\ t = p_proc_ready /\ peer \in {ANY, INTERRUPT}
  \/ pc \in SendSteps /\ t = peer

(* The kernel when no interrupt falls into such a moment.                  *)
QuietNext == \/ Sends \/ Receives \/ KernelStep \/ Preempt
             \/ \E t \in Drivers : ~ InWindow(t) /\ InfoTask(t)

QuietSpec == Init /\ [][QuietNext]_vars /\ WF_vars(KernelStep)

-----------------------------------------------------------------------------
(* Every process is in one of three states and its fields agree with it,   *)
(* which is what send_msg and recv_msg assert of the other process before  *)
(* they touch it (proc.c:105-113, 165-168, 177-185, 204-211).              *)
ProcShape(p) ==
  \/ /\ p_flags[p] = {}
     /\ ~ p_msg[p] /\ p_sendto[p] = NO_TASK
     /\ p_recvfrom[p] # NO_TASK => pc = "send_wake" /\ p = peer
  \/ /\ p_flags[p] = {SENDING}
     /\ p_msg[p] /\ p_sendto[p] \in Proc \ {p} /\ p_recvfrom[p] = NO_TASK
  \/ /\ p_flags[p] = {RECEIVING}
     /\ p_sendto[p] = NO_TASK /\ p_recvfrom[p] # p
     /\ ~ p_msg[p] => pc = "send_wake" /\ p = peer
     /\ p_recvfrom[p] = NO_TASK => pc = "recv_setfrom" /\ p = p_proc_ready

(* The processor is never given to a blocked process, and a call that is   *)
(* not yet blocking serves a caller that could go on.                      *)
CallerShape ==
  /\ pc \in {"user", "panic", "recv_setflag"} \cup SendSteps
       => p_flags[p_proc_ready] = {}
  /\ pc = "send_block" =>
       p_flags[p_proc_ready] = {SENDING} /\ p_sendto[p_proc_ready] = peer
  /\ pc = "recv_setfrom" =>
       p_flags[p_proc_ready] = {RECEIVING} /\ p_recvfrom[p_proc_ready] = NO_TASK
  /\ pc = "recv_block" => SENDING \notin p_flags[p_proc_ready]
  /\ pc \in SendSteps =>
       peer \in Proc \ {p_proc_ready} /\ SENDING \notin p_flags[peer]
  /\ pc = "send_wake" => ~ p_msg[peer]
  /\ pc \in RecvSteps =>
       peer \in (Proc \cup {ANY, INTERRUPT}) \ {p_proc_ready}

(* The asserts of proc.c hold whenever the kernel tests or relies on them, *)
(* the two an interrupt can break apart (SendAssert, BlockAsserts).        *)
Consistent == CallerShape /\ \A p \in Proc : ProcShape(p)

(* A process is in the queue of d exactly while it is blocked sending to   *)
(* d, and only once: recv_msg, which finds the sender by its flags and     *)
(* then walks the queue for it (proc.c:191-203), always meets it.          *)
SendQueueExact ==
  /\ \A d, s \in Proc :
       s \in ToSet(q_sending[d]) <=> SENDING \in p_flags[s] /\ p_sendto[s] = d
  /\ \A d \in Proc : \A i, j \in DOMAIN q_sending[d] :
       q_sending[d][i] = q_sending[d][j] => i = j

(* Blocked senders never wait on one another in a circle, whatever the     *)
(* order of the sends: the test in send_msg (proc.c:91) is enough, and the *)
(* walk in deadlock(), which has no other way out, always ends.            *)
NoSendCycle ==
  \A S \in (SUBSET Proc) \ {{}} :
    \E p \in S : SENDING \in p_flags[p] => p_sendto[p] \notin S

(* deadlock() as the loop of proc.c:67-79: hop n of the walk from dest.    *)
(* It answers 1 when some hop sends to src, and ends within as many hops   *)
(* as there are processes.                                                 *)
Hops(dest) ==
  LET hop[n \in 0..Cardinality(Proc)] ==
        IF n = 0 THEN dest
        ELSE IF SENDING \in p_flags[hop[n - 1]] THEN p_sendto[hop[n - 1]]
        ELSE hop[n - 1]
  IN hop

(* At every send the loop's answer is the one Deadlock gives.              *)
WalkAgrees ==
  pc = "user" =>
    \A dest \in Proc \ {p_proc_ready} :
      LET hop == Hops(dest)
          N == Cardinality(Proc)
      IN /\ SENDING \notin p_flags[hop[N]]
         /\ Deadlock(p_proc_ready, dest)
              <=> \E n \in 1..N : hop[n] = p_proc_ready /\ hop[n - 1] # hop[n]

(* When a call ends, the message is where it should be: a blocked sender   *)
(* is released only by its receiver, with its message in the receiver's    *)
(* buffer, and a direct send returns with the message delivered.  A        *)
(* blocked receiver wakes up only with a message it asked for.  Receivers  *)
(* that take no interrupts; QuietSpec extends it to the drivers.           *)
DeliveredTo(d) ==
  /\ \A s \in Proc :
       p_sendto[s] = d /\ p_sendto'[s] # d => mail'[d] = s /\ p_proc_ready = d
  /\ pc = "send_wake" /\ pc' = "user" /\ peer = d => mail[d] = p_proc_ready
  /\ RECEIVING \in p_flags[d] /\ RECEIVING \notin p_flags'[d]
       => mail'[d] # d /\ p_recvfrom[d] \in {mail'[d], ANY}

Delivered == [][\A d \in Proc \ Drivers : DeliveredTo(d)]_vars

-----------------------------------------------------------------------------
(* A task that sleeps until it is notified has no notification pending:    *)
(* otherwise the wake-up it waits for has already come and gone.           *)
NoLostWakeup ==
  \A t \in Drivers :
    /\ p_flags[t] = {RECEIVING} /\ p_recvfrom[t] \in {ANY, INTERRUPT}
    /\ ~ (pc \in SendSteps /\ t = peer)
    => ~ has_int_msg[t]

(* No kernel assert fails.                                                 *)
NoAssertFails == pc # "assert"

(* Nobody who sends to a process that goes on taking messages from ANY is  *)
(* overtaken for ever: he gets to the head of its queue (proc.c:118-131)   *)
(* and his message is taken, however often the others send and whomever    *)
(* else it receives from in between.                                       *)
SendsTaken ==
  \A d, s \in Proc :
    []<><<RecvCopy(ANY) /\ p_proc_ready = d>>_vars
      => (p_sendto[s] = d ~> p_sendto[s] # d)

-----------------------------------------------------------------------------
(* The kernel implements Rendezvous, outside the windows: the message      *)
(* changes hands at SendCopy, when the receiver still looks blocked, and a *)
(* receiver waits from the moment it says for whom.                        *)
Handed(p) == pc \in {"send_clear", "send_wake"} /\ p = peer

ModeOf(p) ==
  IF SENDING \in p_flags[p] THEN "sending"
  ELSE IF RECEIVING \in p_flags[p] /\ p_recvfrom[p] # NO_TASK /\ ~ Handed(p)
       THEN "receiving"
  ELSE "ready"

PartnerOf(p) == CASE ModeOf(p) = "sending" -> p_sendto[p]
                  [] ModeOf(p) = "receiving" -> p_recvfrom[p]
                  [] OTHER -> NO_TASK

R == INSTANCE Rendezvous WITH mode <- [p \in Proc |-> ModeOf(p)],
                              partner <- [p \in Proc |-> PartnerOf(p)],
                              waiting <- q_sending,
                              notified <- has_int_msg

(* The kernel's steps are steps of the rendezvous or invisible to it.      *)
ImplementsRendezvous == R!Spec
=============================================================================
