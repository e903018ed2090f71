--------------------------------- MODULE Mm ---------------------------------
(***************************************************************************)
(* Process creation and death: the memory manager task (mm/mm.c,           *)
(* mm/forkexit.c, mm/exit.c, mm/exec.c), its callers (lib/usr) and the     *)
(* process table they share.  A caller runs send_recv(BOTH, TASK_MM, ...), *)
(* that is a SEND and then a RECEIVE, and is in neither between them;      *)
(* the manager reads and writes the entry of the caller, and of its        *)
(* parent and children, directly.  Calls into the kernel are atomic here:  *)
(* only driver tasks are told of interrupts, see module Ipc.  The manager  *)
(* asks the file system along the way; FS always answers and touches       *)
(* nothing of this module.                                                 *)
(***************************************************************************)
EXTENDS Naturals, Sequences, FiniteSets

CONSTANTS
  NSLOT,    \* entries of the process table above the native ones
  Types,    \* the calls processes make
  Execs     \* the processes whose program calls exec()

ASSUME MmAssumption ==
  /\ NSLOT \in Nat \ {0}
  /\ Types \subseteq {"FORK", "WAIT", "EXIT", "EXEC"}

PROC_INIT == 0
Slots == 1..NSLOT
Pid == {PROC_INIT} \cup Slots
NO_TASK == NSLOT + 1

Flags == {"SENDING", "RECEIVING", "WAITING", "HANGING", "FREE_SLOT"}
Calls(u) == Types \ ((IF u = PROC_INIT THEN {"EXIT"} ELSE {})
                     \cup (IF u \in Execs THEN {} ELSE {"EXEC"}))

(* Messages: the type, the return value, a pid.  What a request leaves     *)
(* unset is whatever was on the caller's stack; nothing below reads it.    *)
Request(t) == [type |-> t, RETVAL |-> 0, PID |-> NO_TASK]
Answer(retval, pid) == [type |-> "SYSCALL_RET", RETVAL |-> retval, PID |-> pid]
Blank == Answer(0, NO_TASK)
Failure == 1          \* stands for -1
Message == [type : {"FORK", "WAIT", "EXIT", "EXEC", "SYSCALL_RET"},
            RETVAL : {0, Failure}, PID : Pid \cup {NO_TASK}]

VARIABLES
  p_flags, p_parent,  \* of the process table
  at,                 \* where a process resumes: "user", "receive" (second half
                      \* of BOTH), "reply" (back from it), "spins" (failed assert)
  call,               \* the call it is in
  msg,                \* its message buffer
  q_sending,          \* the callers queued at the manager
  mm_pc, src, pid,    \* the manager: where it is, its caller, the process it handles
  to, out, resume,    \* its SEND under way: to whom, what, and where it goes on
  answer,             \* mm_msg as it will be sent back
  seen,               \* p_flags as loaded by a read-modify-write
  halted              \* panic(): the machine has stopped

table == <<p_flags, p_parent>>
users == <<at, call, msg>>
mm == <<mm_pc, src, pid, to, out, resume, answer, seen>>
vars == <<table, users, q_sending, mm, halted>>

(* kernel_main, main.c:74-152: Init runs, the other entries are free; their *)
(* p_parent is 0, a task that neither forks nor waits, here NO_TASK.       *)
Init ==
  /\ p_flags = [p \in Pid |-> IF p = PROC_INIT THEN {} ELSE {"FREE_SLOT"}]
  /\ p_parent = [p \in Pid |-> NO_TASK]
  /\ at = [p \in Pid |-> "user"]
  /\ call = [p \in Pid |-> "none"]
  /\ msg = [p \in Pid |-> Blank]
  /\ q_sending = <<>>
  /\ mm_pc = "loop"
  /\ src = PROC_INIT /\ pid = PROC_INIT /\ to = PROC_INIT
  /\ out = Blank /\ answer = Blank
  /\ resume = "loop"
  /\ seen = {}
  /\ halted = FALSE

Running(u) == ~ halted /\ p_flags[u] = {}
Least(S) == CHOOSE i \in S : \A j \in S : i <= j
Children(u) == {i \in Slots : p_parent[i] = u}   \* free entries keep their last parent
First(t) == CASE t = "FORK" -> "fork" [] t = "WAIT" -> "wait"
              [] t = "EXIT" -> "exit" [] t = "EXEC" -> "exec"

-----------------------------------------------------------------------------
(* The callers.                                                            *)

(* SEND to the manager: it panics when the manager is sending to the       *)
(* caller, hands the request over when it waits for one, else queues.      *)
SendCall(u, t) ==
  /\ Running(u) /\ at[u] = "user" /\ t \in Calls(u)
  /\ IF mm_pc = "sending" /\ to = u
     THEN /\ halted' = TRUE
          /\ UNCHANGED <<table, users, q_sending, mm>>
     ELSE /\ at' = [at EXCEPT ![u] = "receive"]
          /\ call' = [call EXCEPT ![u] = t]
          /\ msg' = [msg EXCEPT ![u] = Request(t)]
          /\ IF mm_pc = "receiving"
             THEN /\ src' = u /\ mm_pc' = First(t)
                  /\ UNCHANGED <<p_flags, q_sending>>
             ELSE /\ p_flags' = [p_flags EXCEPT ![u] = {"SENDING"}]
                  /\ q_sending' = Append(q_sending, u)
                  /\ UNCHANGED <<src, mm_pc>>
          /\ UNCHANGED <<p_parent, pid, to, out, resume, answer, seen, halted>>

(* RECEIVE from the manager: take what it is sending, or block.            *)
ReceiveAnswer(u) ==
  /\ Running(u) /\ at[u] = "receive"
  /\ at' = [at EXCEPT ![u] = "reply"]
  /\ IF mm_pc = "sending" /\ to = u
     THEN /\ msg' = [msg EXCEPT ![u] = out]
          /\ mm_pc' = resume
          /\ UNCHANGED p_flags
     ELSE /\ p_flags' = [p_flags EXCEPT ![u] = {"RECEIVING"}]
          /\ UNCHANGED <<msg, mm_pc>>
  /\ UNCHANGED <<p_parent, call, q_sending, src, pid, to, out, resume, answer,
                 seen, halted>>

(* Back in the library function, which asserts what it expects; its        *)
(* message is a local variable.                                            *)
Accepted(t, m) ==
  \/ t = "FORK" /\ m.type = "SYSCALL_RET" /\ m.RETVAL = 0
  \/ t = "EXEC" /\ m.type = "SYSCALL_RET"
  \/ t = "WAIT"

Return(u) ==
  /\ Running(u) /\ at[u] = "reply"
  /\ at' = [at EXCEPT ![u] = IF Accepted(call[u], msg[u]) THEN "user" ELSE "spins"]
  /\ call' = [call EXCEPT ![u] = "none"]
  /\ msg' = [msg EXCEPT ![u] = Blank]
  /\ UNCHANGED <<table, q_sending, mm, halted>>

-----------------------------------------------------------------------------
(* The manager's loop and its SEND.                                        *)

(* RECEIVE; the locals of the previous request are gone.                   *)
TakeRequest ==
  /\ mm_pc = "loop" /\ ~ halted
  /\ IF q_sending = <<>>
     THEN /\ mm_pc' = "receiving"
          /\ src' = PROC_INIT
          /\ UNCHANGED <<p_flags, q_sending>>
     ELSE /\ src' = Head(q_sending)
          /\ q_sending' = Tail(q_sending)
          /\ mm_pc' = First(msg[src'].type)
          /\ p_flags' = [p_flags EXCEPT ![src'] = @ \ {"SENDING"}]
  /\ pid' = PROC_INIT /\ to' = PROC_INIT /\ resume' = "loop"
  /\ out' = Blank /\ answer' = Blank
  /\ UNCHANGED <<p_parent, users, seen, halted>>

(* Set up a SEND; after it the manager goes on at next.                    *)
Sending(d, m, next) ==
  /\ to' = d /\ out' = m /\ resume' = next
  /\ mm_pc' = "send"

Send ==
  /\ mm_pc = "send" /\ ~ halted
  /\ IF "SENDING" \in p_flags[to]
     THEN halted' = TRUE /\ UNCHANGED <<p_flags, msg, mm_pc>>
     ELSE IF "RECEIVING" \in p_flags[to]
     THEN /\ msg' = [msg EXCEPT ![to] = out]
          /\ p_flags' = [p_flags EXCEPT ![to] = @ \ {"RECEIVING"}]
          /\ halted' = (p_flags'[to] # {})          \* unblock: assert
          /\ mm_pc' = resume
     ELSE mm_pc' = "sending" /\ UNCHANGED <<p_flags, msg, halted>>
  /\ UNCHANGED <<p_parent, at, call, q_sending, src, pid, to, out, resume,
                 answer, seen>>

Reply ==
  /\ mm_pc = "reply" /\ ~ halted
  /\ Sending(src, answer, "loop")
  /\ UNCHANGED <<table, users, q_sending, src, pid, answer, seen, halted>>

(* Mutant: FREE_SLOT is set beside the other flags.                        *)
Clean_Adds(p, flags, next) ==
  /\ p_flags' = [flags EXCEPT ![p] = @ \cup {"FREE_SLOT"}]
  /\ Sending(p_parent[p], Answer(0, p), next)

(* Release the entry p and tell its parent.                                *)
Clean(p, flags, next) ==
  /\ p_flags' = [flags EXCEPT ![p] = {"FREE_SLOT"}]
  /\ Sending(p_parent[p], Answer(0, p), next)

-----------------------------------------------------------------------------
(* The manager begins with a request.  It does not look whether its        *)
(* caller has reached the second half of BOTH: one whose request was       *)
(* queued is runnable again, and no more, when the manager takes it.       *)
Serving(what) == mm_pc = what /\ ~ halted

(* do_fork.  The entry is copied byte by byte, the registers before the    *)
(* flags, while the parent may be running.                                 *)
Free == {i \in Slots : p_flags[i] = {"FREE_SLOT"}}

(* Mutant: the index behind the table is returned, not -1.                 *)
ForkFull_Index ==
  /\ Serving("fork") /\ Free = {}
  /\ answer' = Answer(NSLOT + 1, NO_TASK)
  /\ mm_pc' = "reply"
  /\ UNCHANGED <<table, users, q_sending, src, pid, to, out, resume, seen, halted>>

ForkFull ==
  /\ Serving("fork") /\ Free = {}
  /\ answer' = Answer(Failure, NO_TASK)
  /\ mm_pc' = "reply"
  /\ UNCHANGED <<table, users, q_sending, src, pid, to, out, resume, seen, halted>>

ForkRegs ==
  /\ Serving("fork") /\ Free # {}
  /\ pid' = Least(Free)
  /\ at' = [at EXCEPT ![pid'] = at[src]]
  /\ call' = [call EXCEPT ![pid'] = call[src]]
  /\ mm_pc' = "fork_flags"
  /\ UNCHANGED <<table, msg, q_sending, src, to, out, resume, answer, seen, halted>>

(* Mutant: the entry is copied whole, its parent too.                      *)
ForkFlags_KeepsParent ==
  /\ mm_pc = "fork_flags" /\ ~ halted
  /\ p_flags' = [p_flags EXCEPT ![pid] = p_flags[src]]
  /\ p_parent' = [p_parent EXCEPT ![pid] = p_parent[src]]
  /\ mm_pc' = "fork_space"
  /\ UNCHANGED <<users, q_sending, src, pid, to, out, resume, answer, seen, halted>>

ForkFlags ==
  /\ mm_pc = "fork_flags" /\ ~ halted
  /\ p_flags' = [p_flags EXCEPT ![pid] = p_flags[src]]
  /\ p_parent' = [p_parent EXCEPT ![pid] = src]
  /\ mm_pc' = "fork_space"
  /\ UNCHANGED <<users, q_sending, src, pid, to, out, resume, answer, seen, halted>>

(* Copy the memory, give the child its own segments, tell FS; then answer  *)
(* the child.                                                              *)
ForkSpace ==
  /\ mm_pc = "fork_space" /\ ~ halted
  /\ msg' = [msg EXCEPT ![pid] = msg[src]]
  /\ answer' = Answer(0, pid)
  /\ Sending(pid, Answer(0, PROC_INIT), "reply")    \* PID 0: this is the child
  /\ UNCHANGED <<table, at, call, q_sending, src, pid, seen, halted>>

(* do_exit: FS drops its files; a waiting parent is told, otherwise the    *)
(* process hangs; then its children go to Init.                            *)
Exit ==
  /\ Serving("exit")
  /\ pid' = src
  /\ LET parent == p_parent[src] IN
     IF "WAITING" \in p_flags[parent]
     THEN Clean(src, [p_flags EXCEPT ![parent] = @ \ {"WAITING"}], "orphans")
     ELSE /\ p_flags' = [p_flags EXCEPT ![src] = @ \cup {"HANGING"}]
          /\ mm_pc' = "orphans"
          /\ UNCHANGED <<to, out, resume>>
  /\ UNCHANGED <<p_parent, users, q_sending, src, answer, seen, halted>>

(* Mutant: Init adopts without looking whether it waits.                   *)
Orphan_OnlyAdopts ==
  /\ mm_pc = "orphans" /\ ~ halted /\ Children(pid) # {}
  /\ p_parent' = [p_parent EXCEPT ![Least(Children(pid))] = PROC_INIT]
  /\ UNCHANGED <<p_flags, to, out, resume, mm_pc>>
  /\ UNCHANGED <<users, q_sending, src, pid, answer, seen, halted>>

Orphan ==
  /\ mm_pc = "orphans" /\ ~ halted /\ Children(pid) # {}
  /\ LET i == Least(Children(pid)) IN
     /\ p_parent' = [p_parent EXCEPT ![i] = PROC_INIT]
     /\ IF "HANGING" \in p_flags[i] /\ "WAITING" \in p_flags[PROC_INIT]
        THEN /\ p_flags' = [p_flags EXCEPT ![PROC_INIT] = @ \ {"WAITING"},
                                           ![i] = {"FREE_SLOT"}]
             /\ Sending(PROC_INIT, Answer(0, i), "orphans")
        ELSE UNCHANGED <<p_flags, to, out, resume, mm_pc>>
  /\ UNCHANGED <<users, q_sending, src, pid, answer, seen, halted>>

OrphansDone ==
  /\ mm_pc = "orphans" /\ ~ halted /\ Children(pid) = {}
  /\ mm_pc' = "loop"
  /\ UNCHANGED <<table, users, q_sending, src, pid, to, out, resume, answer,
                 seen, halted>>

-----------------------------------------------------------------------------
(* do_wait: reap a child that hangs, else wait for one, else fail.         *)
Hanging(u) == {i \in Children(u) : "HANGING" \in p_flags[i]}

WaitReap ==
  /\ Serving("wait") /\ Hanging(src) # {}
  /\ Clean(Least(Hanging(src)), p_flags, "loop")
  /\ UNCHANGED <<p_parent, users, q_sending, src, pid, answer, seen, halted>>

(* p_flags |= WAITING, a load and a store.                                 *)
WaitLoad ==
  /\ Serving("wait") /\ Hanging(src) = {} /\ Children(src) # {}
  /\ seen' = p_flags[src]
  /\ mm_pc' = "wait_store"
  /\ UNCHANGED <<table, users, q_sending, src, pid, to, out, resume, answer, halted>>

WaitStore ==
  /\ mm_pc = "wait_store" /\ ~ halted
  /\ p_flags' = [p_flags EXCEPT ![src] = seen \cup {"WAITING"}]
  /\ seen' = {}
  /\ mm_pc' = "loop"
  /\ UNCHANGED <<p_parent, users, q_sending, src, pid, to, out, resume, answer, halted>>

WaitNone ==
  /\ Serving("wait") /\ Children(src) = {}
  /\ Sending(src, Answer(0, NO_TASK), "loop")
  /\ UNCHANGED <<table, users, q_sending, src, pid, answer, seen, halted>>

(* do_exec: the file may be missing; else the caller's registers are       *)
(* rewritten so that it resumes in the new program.                        *)
ExecFails ==
  /\ Serving("exec")
  /\ answer' = Answer(Failure, NO_TASK)
  /\ mm_pc' = "reply"
  /\ UNCHANGED <<table, users, q_sending, src, pid, to, out, resume, seen, halted>>

ExecLoads ==
  /\ Serving("exec")
  /\ at' = [at EXCEPT ![src] = "user"]
  /\ call' = [call EXCEPT ![src] = "none"]
  /\ answer' = Answer(0, NO_TASK)
  /\ mm_pc' = "reply"
  /\ UNCHANGED <<table, msg, q_sending, src, pid, to, out, resume, seen, halted>>

-----------------------------------------------------------------------------
Serve == ForkFull \/ ForkRegs \/ Exit \/ WaitReap \/ WaitLoad \/ WaitNone
         \/ ExecFails \/ ExecLoads
Manager == TakeRequest \/ Send \/ Reply \/ Serve \/ ForkFlags \/ ForkSpace
           \/ Orphan \/ OrphansDone \/ WaitStore
User(u) == (\E t \in Calls(u) : SendCall(u, t)) \/ ReceiveAnswer(u) \/ Return(u)

Next == Manager \/ \E u \in Pid : User(u)

Spec == Init /\ [][Next]_vars

-----------------------------------------------------------------------------
TypeOK ==
  /\ p_flags \in [Pid -> SUBSET Flags]
  /\ p_parent \in [Pid -> Pid \cup {NO_TASK}]
  /\ at \in [Pid -> {"user", "receive", "reply", "spins"}]
  /\ call \in [Pid -> {"FORK", "WAIT", "EXIT", "EXEC", "none"}]
  /\ msg \in [Pid -> Message]
  /\ q_sending \in Seq(Pid)
  /\ mm_pc \in {"loop", "receiving", "fork", "fork_flags", "fork_space", "exit",
                "orphans", "wait", "wait_store", "exec", "reply", "send", "sending"}
  /\ src \in Pid /\ pid \in Pid /\ to \in Pid
  /\ out \in Message /\ answer \in Message
  /\ resume \in {"loop", "reply", "orphans"}
  /\ seen \in SUBSET Flags
  /\ halted \in BOOLEAN

(* do_exit has not yet found new parents for the children of p.            *)
Leaving(p) == /\ pid = p
              /\ \/ mm_pc = "orphans"
                 \/ mm_pc \in {"send", "sending"} /\ resume = "orphans"

Dead(p) == p_flags[p] \cap {"HANGING", "FREE_SLOT"} # {}

(* A process in the table has a living parent: whoever exits first hands   *)
(* its children, the hanging ones included, to Init (exit.c:44-52).  And   *)
(* none hangs while its parent waits for it: the exit, the wait and the    *)
(* adoption by Init each look at the other side's flag.                    *)
FamiliesWhole ==
  \A i \in Slots :
    /\ "FREE_SLOT" \notin p_flags[i] =>
         /\ p_parent[i] \in Pid
         /\ ~ Dead(p_parent[i]) \/ Leaving(p_parent[i])
    /\ "HANGING" \in p_flags[i] =>
         p_parent[i] = NO_TASK \/ "WAITING" \notin p_flags[p_parent[i]]

(* An entry is released whole, so that do_fork finds it, and only to tell  *)
(* its parent, which is in wait(), that the process is gone.               *)
ReleasedToWaiter ==
  [][\A i \in Slots :
       "FREE_SLOT" \in p_flags'[i] /\ "FREE_SLOT" \notin p_flags[i] =>
         /\ p_flags'[i] = {"FREE_SLOT"}
         /\ "HANGING" \in p_flags[i] \/ call[i] = "EXIT"
         /\ p_parent'[i] \in Pid /\ call[p_parent'[i]] = "WAIT"
         /\ to' = p_parent'[i] /\ out'.PID = i]_vars

(* forkexit.c:78 says of do_fork's last SEND that it unblocks the child    *)
(* and tells it its pid: until then, while its memory is copied and FS     *)
(* counts its files, the child does not run.                               *)
ChildBlockedUntilReply ==
  mm_pc = "fork_space" \/ (mm_pc = "send" /\ resume = "reply") => ~ Running(pid)

(* Although the manager changes the flags of processes that run, between   *)
(* loads and stores and their own system calls, and ends a process in many *)
(* steps with messages in between, fork, exit, adoption and wait are each  *)
(* one step of Family: nobody ends twice, is told of to the wrong parent   *)
(* or is forgotten while somebody waits (do_fork, do_exit, do_wait).       *)
StateOf(p) == IF "FREE_SLOT" \in p_flags[p] THEN "free"
              ELSE IF "HANGING" \in p_flags[p] THEN "dead" ELSE "live"
States == [p \in Pid |-> StateOf(p)]
ParentsInUse == [p \in Pid |-> IF StateOf(p) = "free" THEN NO_TASK ELSE p_parent[p]]
Waiters == {p \in Pid : "WAITING" \in p_flags[p]}
Abs == INSTANCE Family WITH INIT <- PROC_INIT, Nobody <- NO_TASK,
                            state <- States, parent <- ParentsInUse, waiting <- Waiters
ImplementsFamily == Abs!Spec
=============================================================================
