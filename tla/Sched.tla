-------------------------------- MODULE Sched --------------------------------
(***************************************************************************)
(* Which process runs: clock_handler (kernel/clock.c) and schedule         *)
(* (kernel/proc.c:17-34).  A clock tick charges the process that runs.     *)
(* One that comes over a call or another interrupt (k_reenter # 0) only    *)
(* charges; one that comes at user level reschedules when the process has  *)
(* used up its ticks.  schedule() goes over the table entry by entry, with *)
(* interrupts on: a driver may be woken before or behind the entry it has  *)
(* reached, and over a call the clock goes on charging p_proc_ready, which *)
(* is the best entry found so far.  do_fork copies an entry with the ticks *)
(* in it.  Why a process blocks or wakes is module Ipc, which entry the    *)
(* manager writes module Mm; here both are choices.                        *)
(***************************************************************************)
EXTENDS Naturals, Integers, FiniteSets

CONSTANTS NR,         \* the process table has entries 0..NR-1
          priority,   \* the refill of each process, main.c:80,87
          MaxPriority,
          Idle,       \* processes that never block (TestA, TestB, TestC)
          Drivers,    \* those info_task wakes (TASK_TTY, TASK_HD)
          Manager,    \* TASK_MM, which writes the table
          Users,      \* those that fork, exit and wait: Init and the Slots
          Slots,      \* entries that are free at first, main.c:91
          Watched,    \* those whose waits are counted
          MaxDebt     \* bound: how far below zero ticks in calls may charge

Proc == 0..(NR - 1)

ASSUME SchedAssumption ==
  /\ NR \in Nat \ {0}
  /\ MaxPriority \in Nat
  /\ priority \in [Proc -> 1..MaxPriority]
  /\ Idle \subseteq Proc \ Users /\ Idle # {}
  /\ Drivers \subseteq Proc /\ Manager \in Proc
  /\ Users \subseteq Proc /\ Slots \subseteq Users \ {0}
  /\ \A q, c \in Users : priority[q] = priority[c]
  /\ Watched \subseteq Proc
  /\ MaxDebt \in Nat

VARIABLES ticks,         \* ticks[p], as in the process table
          runnable,      \* the processes with p_flags = 0
          free,          \* the entries with p_flags = FREE_SLOT
          p_proc_ready,
          in_call,       \* k_reenter is 0, not -1: a call or a device interrupt
          pc,            \* where the kernel is: "user", "call", "scan",
                         \* "refill" or, after schedule(), "return"
          i,             \* the entry the loop of schedule() is at
          greatest,      \* greatest_ticks of schedule()
          woken,         \* history: the drivers woken since schedule() began
          waited         \* history: user-level ticks p was runnable and passed over,
                         \* since it last ran or was charged

vars == <<ticks, runnable, free, p_proc_ready, in_call, pc, i, greatest, woken, waited>>
table == <<ticks, runnable, free>>
loop == <<i, greatest, woken>>

(* kernel_main, main.c:91-151: at first everybody but the free entries is  *)
(* runnable.                                                               *)
Init ==
  /\ ticks = [p \in Proc |-> IF p \in Slots THEN 0 ELSE priority[p]]
  /\ runnable = Proc \ Slots
  /\ free = Slots
  /\ p_proc_ready = 0
  /\ in_call = FALSE
  /\ pc = "user"
  /\ i = 0
  /\ greatest = 0
  /\ woken = {}
  /\ waited = [p \in Watched |-> 0]

-----------------------------------------------------------------------------
(* schedule()                                                              *)

(* Mutant: every call of schedule() refills.                               *)
StartSchedule_Refills ==
  /\ pc' = "refill"
  /\ i' = 0
  /\ greatest' = 0
  /\ woken' = {}

(* Entered with greatest_ticks = 0.                                        *)
StartSchedule ==
  /\ pc' = "scan"
  /\ i' = 0
  /\ greatest' = 0
  /\ woken' = {}

(* One round of the first loop: an entry that is runnable and has more     *)
(* ticks than any before it is the next to run.                            *)
ScanEntry ==
  /\ pc = "scan" /\ i < NR
  /\ i' = i + 1
  /\ IF i \in runnable /\ ticks[i] > greatest
     THEN greatest' = ticks[i] /\ p_proc_ready' = i
     ELSE UNCHANGED <<greatest, p_proc_ready>>
  /\ UNCHANGED <<table, in_call, pc, woken, waited>>

(* Somebody was found: back to the clock handler, which returns to user    *)
(* level, or to block() and the rest of the call.                          *)
Found ==
  /\ pc = "scan" /\ i = NR /\ greatest > 0
  /\ pc' = IF in_call THEN "return" ELSE "user"
  /\ i' = 0 /\ greatest' = 0 /\ woken' = {}
  /\ waited' = [q \in Watched |-> IF q = p_proc_ready THEN 0 ELSE waited[q]]
  /\ UNCHANGED <<table, p_proc_ready, in_call>>

(* Nobody was: refill, and scan again.                                     *)
NobodyFound ==
  /\ pc = "scan" /\ i = NR /\ greatest = 0
  /\ pc' = "refill"
  /\ i' = 0
  /\ UNCHANGED <<table, p_proc_ready, in_call, greatest, woken, waited>>

RefillEntry ==
  /\ pc = "refill" /\ i < NR
  /\ i' = i + 1
  /\ ticks' = [ticks EXCEPT ![i] = IF i \in runnable THEN priority[i] ELSE @]
  /\ UNCHANGED <<runnable, free, p_proc_ready, in_call, pc, greatest, woken, waited>>

ScanAgain ==
  /\ pc = "refill" /\ i = NR
  /\ pc' = "scan"
  /\ i' = 0
  /\ UNCHANGED <<table, p_proc_ready, in_call, greatest, woken, waited>>

Schedule == ScanEntry \/ Found \/ NobodyFound \/ RefillEntry \/ ScanAgain
-----------------------------------------------------------------------------
(* The clock                                                               *)

Charged == [ticks EXCEPT ![p_proc_ready] = @ - 1]

(* The ticks of one refill of everybody but p.                             *)
Total(f) == LET sum[n \in 0..NR] == IF n = 0 THEN 0 ELSE sum[n - 1] + f[n - 1]
            IN  sum[NR]
Others(p) == Total([priority EXCEPT ![p] = 0])

(* The history: the processor spent a tick on somebody else.  Bound: the   *)
(* count stops one beyond two such refills.                                *)
Passed ==
  [p \in Watched |-> IF p \notin runnable \/ p = p_proc_ready THEN 0
                  ELSE IF waited[p] <= 2 * Others(p) THEN waited[p] + 1
                  ELSE waited[p]]

(* clock_handler at user level: charge, go on while ticks are left.        *)
TickUser ==
  /\ pc = "user"
  /\ ticks' = Charged
  /\ waited' = Passed
  /\ IF Charged[p_proc_ready] > 0 THEN UNCHANGED <<pc, loop>> ELSE StartSchedule
  /\ UNCHANGED <<runnable, free, p_proc_ready, in_call>>

(* clock_handler over a call, schedule() of the call included: return      *)
(* after the charge.  Over the clock handler itself the clock is masked.   *)
TickCall ==
  /\ in_call
  /\ ticks[p_proc_ready] > - MaxDebt
  /\ ticks' = Charged
  /\ waited' = [q \in Watched |-> IF q = p_proc_ready THEN 0 ELSE waited[q]]
  /\ UNCHANGED <<runnable, free, p_proc_ready, in_call, pc, loop>>
-----------------------------------------------------------------------------
(* Calls                                                                   *)

EnterCall ==
  /\ pc = "user"
  /\ pc' = "call" /\ in_call' = TRUE
  /\ UNCHANGED <<table, p_proc_ready, loop, waited>>

LeaveCall ==
  /\ pc \in {"call", "return"}
  /\ pc' = "user" /\ in_call' = FALSE
  /\ UNCHANGED <<table, p_proc_ready, loop, waited>>

(* Mutant: block() does not call schedule().                               *)
BlockCaller_GoesOn ==
  /\ pc = "call"
  /\ p_proc_ready \notin Idle
  /\ runnable' = runnable \ {p_proc_ready}
  /\ waited' = [q \in Watched |-> IF q = p_proc_ready THEN 0 ELSE waited[q]]
  /\ pc' = "return"
  /\ UNCHANGED <<ticks, free, p_proc_ready, in_call, loop>>

(* block(): the caller is no longer runnable, schedule() picks another.    *)
BlockCaller ==
  /\ pc = "call"
  /\ p_proc_ready \notin Idle
  /\ runnable' = runnable \ {p_proc_ready}
  /\ waited' = [q \in Watched |-> IF q = p_proc_ready THEN 0 ELSE waited[q]]
  /\ StartSchedule
  /\ UNCHANGED <<ticks, free, p_proc_ready, in_call>>

(* The call of the running process makes p runnable; its ticks are what it *)
(* had when it blocked.                                                    *)
Unblock(p) ==
  /\ pc = "call"
  /\ p \notin runnable \cup free
  /\ runnable' = runnable \cup {p}
  /\ UNCHANGED <<ticks, free, p_proc_ready, in_call, pc, loop, waited>>

(* info_task: an interrupt does, at any moment.                            *)
Interrupt(p) ==
  /\ p \in Drivers \ (runnable \cup free)
  /\ runnable' = runnable \cup {p}
  /\ woken' = IF pc \in {"scan", "refill"} THEN woken \cup {p} ELSE woken
  /\ UNCHANGED <<ticks, free, p_proc_ready, in_call, pc, i, greatest, waited>>
-----------------------------------------------------------------------------
(* The manager, which runs at user level like everybody else               *)

Manages == pc = "user" /\ p_proc_ready = Manager

(* do_fork: memcpy copies ticks and flags (and priority) of the parent,    *)
(* who is blocked or has come back to run.                                 *)
Fork(q, c) ==
  /\ Manages
  /\ q \in Users \ (free \cup {Manager}) /\ c \in free
  /\ free' = free \ {c}
  /\ ticks' = [ticks EXCEPT ![c] = ticks[q]]
  /\ runnable' = IF q \in runnable THEN runnable \cup {c} ELSE runnable
  /\ waited' = [p \in Watched |-> 0]
  /\ UNCHANGED <<p_proc_ready, in_call, pc, loop>>

(* do_exit and do_wait set HANGING or WAITING, clear WAITING, release.     *)
SetFlags(p) ==
  /\ Manages
  /\ p \in Users \ (free \cup {Manager})
  /\ \/ /\ runnable' = runnable \ {p} /\ waited' = [q \in Watched |-> IF q = p THEN 0 ELSE waited[q]]
        /\ free' \in {free} \cup (IF p \in Slots THEN {free \cup {p}} ELSE {})
     \/ runnable' = runnable \cup {p} /\ UNCHANGED <<waited, free>>
  /\ UNCHANGED <<ticks, p_proc_ready, in_call, pc, loop>>

Next == TickUser \/ TickCall \/ EnterCall \/ LeaveCall \/ BlockCaller \/ Schedule
        \/ \E p \in Proc : Unblock(p) \/ Interrupt(p) \/ SetFlags(p)
        \/ \E q, c \in Users : Fork(q, c)

(* Calls and schedule() end, and a clock that ticks at its own pace        *)
(* sometimes finds the processor at user level.                            *)
Fairness == SF_vars(TickUser) /\ WF_vars(LeaveCall \/ BlockCaller \/ Schedule)

Spec == Init /\ [][Next]_vars /\ Fairness

-----------------------------------------------------------------------------
TypeOK ==
  /\ ticks \in [Proc -> Int]
  /\ runnable \in SUBSET Proc /\ free \in SUBSET Slots
  /\ p_proc_ready \in Proc
  /\ in_call \in BOOLEAN
  /\ pc \in {"user", "call", "scan", "refill", "return"}
  /\ i \in 0..NR
  /\ greatest \in Nat
  /\ woken \in SUBSET Drivers
  /\ waited \in [Watched -> Nat]

(* Outside schedule() the processor belongs to a runnable process, and no  *)
(* process has more ticks than its refill, whatever it had left when it    *)
(* blocked and whoever it was copied from.                                 *)
RunsRunnable ==
  /\ pc \notin {"scan", "refill"} => p_proc_ready \in runnable
  /\ Idle \subseteq runnable
  /\ runnable \cap free = {}
  /\ \A p \in Proc : ticks[p] <= priority[p]

(* Between two forks, and between two ticks charged to it, a runnable      *)
(* process is passed over for at most the ticks the others have left now   *)
(* and those they get from the next refill, even when processes block and  *)
(* wake in between, before and behind the entry schedule() is at.          *)
BoundedWait == \A p \in Watched : waited[p] <= 2 * Others(p)

(* A refill begins only when every runnable process has used up its own    *)
(* ticks, and while it lasts this stays so for those it has not reached:   *)
(* nobody gets a second helping before all have had the first.  The only   *)
(* exception is a driver that an interrupt wakes in the middle of this     *)
(* very schedule(), behind the scan.                                       *)
RefillOnlyWhenSpent ==
  pc = "refill" => \A q \in runnable \ woken : q >= i => ticks[q] <= 0

(* A process that stays runnable gets the processor, save in two ways the  *)
(* code leaves open: that processes are forked again and again, or that    *)
(* the clock again and again comes just when schedule(), over a call, has  *)
(* p as its best entry so far, and charges p for a tick it did not have.   *)
NoStarvation ==
  \A p \in Proc :
    \/ []<>(p \notin runnable \/ (pc = "user" /\ p_proc_ready = p))
    \/ []<><<\E q, c \in Users : Fork(q, c)>>_vars
    \/ []<><<TickCall /\ pc = "scan" /\ p_proc_ready = p>>_vars
=============================================================================
