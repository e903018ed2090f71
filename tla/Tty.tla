-------------------------------- MODULE Tty --------------------------------
(***************************************************************************)
(* The terminal: the keyboard's interrupt handler and ring buffer          *)
(* (kernel/keyboard.c), the clock that passes the news on                  *)
(* (kernel/clock.c), the terminal task (kernel/tty.c) and the file system  *)
(* task as the way between it and the processes that read and write        *)
(* (fs/fs.c, fs/read_write.c).  One terminal, that of the current console: *)
(* only it is given keys.  A scan code is told by what it makes of a line; *)
(* key maps, and where characters appear on the screen, are left out.      *)
(*                                                                         *)
(* A caller of FS waits in its RECEIVE when FS answers, and FS in its      *)
(* RECEIVE when the terminal does: the second half of a send_recv(BOTH)    *)
(* needs nobody else.  FS is also busy with files; that delays it and is   *)
(* not shown.                                                              *)
(***************************************************************************)
EXTENDS Integers, Sequences

CONSTANTS
  Proc,      \* processes with the terminal open
  KB_SIZE,   \* cells of the ring (128)
  LINE       \* what a read asks for

TASK_TTY == "TASK_TTY"

ASSUME TtyAssumption ==
  /\ KB_SIZE \in Nat \ {0} /\ LINE \in Nat \ {0}
  /\ Proc # {} /\ TASK_TTY \notin Proc

Ops == {"read", "write"}                  \* DEV_OPEN goes the way of a write
(* none: what makes no character; prefix: E0 and E1, which need more codes *)
Codes == {"char", "enter", "backspace", "none", "prefix"}

VARIABLES
  kb_buf, p_tail, kb_count,      \* kb_in; its p_head is p_tail + kb_count
  keyboard_pressed, has_int_msg, \* the flag of the handler, the one of the kernel
  tty_pc,                        \* where the terminal task is
  tty_procnr,                    \* who reads
  tty_left_cnt, tty_trans_cnt,   \* bytes the reader still wants, and was given
  fs_pc, fs_src,                 \* where FS is, and for whom
  q_sending,                     \* who is queued at FS
  at,                            \* a process: "user" or the call it waits in
  halted                         \* panic()

kb == <<kb_buf, p_tail, kb_count>>
reader == <<tty_procnr, tty_left_cnt, tty_trans_cnt>>
tty == <<tty_pc, reader>>
fs == <<fs_pc, fs_src, q_sending>>
vars == <<kb, keyboard_pressed, has_int_msg, tty, fs, at, halted>>

Somebody == CHOOSE p \in Proc : TRUE

Init ==
  /\ kb_buf = [i \in 0..(KB_SIZE - 1) |-> "none"] /\ p_tail = 0 /\ kb_count = 0
  /\ keyboard_pressed = FALSE /\ has_int_msg = FALSE
  /\ tty_pc = "scan" /\ tty_procnr = Somebody
  /\ tty_left_cnt = 0 /\ tty_trans_cnt = 0
  /\ fs_pc = "loop" /\ fs_src = Somebody /\ q_sending = <<>>
  /\ at = [p \in Proc |-> "user"]
  /\ halted = FALSE

-----------------------------------------------------------------------------
(* Interrupts.                                                             *)
(* Mutant: the code is stored one cell early.                              *)
Press_OffByOne(k) ==
  /\ ~ halted
  /\ keyboard_pressed' = TRUE
  /\ IF kb_count <= KB_SIZE
     THEN /\ kb_buf' = [kb_buf EXCEPT ![(p_tail + kb_count + KB_SIZE - 1) % KB_SIZE] = k]
          /\ kb_count' = kb_count + 1
     ELSE UNCHANGED <<kb_buf, kb_count>>
  /\ UNCHANGED <<p_tail, has_int_msg, tty, fs, at, halted>>

(* keyboard_handler: the test lets one code more in than there are cells.  *)
Press(k) ==
  /\ ~ halted
  /\ keyboard_pressed' = TRUE
  /\ IF kb_count <= KB_SIZE
     THEN /\ kb_buf' = [kb_buf EXCEPT ![(p_tail + kb_count) % KB_SIZE] = k]
          /\ kb_count' = kb_count + 1
     ELSE UNCHANGED <<kb_buf, kb_count>>
  /\ UNCHANGED <<p_tail, has_int_msg, tty, fs, at, halted>>

(* clock_handler tells the terminal task, tick after tick, until the task  *)
(* clears the flag; info_task wakes it or leaves it a message.             *)
Tick ==
  /\ ~ halted /\ keyboard_pressed
  /\ IF tty_pc = "receiving"
     THEN tty_pc' = "interrupted" /\ has_int_msg' = FALSE
     ELSE has_int_msg' = TRUE /\ UNCHANGED tty_pc
  /\ UNCHANGED <<kb, keyboard_pressed, reader, fs, at, halted>>

-----------------------------------------------------------------------------
(* The processes and the file system task.                                 *)

(* A read or a write of the terminal: FS has it at once or queues it.  It  *)
(* panics if FS is sending to the caller.                                  *)
Call(p, op) ==
  /\ ~ halted /\ at[p] = "user"
  /\ IF fs_pc = "stuck" /\ fs_src = p
     THEN halted' = TRUE /\ UNCHANGED <<at, fs>>
     ELSE /\ at' = [at EXCEPT ![p] = op]
          /\ IF fs_pc = "receiving"
             THEN fs_pc' = "forward" /\ fs_src' = p /\ UNCHANGED q_sending
             ELSE q_sending' = Append(q_sending, p) /\ UNCHANGED <<fs_pc, fs_src>>
          /\ UNCHANGED halted
  /\ UNCHANGED <<kb, keyboard_pressed, has_int_msg, tty>>

(* task_fs receives: RESUME_PROC from the terminal task names the process  *)
(* to answer, a process wants its call forwarded.                          *)
FsReceive ==
  /\ ~ halted /\ fs_pc = "loop"
  /\ IF q_sending = <<>>
     THEN fs_pc' = "receiving" /\ UNCHANGED <<fs_src, q_sending, tty_pc>>
     ELSE /\ q_sending' = Tail(q_sending)
          /\ IF Head(q_sending) = TASK_TTY
             THEN fs_pc' = "answer" /\ fs_src' = tty_procnr /\ tty_pc' = "resumed"
             ELSE fs_pc' = "forward" /\ fs_src' = Head(q_sending) /\ UNCHANGED tty_pc
  /\ UNCHANGED <<kb, keyboard_pressed, has_int_msg, reader, at, halted>>

(* do_rw sends to the terminal task; the kernel panics on a cycle of two.  *)
FsForward ==
  /\ ~ halted /\ fs_pc = "forward"
  /\ IF tty_pc = "sending"
     THEN halted' = TRUE /\ UNCHANGED <<fs_pc, tty_pc>>
     ELSE /\ IF tty_pc = "receiving"
             THEN fs_pc' = "wait" /\ tty_pc' = "request"
             ELSE fs_pc' = "sending" /\ UNCHANGED tty_pc
          /\ UNCHANGED halted
  /\ UNCHANGED <<kb, keyboard_pressed, has_int_msg, reader, fs_src, q_sending, at>>

(* SYSCALL_RET to the process; to one that does not wait FS hangs.         *)
FsAnswer ==
  /\ ~ halted /\ fs_pc = "answer"
  /\ IF at[fs_src] # "user"
     THEN at' = [at EXCEPT ![fs_src] = "user"] /\ fs_pc' = "loop"
     ELSE fs_pc' = "stuck" /\ UNCHANGED at
  /\ UNCHANGED <<kb, keyboard_pressed, has_int_msg, tty, fs_src, q_sending, halted>>

-----------------------------------------------------------------------------
(* The terminal task.                                                      *)
(* Mutant: a backspace takes back a byte that was never given.             *)
Typed_NoFloor(k) ==
  /\ tty_trans_cnt' = CASE k = "char" -> tty_trans_cnt + 1
                        [] k = "backspace" -> tty_trans_cnt - 1
                        [] OTHER -> tty_trans_cnt
  /\ tty_left_cnt' = tty_left_cnt + tty_trans_cnt - tty_trans_cnt'
  /\ tty_pc' = IF k = "enter" \/ tty_left_cnt' = 0 THEN "resume" ELSE "loop"

(* tty_write, one character for the reader: the byte is his, or takes one  *)
(* back, or ends the line; so does the last byte he asked for.             *)
Typed(k) ==
  /\ tty_trans_cnt' = CASE k = "char" -> tty_trans_cnt + 1
                        [] k = "backspace" /\ tty_trans_cnt > 0 -> tty_trans_cnt - 1
                        [] OTHER -> tty_trans_cnt
  /\ tty_left_cnt' = tty_left_cnt + tty_trans_cnt - tty_trans_cnt'
  /\ tty_pc' = IF k = "enter" \/ tty_left_cnt' = 0 THEN "resume" ELSE "loop"

(* get_byte_from_buf.                                                      *)
TakeCode == /\ kb_count > 0 /\ kb_count' = kb_count - 1
            /\ p_tail' = (p_tail + 1) % KB_SIZE
            /\ UNCHANGED kb_buf

(* What is typed is dropped when nobody reads.                             *)
Given(k) ==
  \/ tty_left_cnt > 0 /\ Typed(k)
  \/ tty_left_cnt = 0 /\ tty_pc' = "loop" /\ UNCHANGED <<tty_left_cnt, tty_trans_cnt>>

(* One pass over the terminal takes one key from the ring, if there is one *)
TtyScan ==
  /\ ~ halted /\ tty_pc = "scan"
  /\ \/ /\ kb_count = 0 /\ tty_pc' = "loop"
        /\ UNCHANGED <<kb, tty_left_cnt, tty_trans_cnt>>
     \/ TakeCode /\ kb_buf[p_tail] # "prefix" /\ Given(kb_buf[p_tail])
     \/ /\ TakeCode /\ kb_buf[p_tail] = "prefix" /\ tty_pc' = "codes"
        /\ UNCHANGED <<tty_left_cnt, tty_trans_cnt>>
  /\ UNCHANGED <<keyboard_pressed, has_int_msg, tty_procnr, fs, at, halted>>

(* with all its codes: after a prefix the task spins until the next one is *)
(* there.  It may want another still; the last makes what it makes alone,  *)
(* or nothing.                                                             *)
TtyCodes ==
  /\ ~ halted /\ tty_pc = "codes" /\ TakeCode
  /\ \/ UNCHANGED <<tty_pc, tty_left_cnt, tty_trans_cnt>>
     \/ \E k \in {kb_buf[p_tail], "none"} : Given(k)
  /\ UNCHANGED <<keyboard_pressed, has_int_msg, tty_procnr, fs, at, halted>>

(* Mutant: FS is told only if it listens.                                  *)
TtyResume_Drops ==
  /\ ~ halted /\ tty_pc = "resume"
  /\ IF fs_pc = "receiving"
     THEN fs_pc' = "answer" /\ fs_src' = tty_procnr
     ELSE UNCHANGED <<fs_pc, fs_src>>
  /\ tty_pc' = "resumed"
  /\ UNCHANGED <<kb, keyboard_pressed, has_int_msg, reader, q_sending, at, halted>>

(* RESUME_PROC to FS; the kernel panics when FS is sending to this task.   *)
TtyResume ==
  /\ ~ halted /\ tty_pc = "resume"
  /\ IF fs_pc = "sending"
     THEN halted' = TRUE /\ UNCHANGED <<tty_pc, fs>>
     ELSE /\ IF fs_pc = "receiving"
             THEN /\ fs_pc' = "answer" /\ fs_src' = tty_procnr /\ tty_pc' = "resumed"
                  /\ UNCHANGED q_sending
             ELSE /\ q_sending' = Append(q_sending, TASK_TTY) /\ tty_pc' = "sending"
                  /\ UNCHANGED <<fs_pc, fs_src>>
          /\ UNCHANGED halted
  /\ UNCHANGED <<kb, keyboard_pressed, has_int_msg, reader, at>>
(* Mutant: the reader's count is not cleared after its line.               *)
TtyResumed_KeepsCount ==
  /\ ~ halted /\ tty_pc = "resumed"
  /\ tty_pc' = "loop"
  /\ UNCHANGED <<kb, keyboard_pressed, has_int_msg, reader, fs, at, halted>>

TtyResumed ==
  /\ ~ halted /\ tty_pc = "resumed"
  /\ tty_left_cnt' = 0
  /\ tty_pc' = "loop"
  /\ UNCHANGED <<kb, keyboard_pressed, has_int_msg, tty_procnr, tty_trans_cnt, fs,
                 at, halted>>

(* Mutant: the queue goes before the interrupt.                            *)
TtyReceive_QueueFirst ==
  /\ ~ halted /\ tty_pc = "loop"
  /\ tty_pc' = IF fs_pc = "sending" THEN "request"
               ELSE IF has_int_msg THEN "interrupted" ELSE "receiving"
  /\ has_int_msg' = (has_int_msg /\ tty_pc' = "request")
  /\ fs_pc' = IF tty_pc' = "request" THEN "wait" ELSE fs_pc
  /\ UNCHANGED <<kb, keyboard_pressed, reader, fs_src, q_sending, at, halted>>

(* RECEIVE from anybody: an interrupt goes first, then FS if it is queued. *)
TtyReceive ==
  /\ ~ halted /\ tty_pc = "loop"
  /\ has_int_msg' = FALSE
  /\ tty_pc' = IF has_int_msg THEN "interrupted"
               ELSE IF fs_pc = "sending" THEN "request" ELSE "receiving"
  /\ fs_pc' = IF tty_pc' = "request" THEN "wait" ELSE fs_pc
  /\ UNCHANGED <<kb, keyboard_pressed, reader, fs_src, q_sending, at, halted>>

(* HARD_INT: a key pressed since the message came is forgotten with it.    *)
TtyInterrupted ==
  /\ ~ halted /\ tty_pc = "interrupted"
  /\ keyboard_pressed' = FALSE
  /\ tty_pc' = "scan"
  /\ UNCHANGED <<kb, has_int_msg, reader, fs, at, halted>>

(* tty_do_read takes the reader's wishes, whoever read before, and has FS  *)
(* suspend him; tty_do_write is done at once.  What it sends to FS is the  *)
(* stack behind the pointer to its message: FS finds no SUSPEND_PROC in it *)
(* and answers, with any count.                                            *)
TtyRequest ==
  /\ ~ halted /\ tty_pc = "request"
  /\ IF at[fs_src] = "read"
     THEN /\ tty_procnr' = fs_src /\ tty_left_cnt' = LINE /\ tty_trans_cnt' = 0
          /\ fs_pc' = "loop"
     ELSE fs_pc' = "answer" /\ UNCHANGED reader
  /\ tty_pc' = "scan"
  /\ UNCHANGED <<kb, keyboard_pressed, has_int_msg, fs_src, q_sending, at, halted>>

-----------------------------------------------------------------------------
TtyStep == \/ TtyScan \/ TtyCodes \/ TtyResume \/ TtyResumed
           \/ TtyReceive \/ TtyInterrupted \/ TtyRequest
FsStep == FsReceive \/ FsForward \/ FsAnswer

(* Tasks that can run do run (module Sched), and the clock ticks.          *)
Fairness == WF_vars(TtyStep) /\ WF_vars(FsStep) /\ WF_vars(Tick)

Next ==
  \/ \E k \in Codes : Press(k)
  \/ Tick \/ TtyStep \/ FsStep
  \/ \E p \in Proc, op \in Ops : Call(p, op)

Spec == Init /\ [][Next]_vars /\ Fairness

(* One process at a time uses the terminal.                                *)
OneUserNext ==
  \/ \E k \in Codes : Press(k)
  \/ Tick \/ TtyStep \/ FsStep
  \/ \E p \in Proc, op \in Ops : (\A q \in Proc : at[q] = "user") /\ Call(p, op)

OneUserSpec == Init /\ [][OneUserNext]_vars /\ Fairness

-----------------------------------------------------------------------------
(* Properties.                                                             *)

(* What was given to the reader and what he still wants add up; the ring   *)
(* holds one code too many at worst.                                       *)
TypeOK ==
  /\ kb_buf \in [0..(KB_SIZE - 1) -> Codes]
  /\ p_tail \in 0..(KB_SIZE - 1) /\ kb_count \in 0..(KB_SIZE + 1)
  /\ keyboard_pressed \in BOOLEAN /\ has_int_msg \in BOOLEAN /\ halted \in BOOLEAN
  /\ tty_pc \in {"scan", "codes", "resume", "sending", "resumed", "loop", "receiving",
                 "interrupted", "request"}
  /\ fs_pc \in {"loop", "receiving", "forward", "sending", "wait", "answer", "stuck"}
  /\ tty_procnr \in Proc /\ fs_src \in Proc /\ at \in [Proc -> Ops \cup {"user"}]
  /\ tty_left_cnt \in 0..LINE /\ tty_trans_cnt \in 0..LINE
  /\ tty_left_cnt > 0 => tty_left_cnt + tty_trans_cnt = LINE

(* The kernel never stops the machine over a cycle of senders: the         *)
(* terminal task's message to resume a reader (kernel/tty.c:78) gets to FS.*)
NoPanic == ~ halted

(* FS answers only a process that waits for it: nobody is resumed twice or *)
(* for a call it has not made.                                             *)
AnswersOnlyCallers == fs_pc # "stuck"

(* Until the ring overflows, codes leave it in the order they came: each   *)
(* step adds one behind, takes the first, or leaves them alone.            *)
Waiting == [i \in 1..kb_count |-> kb_buf[(p_tail + i - 1) % KB_SIZE]]
KeysInOrder ==
  [][kb_count' <= KB_SIZE =>
       \/ Waiting' = Waiting
       \/ kb_count > 0 /\ Waiting' = Tail(Waiting)
       \/ \E k \in Codes : Waiting' = Append(Waiting, k)]_vars

(* A line that is complete reaches its reader.  A write to the terminal    *)
(* comes back, provided that typing leaves the task time: interrupts go    *)
(* before requests in recv_msg, so a key before every pass of the task     *)
(* would keep writers out.                                                 *)
TypingPauses ==
  []<>(tty_pc = "receiving") \/ []<><<TtyReceive /\ ~ has_int_msg>>_vars
CallsReturn ==
  \A p \in Proc :
    /\ (tty_pc = "resume" /\ tty_procnr = p) ~> (at[p] = "user")
    /\ TypingPauses => (at[p] = "write") ~> (at[p] = "user")

(* The news of a key gets to the terminal task, however busy writers keep  *)
(* it (info_task and the order of recv_msg), unless the codes that belong  *)
(* to a prefix never come (keyboard.c:53).                                 *)
PressNoticed == keyboard_pressed ~> (~ keyboard_pressed \/ [](tty_pc = "codes"))
=============================================================================
